--------------------------- MODULE MCInboundPipeline ---------------------------
(***************************************************************************)
(* What the messages of the run may be: a click on a verdict button, a     *)
(* plain text, and messages with two attachments of which one or both may  *)
(* be downloaded.                                                          *)
(***************************************************************************)
EXTENDS InboundPipeline

MCContents ==
  [click : {FALSE}, attachments : {<<>>, <<"cdn", "cdn">>, <<"cdn", "other">>}]
  \union [click : {TRUE}, attachments : {<<>>}]
===============================================================================
