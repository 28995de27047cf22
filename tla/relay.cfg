\* Three prompts, the first two with the same id; two people, either of whom
\* may be paired or not; a tap at a time on its way.
SPECIFICATION FairSpec
CONSTANTS
  Reissued = r1
  Other = r2
  OtherPrompt = p3
  Requests = {r1, r2}
  Prompts = {p1, p2, p3}
  ReqOf <- MCReqOf
  NoPrompt = NoPrompt
  DMs = {1, 2}
  MaxTaps = 1
INVARIANTS TypeOK TimersMatchPending OneVerdict
PROPERTIES AllowIsAuthorised PromptsEnd
