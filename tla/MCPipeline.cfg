CONSTANTS
  ask = ask
  plan = plan
  mention = mention
  log = log
  remark = remark
  short = short
  main = main
  None = None
  Say = {ask, plan, mention, log, remark, short}
  LongSay = {plan, log, remark}
  Weight <- MCWeight
  Saving <- MCSaving
  Place <- MCPlace
  Overhead = 1
  TriggerTokens = 9
  TargetTokens = 7
  RecentTurnsFull = 1
  Configs <- MCConfigs
  KeyModes = {None, "off", "balanced"}
  UserTexts <- MCUserTexts
  AnswerTexts <- MCAnswerTexts
  ResultTexts <- MCResultTexts
  Remarks <- MCRemarks
  MaxCalls = 2
  MaxMessages = 5
  MaxAttempts = 2
SPECIFICATION PipelineSpec
INVARIANTS
  PipelineTypeOK
  ResultsReachUnlessCrowded
  LossDeclared
