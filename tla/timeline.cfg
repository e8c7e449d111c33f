SPECIFICATION Spec
CONSTANTS
  bash = bash
  skill = skill
  agent = agent
  inAgent = inAgent
  inSkill = inSkill
  Tools = {bash, skill}
  Agents = {agent, skill}
  Inner = {inAgent, inSkill}
  AgentOf <- MCAgentOf
  Kind <- MCKind
  None = None
  MaxTurns = 1
  MaxWork = 2
  MaxFrags = 1
  MaxStarts = 1
  MaxEvents = 1
CHECK_DEADLOCK FALSE
INVARIANTS ReloadShowsThePage WorkAgrees StreamShowsBlockOrNothing 
