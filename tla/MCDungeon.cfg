\* Two connections play the same player's dungeons.
CONSTANTS
  c1 = c1
  c2 = c2
  p1 = p1
  e1 = e1
  s1 = s1
  h1 = h1
  h2 = h2
  None = None
  Conns = {c1, c2}
  Players = {p1}
  Episodes = {e1}
  Stories = {s1}
  Chapters = {h1, h2}
  ChapterOf <- MCChapterOf
  Named <- MCNamed
  Groups <- MCGroups
  MaxRequests <- MCMaxRequests
  MaxFaults = 1
  MaxTime = 2
  PerPoint = 3
  Skill <- MCSkill
  PoolMax <- MCPoolMax
  Owned <- MCOwned
  Trial <- MCTrial
  Monsters <- MCMonsters
  Life <- MCLife
  BaseSkills <- MCBaseSkills
  Line <- MCLine
  Upgrade <- MCUpgrade
  PlayerMax = 4
  StartPool <- MCStartPool
  MaxAid = 2
  MaxOrdinal = 4
  HalfWord = 8
  Deals <- MCDeals
  Lineups <- MCLineups
  OperLists <- MCOperLists
SPECIFICATION Spec
INVARIANTS
    RoundSound
    AnsweredMeansSaved
    TablesAgree
    TeamsSound
PROPERTIES
    RequestSettles
CHECK_DEADLOCK FALSE
