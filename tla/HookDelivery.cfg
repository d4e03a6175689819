\* Two prompts of any kind, from two Claude sessions or from one on a host with a
\* wrong token; sessions may be deleted between the prompts; a bucket of one, so that the second request may be refused.
SPECIFICATION FairSpec
CONSTANTS
  Claude = {k1, k2, k3}
  BadToken = {k3}
  Rate = 1
  Kinds = {"short", "long", "wide", "odd", "cut"}
  MaxEvent = 2
  MaxSid = 2
  MaxPid = 2
INVARIANTS
  StoreNumbered
  StoredOrQueued
  InOrderUnlessOverlapping
  WholeLines
PROPERTIES
  TwiceOnlyIfUnanswered
  HookEnds
