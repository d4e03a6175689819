----------------------- MODULE PromptStreamRefinement -----------------------
(***************************************************************************)
(* PromptStream implements LiveFeed.  A reader is subscribed from the       *)
(* moment its listener is attached to the moment it is taken off (or the    *)
(* process is gone); what it was sent are the numbers in its frames.        *)
(***************************************************************************)
EXTENDS PromptStream

NoSession == 0

Reads == [c \in Conn |-> IF Serving /\ c \in Attached THEN sid[c] ELSE NoSession]

SentNumbers ==
  [c \in Conn |-> IF Serving /\ c \in Attached
                  THEN {p.seq : p \in SentRows(c)} ELSE {}]

Feed == INSTANCE LiveFeed WITH
  Topic     <- Sid,
  Reader    <- Conn,
  NoTopic   <- NoSession,
  Cap       <- MaxConnections,
  Recent    <- SnapshotLimit,
  published <- [s \in Sid |-> Cardinality(PromptsOf(s))],
  reads     <- Reads,
  sent      <- SentNumbers

\* Every step of the server is a step of the abstract feed or none: the
\* snapshot read, the listener and the broadcast together give each subscriber
\* an unbroken run of prompts that ends with the latest one.
ImplementsFeed == Feed!FeedSpec
============================================================================
