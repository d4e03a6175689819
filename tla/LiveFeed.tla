------------------------------ MODULE LiveFeed ------------------------------
(***************************************************************************)
(* What the live feed promises, whatever its implementation: the prompts of *)
(* a session are numbered in the order of publication; a subscriber first   *)
(* gets the most recent ones and then each new one at the moment it is      *)
(* published, so what it was sent is always an unbroken run of numbers that *)
(* ends with the latest; there are never more subscribers than the cap.     *)
(***************************************************************************)
EXTENDS Integers, FiniteSets

CONSTANTS
  Topic,       \* sessions
  Reader,      \* connections
  NoTopic,     \* what an unsubscribed reader reads
  Cap,         \* most readers at a time
  Recent       \* prompts a new subscriber is given at once

VARIABLES
  published,   \* prompts published in each topic
  reads,       \* the topic each reader is subscribed to
  sent         \* the numbers each subscriber was sent

feedVars == <<published, reads, sent>>

Subscribed == {r \in Reader : reads[r] # NoTopic}

FeedInit ==
  /\ published = [t \in Topic |-> 0]
  /\ reads = [r \in Reader |-> NoTopic]
  /\ sent = [r \in Reader |-> {}]

\* one more prompt in t, and every subscriber of t has it
Publish(t) ==
  /\ published' = [published EXCEPT ![t] = @ + 1]
  /\ sent' = [r \in Reader |-> IF reads[r] = t
                               THEN sent[r] \cup {published[t] + 1}
                               ELSE sent[r]]
  /\ UNCHANGED reads

\* the topic and its prompts are deleted; its subscribers keep what they have
Discard(t) ==
  /\ published' = [published EXCEPT ![t] = 0]
  /\ UNCHANGED <<reads, sent>>

Join(r, t) ==
  /\ reads[r] = NoTopic
  /\ Cardinality(Subscribed) < Cap
  /\ reads' = [reads EXCEPT ![r] = t]
  /\ sent' = [sent EXCEPT ![r] = {n \in 1 .. published[t] : n > published[t] - Recent}]
  /\ UNCHANGED published

Leave(r) ==
  /\ reads' = [reads EXCEPT ![r] = NoTopic]
  /\ sent' = [sent EXCEPT ![r] = {}]
  /\ UNCHANGED published

\* the service stops: every subscription ends; a prompt may be stored as it
\* goes down without anybody being sent it
Stop ==
  /\ reads' = [r \in Reader |-> NoTopic]
  /\ sent' = [r \in Reader |-> {}]
  /\ \/ UNCHANGED published
     \/ \E t \in Topic : published' = [published EXCEPT ![t] = @ + 1]

FeedNext ==
  \/ \E t \in Topic : Publish(t) \/ Discard(t)
  \/ \E r \in Reader : Leave(r) \/ \E t \in Topic : Join(r, t)
  \/ Stop

FeedSpec == FeedInit /\ [][FeedNext]_feedVars
============================================================================
