------------------------------ MODULE Channel -------------------------------
(***************************************************************************)
(* What the Kafka topics and the ClickHouse consumer promise together:     *)
(* what is published is stored at least once, in any order, and nothing    *)
(* else is ever stored.                                                    *)
(***************************************************************************)
CONSTANT Message

VARIABLES published,   \* the messages in the topics
          arrived      \* the messages with a row in ClickHouse

ChannelInit ==
    /\ published = {}
    /\ arrived = {}

Publish ==
    /\ \E m \in Message \ published : published' = published \cup {m}
    /\ UNCHANGED arrived

Arrive(ms) ==
    /\ arrived' = arrived \cup ms
    /\ UNCHANGED published

ArriveSome == \E ms \in SUBSET published : Arrive(ms)

ChannelSpec == ChannelInit /\ [][Publish \/ ArriveSome]_<<published, arrived>>

(* Every published message arrives in the end.                             *)
NothingIsLost == \A m \in Message : m \in published ~> m \in arrived
=============================================================================
