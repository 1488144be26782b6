------------------------- MODULE PaymentScreensProofs -------------------------
(***************************************************************************)
(* Theorems about the client of the API, for any calls and any number of   *)
(* retries: how often a call takes effect, and that the retry loop over    *)
(* the faulty network implements the contract of CallContract.  Then       *)
(* theorems about the visits of PaymentScreens, for any numbers of         *)
(* accounts, retries, submissions and refreshes: for every screen an       *)
(* inductive invariant, at the end the theorems about all of them.         *)
(***************************************************************************)
EXTENDS PaymentScreens, FiniteSetTheorems, FunctionTheorems, SequenceTheorems,
        NaturalsInduction, TLAPS

-----------------------------------------------------------------------------
(* The client of the API.                                                  *)

(* The attempts of a call that have left the browser.                      *)
Left(c) == {k \in Attempt : \/ k < attempt[c]
                            \/ k = attempt[c] /\ phase[c] \in {"waiting", "settled"}}

(* Nothing is under way, answered or carried out that was not sent.        *)
OnlySent ==
    /\ \A c \in Call, k \in Attempt : <<c, k>> \in delivered => k \in Left(c)
    /\ \A a \in answers : a.attempt \in Left(a.call)
    /\ \A c \in Call : executed[c] \subseteq Left(c)

(* A request that waits has had no effect, and only the proxy has answered *)
(* it, if anyone has; one that is committed has had its effect.            *)
ServedOnce ==
    /\ \A c \in Call : \A k \in executed[c] : <<c, k>> \notin delivered
    /\ \A c \in Call, k \in Attempt : <<c, k>> \in committed => k \in executed[c]
    /\ \A a \in answers : a.says # "failed" => <<a.call, a.attempt>> \notin delivered

(* What an answer tells of its call.                                       *)
Told(a) ==
    /\ a.says = "ok" => /\ executed[a.call] # {}
                        /\ a.call \in Separate => Replayed(a.call)
    /\ a.says \in {"refused", "unauthorized"} => a.attempt \notin executed[a.call]

AnswersAreTrue == \A a \in answers : Told(a)

(* How far request() has come.                                             *)
Stage(c) ==
    /\ outcome[c] = "none" <=> phase[c] = "idle"
    /\ outcome[c] \in Contract!Ending <=> phase[c] = "settled"
    /\ phase[c] = "idle" => attempt[c] = 0

(* An ending rests on an answer.                                           *)
EndedByAnswer(c) ==
    /\ outcome[c] = "data" => /\ executed[c] # {}
                              /\ c \in Separate => Replayed(c)
    /\ outcome[c] = "error" =>
           \E a \in answers : a.call = c /\ a.attempt = attempt[c] /\ a.says # "ok"

(* What the row of the key knows of the effects.  Where the key has no     *)
(* commit of its own, it lags one effect behind them.                      *)
KeyTruth(c) ==
    /\ c \notin Keyed => key[c] = "absent"
    /\ c \in Keyed /\ key[c] = "absent" => executed[c] = {}
    /\ key[c] = "completed" => executed[c] # {}
    /\ c \in Keyed \ Separate /\ key[c] = "pending" =>
           \E i \in Attempt : executed[c] \subseteq {i}
    /\ c \in Keyed \ Separate => \E i, j \in Attempt : executed[c] \subseteq {i, j}

IInv ==
    /\ TypeOK
    /\ OnlySent /\ ServedOnce /\ AnswersAreTrue
    /\ \A c \in Call : Stage(c) /\ EndedByAnswer(c) /\ KeyTruth(c)

-----------------------------------------------------------------------------
(* Types.                                                                  *)

(* A counted attempt stays within the bound.                               *)
LEMMA NextAttempt ==
    ASSUME NEW c \in Call, attempt[c] \in Attempt, CanRetry(c)
    PROVE  attempt[c] + 1 \in Attempt
  BY ApiClientAssumption DEF ApiClientAssumption, Attempt, CanRetry

(* The first attempt is one.                                               *)
LEMMA InitType == Init => TypeOK
<1>1. 0 \in Attempt
  BY ApiClientAssumption DEF ApiClientAssumption, Attempt
<1>2. Init => signedIn \in BOOLEAN
  BY Zenon DEF Init
<1>3. QED
  BY <1>1, <1>2 DEF Init, TypeOK

(* What the client does keeps the types.                                   *)
LEMMA ClientType ==
    ASSUME TypeOK, NEW c \in Call, Client(c)
    PROVE  TypeOK'
<1>1. UNCHANGED <<signedIn, committed, answers, executed, key>>
  BY DEF Client, Begin, Fetch, FailAttempt, Wake, GiveUp, Settle, network
<1>2. delivered' \in SUBSET (Call \X Attempt)
  <2>1. CASE Fetch(c)
    <3>1. <<c, attempt[c]>> \in Call \X Attempt
      BY DEF TypeOK
    <3>2. QED
      BY <2>1, <3>1 DEF TypeOK, Fetch
  <2>2. CASE ~Fetch(c)
    BY <2>2, Zenon DEF TypeOK, Client, Begin, FailAttempt, Wake, GiveUp, network
  <2>3. QED
    BY <2>1, <2>2
<1>3. attempt' \in [Call -> Attempt]
  <2>1. CASE FailAttempt(c)
    BY <2>1, NextAttempt DEF TypeOK, FailAttempt
  <2>2. CASE ~FailAttempt(c)
    BY <2>2 DEF TypeOK, Client, Begin, Fetch, Wake, GiveUp
  <2>3. QED
    BY <2>1, <2>2
<1>4. /\ phase' \in [Call -> {"idle", "fetching", "waiting", "sleeping", "settled"}]
      /\ outcome' \in [Call -> {"none", "pending"} \cup Contract!Ending]
  BY DEF TypeOK, Client, Begin, Fetch, FailAttempt, Wake, GiveUp, Settle, Contract!Ending
<1>5. QED
  BY <1>1, <1>2, <1>3, <1>4 DEF TypeOK

(* So does an answer that arrives ...                                      *)
LEMMA AnswerType ==
    ASSUME TypeOK, NEW a \in answers, Resolve(a) \/ RejectApi(a)
    PROVE  TypeOK'
<1>1. signedIn' \in BOOLEAN /\ UNCHANGED <<attempt, network>>
  BY Zenon DEF TypeOK, Resolve, RejectApi
<1>2. /\ phase' \in [Call -> {"idle", "fetching", "waiting", "sleeping", "settled"}]
      /\ outcome' \in [Call -> {"none", "pending"} \cup Contract!Ending]
  BY DEF TypeOK, Resolve, RejectApi, Settle, Contract!Ending
<1>3. QED
  BY <1>1, <1>2 DEF TypeOK, Resolve, RejectApi, network

(* A key is absent, pending or completed.                                  *)
LEMMA KeyAfterType ==
    ASSUME NEW c \in Call
    PROVE  KeyAfter(c) \in {"absent", "pending", "completed"}
  BY DEF KeyAfter

(* ... and what the network and the server do.                             *)
LEMMA ServerType ==
    ASSUME TypeOK, NEW c \in Call, NEW k \in Attempt, Server(c, k)
    PROVE  TypeOK'
<1>1. UNCHANGED <<phase, attempt, outcome, signedIn>>
  BY DEF Server, LoseRequest, Replay, Execute, Finish, FailLate, Refuse, ProxyTimeout, client
<1>2. delivered' \in SUBSET (Call \X Attempt)
  BY Zenon DEF TypeOK, Server, LoseRequest, Replay, Execute, Finish, FailLate, Refuse,
               ProxyTimeout
<1>3. committed' \in SUBSET (Call \X Attempt)
  BY DEF TypeOK, Server, LoseRequest, Replay, Execute, Finish, FailLate, Refuse, ProxyTimeout
<1>4. answers' \in SUBSET Answer
  <2>1. \A says \in Says : [call |-> c, attempt |-> k, says |-> says] \in Answer
    BY DEF Answer
  <2>2. answers' = answers \/ \E says \in Says : Reply(c, k, says)
    BY DEF Server, LoseRequest, Replay, Execute, Finish, FailLate, Refuse, ProxyTimeout, Says
  <2>3. QED
    BY <2>1, <2>2 DEF TypeOK, Reply
<1>5. executed' \in [Call -> SUBSET Attempt]
  BY DEF TypeOK, Server, LoseRequest, Replay, Execute, Finish, FailLate, Refuse, ProxyTimeout
<1>6. key' \in [Call -> {"absent", "pending", "completed"}]
  <2>1. CASE key' = key
    BY <2>1 DEF TypeOK
  <2>2. CASE Execute(c, k)
    BY <2>2, KeyAfterType DEF TypeOK, Execute
  <2>3. CASE Finish(c, k)
    BY <2>3 DEF TypeOK, Finish
  <2>4. QED
    BY <2>1, <2>2, <2>3 DEF Server, LoseRequest, Replay, FailLate, Refuse, ProxyTimeout
<1>7. QED
  BY <1>1, <1>2, <1>3, <1>4, <1>5, <1>6 DEF TypeOK

-----------------------------------------------------------------------------
(* The invariant.                                                          *)

(* Attempts are numbers that can be compared.                              *)
LEMMA AttemptIsNat == Attempt \subseteq Nat /\ 0 \in Attempt
  BY ApiClientAssumption DEF ApiClientAssumption, Attempt

(* What has left the browser stays that way.                               *)
LEMMA ClientLeft ==
    ASSUME TypeOK, NEW c \in Call, Client(c)
    PROVE  \A d \in Call : Left(d) \subseteq Left(d)'
<1>1. Attempt' = Attempt
  BY DEF Attempt
<1>2. \A d \in Call : attempt[d] \in Nat
  BY AttemptIsNat DEF TypeOK
<1>3. CASE FailAttempt(c)
  <2>1. ASSUME NEW d \in Call, d # c PROVE Left(d) \subseteq Left(d)'
    <3>1. attempt'[d] = attempt[d] /\ phase'[d] = phase[d]
      BY <1>3, <2>1 DEF FailAttempt, TypeOK
    <3>2. QED
      BY <1>1, <3>1 DEF Left
  <2>2. \A k \in Attempt : k <= attempt[c] => k < attempt'[c]
    BY <1>2, <1>3, AttemptIsNat DEF FailAttempt, TypeOK
  <2>3. ASSUME NEW k \in Left(c) PROVE k <= attempt[c]
    <3>1. k < attempt[c] \/ k = attempt[c]
      BY DEF Left
    <3>2. k \in Nat /\ attempt[c] \in Nat
      BY <1>2, AttemptIsNat DEF Left
    <3>3. QED
      BY <3>1, <3>2
  <2>4. Left(c) \subseteq Left(c)'
    BY <1>1, <2>2, <2>3 DEF Left
  <2>5. QED
    BY <2>1, <2>4
<1>4. CASE ~FailAttempt(c)
  BY <1>1, <1>4, AttemptIsNat
  DEF Client, Begin, Fetch, Wake, GiveUp, Settle, Left, TypeOK
<1>5. QED
  BY <1>3, <1>4

(* The client's own steps: only Fetch sends, and what it sends is new.     *)
LEMMA ClientStep ==
    ASSUME IInv, TypeOK', NEW c \in Call, Client(c)
    PROVE  IInv'
<1>1. /\ UNCHANGED <<committed, answers, executed, key>>
      /\ \A d \in Call : Left(d) \subseteq Left(d)'
  BY ClientLeft DEF IInv, Client, Begin, Fetch, FailAttempt, Wake, GiveUp, network
<1>2. OnlySent' /\ ServedOnce'
  <2>1. CASE Fetch(c)
    <3>1. attempt[c] \in Attempt /\ attempt[c] \notin Left(c) /\ attempt[c] \in Left(c)'
      <4>0. attempt[c] \in Attempt
        BY DEF IInv, TypeOK
      <4>1. attempt[c] \in Nat
        BY <4>0, AttemptIsNat
      <4>2. phase[c] = "fetching" /\ phase'[c] = "waiting" /\ attempt' = attempt
        BY <2>1 DEF IInv, TypeOK, Fetch
      <4>3. Attempt' = Attempt
        BY DEF Attempt
      <4>4. attempt[c] \notin Left(c)
        BY <4>1, <4>2 DEF Left
      <4>5. attempt[c] \in Left(c)'
        BY <4>0, <4>2, <4>3 DEF Left
      <4>6. QED
        BY <4>0, <4>4, <4>5
    <3>2. delivered' = delivered \cup {<<c, attempt[c]>>}
      BY <2>1 DEF Fetch
    <3>3. OnlySent'
      BY <1>1, <3>1, <3>2 DEF IInv, TypeOK, OnlySent, Answer
    <3>4. ServedOnce'
      BY <1>1, <3>1, <3>2 DEF IInv, TypeOK, OnlySent, ServedOnce, Answer
    <3>5. QED
      BY <3>3, <3>4
  <2>2. CASE ~Fetch(c)
    <3>1. UNCHANGED delivered
      BY <2>2 DEF Client, Begin, FailAttempt, Wake, GiveUp, network
    <3>2. QED
      BY <1>1, <3>1 DEF IInv, TypeOK, OnlySent, ServedOnce, Answer
  <2>3. QED
    BY <2>1, <2>2
<1>3. AnswersAreTrue' /\ \A d \in Call : KeyTruth(d)'
  BY <1>1 DEF IInv, AnswersAreTrue, Told, Replayed, KeyTruth, Attempt
<1>4. \A d \in Call : Stage(d)'
  BY AttemptIsNat
  DEF IInv, TypeOK, Stage, Client, Begin, Fetch, FailAttempt, Wake, GiveUp, Settle,
      Contract!Ending
<1>5. ASSUME NEW d \in Call PROVE EndedByAnswer(d)'
  <2>1. outcome'[d] \in {"data", "error"} => outcome'[d] = outcome[d]
    BY DEF IInv, TypeOK, Client, Begin, Fetch, FailAttempt, Wake, GiveUp, Settle
  <2>2. outcome[d] \in {"data", "error"} => attempt'[d] = attempt[d]
    BY DEF IInv, TypeOK, Stage, Client, Begin, Fetch, FailAttempt, Wake, GiveUp,
           Contract!Ending
  <2>3. EndedByAnswer(d)
    BY DEF IInv
  <2>4. QED
    BY <1>1, <2>1, <2>2, <2>3 DEF EndedByAnswer, Replayed
<1>6. QED
  BY <1>2, <1>3, <1>4, <1>5 DEF IInv

(* An answer ends the call it is awaited by and changes nothing else.      *)
LEMMA AnswerStep ==
    ASSUME IInv, TypeOK', NEW a \in answers, Resolve(a) \/ RejectApi(a)
    PROVE  IInv'
<1>1. /\ UNCHANGED <<attempt, delivered, committed, answers, executed, key>>
      /\ phase[a.call] = "waiting" /\ a.attempt = attempt[a.call] /\ a.call \in Call
      /\ phase' = [phase EXCEPT ![a.call] = "settled"]
  BY DEF IInv, TypeOK, Answer, Resolve, RejectApi, Settle, Awaited, network
<1>2. \A d \in Call : Left(d)' = Left(d)
  BY <1>1 DEF IInv, TypeOK, Left, Attempt
<1>3. OnlySent' /\ ServedOnce' /\ AnswersAreTrue'
  BY <1>1, <1>2 DEF IInv, TypeOK, Answer, OnlySent, ServedOnce, AnswersAreTrue, Told, Replayed
<1>4. ASSUME NEW d \in Call PROVE Stage(d)' /\ EndedByAnswer(d)' /\ KeyTruth(d)'
  <2>0. KeyTruth(d)'
    BY <1>1 DEF IInv, KeyTruth, Attempt
  <2>1. Stage(d) /\ EndedByAnswer(d)
    BY DEF IInv
  <2>2. CASE d # a.call
    <3>1. outcome'[d] = outcome[d] /\ phase'[d] = phase[d]
      BY <1>1, <2>2 DEF IInv, TypeOK, Resolve, RejectApi, Settle
    <3>2. Stage(d)'
      BY <1>1, <2>1, <3>1 DEF Stage
    <3>3. EndedByAnswer(d)'
      <4>1. UNCHANGED <<outcome[d], attempt, answers, executed, key>>
        BY <1>1, <3>1
      <4>2. QED
        BY <2>1, <4>1 DEF EndedByAnswer, Replayed
    <3>4. QED
      BY <2>0, <3>2, <3>3
  <2>3. CASE d = a.call
    <3>1. /\ phase'[d] = "settled"
          /\ outcome'[d] = IF a.says = "ok" THEN "data" ELSE "error"
      BY <1>1, <2>3 DEF IInv, TypeOK, Resolve, RejectApi, Settle
    <3>2. Told(a)
      BY DEF IInv, AnswersAreTrue
    <3>3. Stage(d)'
      BY <1>1, <2>1, <2>3, <3>1 DEF Stage, Contract!Ending
    <3>4. EndedByAnswer(d)'
      <4>1. outcome'[d] = "data" => executed'[d] # {} /\ (d \in Separate => Replayed(d)')
        BY <1>1, <2>3, <3>1, <3>2 DEF Told, Replayed
      <4>2. outcome'[d] = "error" =>
               \E b \in answers' : b.call = d /\ b.attempt = attempt'[d] /\ b.says # "ok"
        BY <1>1, <2>3, <3>1
      <4>3. QED
        BY <4>1, <4>2 DEF EndedByAnswer
    <3>5. QED
      BY <2>0, <3>3, <3>4
  <2>4. QED
    BY <2>2, <2>3
<1>5. QED
  BY <1>3, <1>4 DEF IInv

(* The first answer to a request is kept; another one is added by Reply.   *)
LEMMA ReplyKeeps ==
    ASSUME NEW c \in Call, NEW k \in Attempt, NEW says \in Says, Reply(c, k, says)
    PROVE  /\ answers \subseteq answers'
           /\ \A a \in answers' : \/ a \in answers
                                  \/ a.call = c /\ a.attempt = k /\ a.says = says
  BY DEF Reply

(* What the backend does to the effects and the key of one call: nothing,  *)
(* an effect, or the completion of the key.                                *)
LEMMA ServerKeeps ==
    ASSUME IInv, NEW c \in Call, NEW k \in Attempt, Server(c, k)
    PROVE  /\ \A d \in Call : d # c => executed'[d] = executed[d] /\ key'[d] = key[d]
           /\ executed[c] \subseteq executed'[c]
           /\ Replayed(c) => Replayed(c)' /\ executed'[c] = executed[c]
           /\ executed'[c] = executed[c] \/ (executed'[c] = executed[c] \cup {k} /\ Execute(c, k))
<1>1. CASE Execute(c, k)
  BY <1>1 DEF IInv, TypeOK, Execute, Replayed
<1>2. CASE Finish(c, k)
  BY <1>2 DEF IInv, TypeOK, Finish, Replayed
<1>3. CASE executed' = executed /\ key' = key
  BY <1>3 DEF Replayed
<1>4. QED
  BY <1>1, <1>2, <1>3 DEF Server, LoseRequest, Replay, FailLate, Refuse, ProxyTimeout

(* The key keeps count of the effects.                                     *)
LEMMA ServerKey ==
    ASSUME IInv, NEW c \in Call, NEW k \in Attempt, Server(c, k)
    PROVE  \A d \in Call : KeyTruth(d)'
<1>1. \A d \in Call : KeyTruth(d)
  BY DEF IInv
<1>2. ASSUME NEW d \in Call, executed'[d] = executed[d], key'[d] = key[d] PROVE KeyTruth(d)'
  BY <1>1, <1>2 DEF KeyTruth, Attempt
<1>3. CASE Execute(c, k)
  <2>1. /\ executed'[c] = executed[c] \cup {k} /\ key'[c] = KeyAfter(c)
        /\ key[c] # "completed" /\ key[c] \in {"absent", "pending", "completed"}
    BY <1>3 DEF IInv, TypeOK, Execute, Replayed
  <2>2. c \in Keyed \ Separate => \E i \in Attempt : executed[c] \subseteq {i}
    BY <1>1, <2>1 DEF KeyTruth
  <2>3. KeyTruth(c)'
    <3>1. /\ c \notin Keyed => key'[c] = "absent"
          /\ c \in Keyed => key'[c] # "absent"
          /\ executed'[c] # {}
          /\ c \in Keyed \ Separate /\ key'[c] = "pending" => key[c] = "absent"
      BY <2>1 DEF KeyAfter
    <3>2. c \in Keyed \ Separate /\ key[c] = "absent" => executed'[c] \subseteq {k}
      BY <1>1, <2>1 DEF KeyTruth
    <3>3. c \in Keyed \ Separate => \E i, j \in Attempt : executed'[c] \subseteq {i, j}
      BY <2>1, <2>2
    <3>4. QED
      BY <3>1, <3>2, <3>3 DEF KeyTruth, Attempt
  <2>4. \A d \in Call : d # c => executed'[d] = executed[d] /\ key'[d] = key[d]
    BY <1>3 DEF IInv, TypeOK, Execute
  <2>5. QED
    BY <1>2, <2>3, <2>4
<1>4. CASE Finish(c, k)
  <2>1. executed' = executed /\ \A d \in Call : d # c \/ c \notin Separate => key'[d] = key[d]
    BY <1>4 DEF IInv, TypeOK, Finish
  <2>2. ASSUME c \in Separate PROVE KeyTruth(c)'
    <3>1. key'[c] = "completed"
      BY <1>4, <2>2 DEF IInv, TypeOK, Finish
    <3>2. executed[c] # {}
      BY <1>4 DEF IInv, ServedOnce, Finish
    <3>3. c \in Keyed
      BY <2>2, ApiClientAssumption DEF ApiClientAssumption
    <3>4. QED
      BY <2>1, <2>2, <3>1, <3>2, <3>3 DEF KeyTruth
  <2>3. QED
    BY <1>2, <2>1, <2>2
<1>5. CASE executed' = executed /\ key' = key
  BY <1>2, <1>5
<1>6. QED
  BY <1>3, <1>4, <1>5 DEF Server, LoseRequest, Replay, FailLate, Refuse, ProxyTimeout

(* A new answer tells the truth.                                           *)
LEMMA ServerAnswer ==
    ASSUME IInv, NEW c \in Call, NEW k \in Attempt, Server(c, k)
    PROVE  /\ answers \subseteq answers'
           /\ \A a \in answers' :
                 \/ a \in answers
                 \/ /\ a.call = c /\ a.attempt = k /\ k \in Left(c)
                    /\ a.says # "failed" => <<c, k>> \notin delivered'
                    /\ a.says = "ok" => /\ executed'[c] # {}
                                        /\ c \in Separate => Replayed(c)'
                    /\ a.says \in {"refused", "unauthorized"} => k \notin executed'[c]
<1>0. \A d \in Call : KeyTruth(d)
  BY DEF IInv
<1>1. <<c, k>> \in delivered \cup committed => k \in Left(c)
  BY DEF IInv, OnlySent, ServedOnce
<1>2. CASE Replay(c, k)
  <2>1. Reply(c, k, "ok") /\ key' = key /\ executed' = executed /\ <<c, k>> \in delivered
        /\ key[c] = "completed" /\ <<c, k>> \notin delivered'
    BY <1>2 DEF Replay, Replayed
  <2>2. executed[c] # {}
    BY <1>0, <2>1 DEF KeyTruth
  <2>3. QED
    BY <1>1, <2>1, <2>2, ReplyKeeps DEF Says, Replayed
<1>3. CASE Finish(c, k)
  <2>1. Reply(c, k, "ok") /\ executed' = executed /\ delivered' = delivered
        /\ <<c, k>> \in committed
    BY <1>3 DEF Finish
  <2>2. k \in executed[c] /\ <<c, k>> \notin delivered
    BY <2>1 DEF IInv, ServedOnce
  <2>3. c \in Separate => Replayed(c)'
    BY <1>3 DEF IInv, TypeOK, Finish, Replayed
  <2>4. QED
    BY <1>1, <2>1, <2>2, <2>3, ReplyKeeps DEF Says
<1>4. CASE FailLate(c, k) \/ ProxyTimeout(c, k)
  <2>1. <<c, k>> \in delivered \cup committed /\ (Reply(c, k, "failed") \/ answers' = answers)
    BY <1>4 DEF FailLate, ProxyTimeout
  <2>2. QED
    BY <1>1, <2>1, ReplyKeeps DEF Says
<1>5. ASSUME NEW says \in Says, Refuse(c, k, says) PROVE
         /\ answers \subseteq answers'
         /\ \A a \in answers' :
               \/ a \in answers
               \/ /\ a.call = c /\ a.attempt = k /\ k \in Left(c)
                  /\ <<c, k>> \notin delivered' /\ a.says # "ok" /\ k \notin executed'[c]
  <2>1. /\ Reply(c, k, says) /\ executed' = executed /\ says # "ok"
        /\ <<c, k>> \in delivered /\ <<c, k>> \notin delivered'
    BY <1>5 DEF Refuse
  <2>2. k \notin executed[c]
    BY <2>1 DEF IInv, ServedOnce
  <2>3. QED
    BY <1>1, <2>1, <2>2, ReplyKeeps
<1>6. CASE LoseRequest(c, k) \/ Execute(c, k)
  BY <1>6 DEF LoseRequest, Execute
<1>7. QED
  BY <1>2, <1>3, <1>4, <1>5, <1>6 DEF Server

(* What the network and the backend do to a request keeps the invariant.   *)
LEMMA ServerStep ==
    ASSUME IInv, TypeOK', NEW c \in Call, NEW k \in Attempt, Server(c, k)
    PROVE  IInv'
<1>1. /\ UNCHANGED <<phase, attempt, outcome>>
      /\ delivered' \subseteq delivered
      /\ \A r \in committed' : r \in committed \/ (r = <<c, k>> /\ Execute(c, k))
      /\ Execute(c, k) => <<c, k>> \in delivered /\ <<c, k>> \notin delivered'
  BY DEF Server, LoseRequest, Replay, Execute, Finish, FailLate, Refuse, ProxyTimeout, client
<1>2. \A d \in Call : Left(d)' = Left(d)
  BY <1>1 DEF Left, Attempt
<1>3. /\ \A d \in Call : d # c => executed'[d] = executed[d] /\ key'[d] = key[d]
      /\ executed[c] \subseteq executed'[c]
      /\ Replayed(c) => Replayed(c)' /\ executed'[c] = executed[c]
      /\ executed'[c] = executed[c] \/ (executed'[c] = executed[c] \cup {k} /\ Execute(c, k))
  BY ServerKeeps
<1>4. /\ \A d \in Call : executed[d] \subseteq executed'[d]
      /\ \A d \in Call : Replayed(d) => Replayed(d)'
  BY <1>3 DEF Replayed
<1>5. /\ answers \subseteq answers'
      /\ \A a \in answers' :
            \/ a \in answers
            \/ /\ a.call = c /\ a.attempt = k /\ k \in Left(c)
               /\ a.says # "failed" => <<c, k>> \notin delivered'
               /\ a.says = "ok" => executed'[c] # {} /\ (c \in Separate => Replayed(c)')
               /\ a.says \in {"refused", "unauthorized"} => k \notin executed'[c]
  BY ServerAnswer
<1>6. \A a \in answers : a.call \in Call /\ a.attempt \in Attempt
  BY DEF IInv, TypeOK, Answer
<1>7. OnlySent'
  <2>1. Execute(c, k) => k \in Left(c)
    BY <1>1 DEF IInv, OnlySent
  <2>2. \A d \in Call, i \in Attempt : <<d, i>> \in delivered' => i \in Left(d)'
    BY <1>1, <1>2 DEF IInv, OnlySent
  <2>3. \A a \in answers' : a.attempt \in Left(a.call)'
    BY <1>2, <1>5, <1>6 DEF IInv, OnlySent
  <2>4. \A d \in Call : executed'[d] \subseteq Left(d)'
    BY <1>2, <1>3, <2>1 DEF IInv, OnlySent
  <2>5. QED
    BY <2>2, <2>3, <2>4 DEF OnlySent, Attempt
<1>8. ServedOnce'
  <2>1. \A d \in Call : \A i \in executed'[d] : <<d, i>> \notin delivered'
    BY <1>1, <1>3 DEF IInv, ServedOnce
  <2>2. \A d \in Call, i \in Attempt : <<d, i>> \in committed' => i \in executed'[d]
    <3>1. Execute(c, k) => k \in executed'[c]
      BY DEF IInv, TypeOK, Execute
    <3>2. QED
      BY <1>1, <1>4, <3>1 DEF IInv, ServedOnce
  <2>3. \A a \in answers' : a.says # "failed" => <<a.call, a.attempt>> \notin delivered'
    BY <1>1, <1>5 DEF IInv, ServedOnce
  <2>4. QED
    BY <2>1, <2>2, <2>3 DEF ServedOnce, Attempt
<1>9. AnswersAreTrue'
  <2>1. ASSUME NEW a \in answers PROVE Told(a)'
    <3>1. Told(a) /\ (a.says # "failed" => <<a.call, a.attempt>> \notin delivered)
      BY DEF IInv, AnswersAreTrue, ServedOnce
    <3>2. a.says = "ok" => executed'[a.call] # {} /\ (a.call \in Separate => Replayed(a.call)')
      BY <1>4, <1>6, <3>1 DEF Told
    <3>3. a.says \in {"refused", "unauthorized"} => a.attempt \notin executed'[a.call]
      BY <1>1, <1>3, <1>6, <3>1 DEF Told
    <3>4. QED
      BY <3>2, <3>3 DEF Told
  <2>2. QED
    BY <1>5, <2>1 DEF AnswersAreTrue, Told
<1>10. ASSUME NEW d \in Call PROVE Stage(d)' /\ EndedByAnswer(d)'
  <2>1. Stage(d) /\ EndedByAnswer(d)
    BY DEF IInv
  <2>2. Stage(d)'
    BY <1>1, <2>1 DEF Stage
  <2>3. EndedByAnswer(d)'
    BY <1>1, <1>4, <1>5, <2>1 DEF EndedByAnswer
  <2>4. QED
    BY <2>2, <2>3
<1>11. QED
  BY <1>7, <1>8, <1>9, <1>10, ServerKey DEF IInv

(* It holds at first ...                                                   *)
LEMMA InitInv == Init => IInv
<1>1. ASSUME Init PROVE OnlySent /\ ServedOnce /\ AnswersAreTrue
  BY <1>1 DEF Init, OnlySent, ServedOnce, AnswersAreTrue
<1>2. ASSUME Init, NEW c \in Call PROVE Stage(c) /\ EndedByAnswer(c) /\ KeyTruth(c)
  BY <1>2, AttemptIsNat DEF Init, Stage, EndedByAnswer, KeyTruth, Contract!Ending
<1>3. QED
  BY <1>1, <1>2, InitType DEF IInv

(* ... and every step keeps it.                                            *)
LEMMA NextInv == IInv /\ [Next]_vars => IInv'
<1> SUFFICES ASSUME IInv, [Next]_vars PROVE IInv'
  OBVIOUS
<1>0. TypeOK
  BY DEF IInv
<1>1. ASSUME NEW c \in Call, Client(c) PROVE IInv'
  BY <1>0, <1>1, ClientType, ClientStep
<1>2. ASSUME NEW a \in answers, Resolve(a) \/ RejectApi(a) PROVE IInv'
  BY <1>0, <1>2, AnswerType, AnswerStep
<1>3. ASSUME NEW c \in Call, NEW k \in Attempt, Server(c, k) PROVE IInv'
  BY <1>0, <1>3, ServerType, ServerStep
<1>4. CASE UNCHANGED vars
  BY <1>4
  DEF vars, IInv, TypeOK, OnlySent, ServedOnce, AnswersAreTrue, Stage, EndedByAnswer,
      KeyTruth, Told, Replayed, Left, Attempt, client, network
<1>5. QED
  BY <1>1, <1>2, <1>3, <1>4 DEF Next

-----------------------------------------------------------------------------
(* The theorems.                                                           *)

(* What the theorems below rest on holds in every reachable state.         *)
LEMMA Invariant == Spec => []IInv
  BY InitInv, NextInv, PTL DEF Spec

(* request() never counts past MAX_RETRIES, and what is under way belongs  *)
(* to an attempt it made, whatever the network does.                       *)
THEOREM TypeCorrect == Spec => []TypeOK
<1>1. IInv => TypeOK
  BY DEF IInv
<1>2. QED
  BY <1>1, Invariant, PTL

(* At most MAX_RETRIES + 1 numbers are attempts.                           *)
LEMMA AttemptsFinite ==
    /\ IsFiniteSet(Attempt)
    /\ Cardinality(Attempt) = MAX_RETRIES + 1
  BY FS_Interval, ApiClientAssumption DEF ApiClientAssumption, Attempt

(* A set of attempts is finite and no larger than the number of attempts;  *)
(* smaller when an attempt is missing.                                     *)
LEMMA SomeAttempts ==
    ASSUME NEW S \in SUBSET Attempt
    PROVE  /\ IsFiniteSet(S)
           /\ Cardinality(S) \in 0..(MAX_RETRIES + 1)
           /\ S # {} => Cardinality(S) # 0
           /\ S # Attempt => Cardinality(S) \in 0..MAX_RETRIES
<1>1. IsFiniteSet(S) /\ Cardinality(S) <= MAX_RETRIES + 1
      /\ (S # Attempt => Cardinality(S) # MAX_RETRIES + 1)
  BY AttemptsFinite, FS_Subset
<1>2. Cardinality(S) \in Nat
  BY <1>1, FS_CardinalityType
<1>3. S # {} => Cardinality(S) # 0
  BY <1>1, FS_EmptySet
<1>4. QED
  BY <1>1, <1>2, <1>3, ApiClientAssumption DEF ApiClientAssumption

(* A set covered by one member has at most one, a set covered by two two.  *)
LEMMA CoveredBy ==
    ASSUME NEW S, NEW i, NEW j, S \subseteq {i, j}
    PROVE  Cardinality(S) <= 2 /\ (i = j => Cardinality(S) <= 1)
<1>1. IsFiniteSet({}) /\ Cardinality({}) = 0
  BY FS_EmptySet
<1>2. Cardinality({i}) = 1 /\ Cardinality({j}) = 1 /\ IsFiniteSet({i}) /\ IsFiniteSet({j})
  BY FS_Singleton
<1>3. i # j => Cardinality({i, j}) = 2
  <2>1. ASSUME i # j PROVE Cardinality({i} \cup {j}) = Cardinality({i}) + 1
    BY <1>2, <2>1, FS_AddElement
  <2>2. {i} \cup {j} = {i, j}
    OBVIOUS
  <2>3. QED
    BY <1>2, <2>1, <2>2
<1>4. S = {} \/ S = {i} \/ S = {j} \/ (S = {i, j} /\ i # j)
  OBVIOUS
<1>5. QED
  BY <1>1, <1>2, <1>3, <1>4

(* What the row of the key says bounds the effects.                        *)
LEMMA KeyBounds ==
    ASSUME NEW c \in Keyed \ Separate, KeyTruth(c), key[c] \in {"absent", "pending", "completed"}
    PROVE  /\ Cardinality(executed[c]) <= 2
           /\ ~Replayed(c) => Cardinality(executed[c]) <= 1
<1>1. PICK i, j \in Attempt : executed[c] \subseteq {i, j}
  BY DEF KeyTruth
<1>2. ASSUME ~Replayed(c) PROVE Cardinality(executed[c]) <= 1
  <2>1. CASE key[c] = "absent"
    BY <2>1, FS_EmptySet DEF KeyTruth
  <2>2. CASE key[c] = "pending"
    <3>1. PICK l \in Attempt : executed[c] \subseteq {l}
      BY <2>2 DEF KeyTruth
    <3>2. executed[c] \subseteq {l, l}
      BY <3>1
    <3>3. QED
      BY <3>2, CoveredBy
  <2>3. QED
    BY <1>2, <2>1, <2>2 DEF Replayed
<1>3. QED
  BY <1>1, <1>2, CoveredBy

(* A keyed call that takes effect in one commit does so twice at most,     *)
(* however many of its requests are lost, delayed or answered too late:    *)
(* the first success leaves the key pending, the second one completes it.  *)
THEOREM KeyedCallsTwice == Spec => []KeyedTwice
<1>1. IInv => KeyedTwice
  BY KeyBounds, ApiClientAssumption DEF IInv, TypeOK, KeyedTwice, ApiClientAssumption
<1>2. QED
  BY <1>1, Invariant, PTL

(* The invariant gives the promise.                                        *)
LEMMA EndingPromise == IInv => EndsAsPromised
<1> SUFFICES ASSUME IInv, NEW c \in Call
             PROVE  /\ outcome[c] \in Contract!Ending =>
                          Cardinality(executed[c]) \in Contract!Effects(outcome[c])
                    /\ outcome[c] = "data" /\ c \in Separate => Replayed(c)
                    /\ outcome[c] = "error" /\ attempt[c] = 0 =>
                          \/ executed[c] = {}
                          \/ \E a \in answers :
                                a.call = c /\ a.attempt = 0 /\ a.says = "failed"
  BY DEF EndsAsPromised
<1>1. executed[c] \in SUBSET Attempt /\ attempt[c] \in Attempt
  BY DEF IInv, TypeOK
<1>2. EndedByAnswer(c)
  BY DEF IInv
<1>3. ASSUME outcome[c] \in Contract!Ending
      PROVE  Cardinality(executed[c]) \in Contract!Effects(outcome[c])
  <2>1. /\ Cardinality(executed[c]) \in 0..(MAX_RETRIES + 1)
        /\ executed[c] # {} => Cardinality(executed[c]) # 0
    BY <1>1, SomeAttempts
  <2>2. CASE outcome[c] = "data"
    BY <1>2, <2>1, <2>2, ApiClientAssumption
    DEF EndedByAnswer, Contract!Effects, ApiClientAssumption
  <2>3. CASE outcome[c] # "data"
    BY <2>1, <2>3 DEF Contract!Effects
  <2>4. QED
    BY <2>2, <2>3
<1>4. ASSUME outcome[c] = "error", attempt[c] = 0
      PROVE  \/ executed[c] = {}
             \/ \E a \in answers : a.call = c /\ a.attempt = 0 /\ a.says = "failed"
  <2>1. PICK a \in answers : a.call = c /\ a.attempt = 0 /\ a.says # "ok"
    BY <1>2, <1>4 DEF EndedByAnswer
  <2>2. CASE a.says = "failed"
    BY <2>1, <2>2
  <2>3. CASE a.says # "failed"
    <3>1. a.says \in {"refused", "unauthorized"}
      BY <2>1, <2>3 DEF IInv, TypeOK, Answer, Says
    <3>2. 0 \notin executed[c]
      BY <2>1, <3>1 DEF IInv, AnswersAreTrue, Told
    <3>3. executed[c] \subseteq Left(c)
      BY DEF IInv, OnlySent
    <3>4. ASSUME NEW i \in Left(c) PROVE i = 0
      <4>1. i \in Nat
        BY AttemptIsNat DEF Left
      <4>2. QED
        BY <1>4, <4>1 DEF Left
    <3>5. QED
      BY <3>2, <3>3, <3>4
  <2>4. QED
    BY <2>2, <2>3
<1>5. QED
  BY <1>2, <1>3, <1>4 DEF EndedByAnswer

(* However many retries and whatever is lost: a call that resolved took    *)
(* effect; a resolved internal transfer has completed its key; and a 4xx   *)
(* of the first attempt means that nothing happened.                       *)
THEOREM EndingsKept == Spec => []EndsAsPromised
  BY EndingPromise, Invariant, PTL

-----------------------------------------------------------------------------
(* The refinement.                                                         *)

(* Every step of the retry loop and of the network is a step of the        *)
(* contract, or changes nothing the contract speaks of.                    *)
LEMMA StepImplements ==
    IInv /\ [Next]_vars => [Contract!ContractNext]_(Contract!contractVars)
<1> SUFFICES ASSUME IInv, [Next]_vars
             PROVE  Contract!ContractNext \/ UNCHANGED Contract!contractVars
  OBVIOUS
<1>1. ASSUME NEW c \in Call, Client(c)
      PROVE  Contract!ContractNext \/ UNCHANGED Contract!contractVars
  <2>1. CASE Begin(c)
    <3>1. outcome[c] = "none"
      BY <2>1 DEF IInv, Stage, Begin
    <3>2. Contract!Start(c)
      BY <2>1, <3>1 DEF Begin, network, Contract!Start
    <3>3. QED
      BY <3>2 DEF Contract!ContractNext
  <2>2. CASE Fetch(c) \/ FailAttempt(c) \/ Wake(c)
    BY <2>2 DEF Fetch, FailAttempt, Wake, network, Contract!contractVars
  <2>3. CASE GiveUp(c)
    <3>1. outcome[c] = "pending"
      BY <2>3 DEF IInv, TypeOK, Stage, GiveUp, Contract!Ending
    <3>2. Contract!End(c, "network")
      BY <2>3, <3>1 DEF GiveUp, Settle, network, Contract!End
    <3>3. QED
      BY <3>2 DEF Contract!ContractNext, Contract!Ending
  <2>4. QED
    BY <1>1, <2>1, <2>2, <2>3 DEF Client
<1>2. ASSUME NEW a \in answers, Resolve(a) \/ RejectApi(a)
      PROVE  Contract!ContractNext
  <2>1. a.call \in Call /\ phase[a.call] = "waiting"
    BY <1>2 DEF IInv, TypeOK, Answer, Resolve, RejectApi, Awaited
  <2>2. outcome[a.call] = "pending"
    BY <2>1 DEF IInv, TypeOK, Stage, Contract!Ending
  <2>3. CASE Resolve(a)
    <3>1. executed[a.call] # {}
      BY <2>3 DEF IInv, AnswersAreTrue, Told, Resolve
    <3>2. Contract!End(a.call, "data")
      BY <2>2, <2>3, <3>1 DEF Resolve, Settle, network, Contract!End
    <3>3. QED
      BY <2>1, <3>2 DEF Contract!ContractNext, Contract!Ending
  <2>4. CASE RejectApi(a)
    <3>1. Contract!End(a.call, "error")
      BY <2>2, <2>4 DEF RejectApi, Settle, network, Contract!End
    <3>2. QED
      BY <2>1, <3>1 DEF Contract!ContractNext, Contract!Ending
  <2>5. QED
    BY <1>2, <2>3, <2>4
<1>3. ASSUME NEW c \in Call, NEW k \in Attempt, Server(c, k)
      PROVE  Contract!ContractNext \/ UNCHANGED Contract!contractVars
  <2>1. CASE Execute(c, k)
    <3>1. k \in Left(c) /\ k \notin executed[c] /\ ~Replayed(c)
      BY <2>1 DEF IInv, OnlySent, ServedOnce, Execute
    <3>2. outcome[c] # "none"
      <4>1. phase[c] = "idle" => attempt[c] = 0
        BY DEF IInv, Stage
      <4>2. phase[c] # "idle"
        BY <3>1, <4>1, ApiClientAssumption DEF Left, Attempt, ApiClientAssumption
      <4>3. QED
        BY <4>2 DEF IInv, Stage
    <3>3. c \in Keyed \ Separate => Cardinality(executed[c]) < 2
      <4>1. ASSUME c \in Keyed \ Separate PROVE Cardinality(executed[c]) <= 1
        BY <3>1, <4>1, KeyBounds DEF IInv, TypeOK
      <4>2. Cardinality(executed[c]) \in Nat
        BY SomeAttempts DEF IInv, TypeOK
      <4>3. QED
        BY <4>1, <4>2
    <3>4. c \in Separate => outcome[c] # "data"
      BY <3>1 DEF IInv, EndedByAnswer
    <3>5. executed' = [executed EXCEPT ![c] = @ \cup {k}] /\ outcome' = outcome
      BY <2>1 DEF Execute, client
    <3>6. Contract!Execute(c, k)
      BY <3>1, <3>2, <3>3, <3>4, <3>5 DEF Contract!Execute, Contract!Cardinality, Cardinality
    <3>7. QED
      BY <3>6 DEF Contract!ContractNext, Contract!Attempt, Attempt
  <2>2. CASE ~Execute(c, k)
    <3>1. executed' = executed
      BY <1>3, <2>2 DEF Server, LoseRequest, Replay, Finish, FailLate, Refuse, ProxyTimeout
    <3>2. outcome' = outcome
      BY <1>3, <2>2
      DEF Server, LoseRequest, Replay, Finish, FailLate, Refuse, ProxyTimeout, client
    <3>3. QED
      BY <3>1, <3>2 DEF Contract!contractVars
  <2>3. QED
    BY <2>1, <2>2
<1>4. CASE UNCHANGED vars
  BY <1>4 DEF vars, client, network, Contract!contractVars
<1>5. QED
  BY <1>1, <1>2, <1>3, <1>4 DEF Next

(* request() over a network that loses, delays and reorders implements the *)
(* contract by which the pages reason about a call.                        *)
THEOREM ImplementsTheContract == Spec => ImplementsContract
<1>1. Init => Contract!ContractInit
  BY DEF Init, Contract!ContractInit
<1>2. QED
  BY <1>1, StepImplements, Invariant, PTL
  DEF Spec, ImplementsContract, Contract!ContractSpec

-----------------------------------------------------------------------------
(* Over the Federal Reserve.                                               *)

Submitted == FedRouting \cup {Fed!Wrong, Fed!None}

Received == [n : Nat, rail : Fed!Rail, routing : Submitted,
             bank : {"received", "calling", "settled", "booked", "refused", "crashed"},
             fed : {"none", "asked", "read", "settled", "rejected"}, seen : Int]

(* The part of the types that the theorems need.                           *)
FedTypes ==
    /\ requests \in Seq(Received)
    /\ master \in Int
    /\ rail \in UsedRails
    /\ submissions \in Nat
    /\ call \in [n : Nat, rail : Fed!Rail, routing : Submitted, attempt : Int]

(* The gateway has settled what the bank believes settled, and has not     *)
(* seen what the bank has not sent.                                        *)
BankKnows == \A i \in DOMAIN requests :
    /\ requests[i].bank = "received" => requests[i].fed = "none"
    /\ requests[i].bank \in {"settled", "booked"} => requests[i].fed = "settled"

(* The call of the form is the latest request the bank has received.       *)
CallIsLatest == call # Fed!NoCall =>
    /\ requests # <<>>
    /\ Fed!Latest.n = call.n /\ Fed!Latest.rail = call.rail

FedInv == FedTypes /\ BankKnows /\ CallIsLatest /\ Fed!AnnouncedIsSettled

-----------------------------------------------------------------------------
(* Before the first submission the accounts and the bank agree.            *)
LEMMA FedInit == Fed!Init => FedInv
<1> SUFFICES ASSUME Fed!Init PROVE FedInv
  OBVIOUS
<1>1. FedTypes
  BY FedConstants DEF FedConstants, Fed!Init, FedTypes, Fed!NoCall, Submitted, Fed!Rail
<1>2. BankKnows /\ CallIsLatest /\ Fed!AnnouncedIsSettled
  BY DEF Fed!Init, BankKnows, CallIsLatest, Fed!AnnouncedIsSettled
<1>3. QED
  BY <1>1, <1>2 DEF FedInv

(* One more attempt: the earlier requests are as they were.                *)
LEMMA FedPosted ==
    ASSUME FedInv, Fed!Post(call'),
           call' \in [n : Nat, rail : Fed!Rail, routing : Submitted, attempt : Int],
           UNCHANGED <<master, announced>>, rail' \in UsedRails, submissions' \in Nat
    PROVE  FedInv'
<1> DEFINE new == [n |-> call'.n, rail |-> call'.rail, routing |-> call'.routing,
                   bank |-> "received", fed |-> "none", seen |-> 0]
<1>1. requests' = Append(requests, new) /\ requests \in Seq(Received)
  BY DEF Fed!Post, FedInv, FedTypes
<1>2. new \in Received
  BY DEF Received
<1>3. /\ requests' \in Seq(Received)
      /\ Len(requests') = Len(requests) + 1 /\ Len(requests) \in Nat
      /\ requests'[Len(requests')] = new
      /\ \A i \in DOMAIN requests : i \in DOMAIN requests' /\ requests'[i] = requests[i]
      /\ \A i \in DOMAIN requests' : i \in DOMAIN requests \/ requests'[i] = new
  BY <1>1, <1>2
<1>4. FedTypes'
  BY <1>3 DEF FedInv, FedTypes
<1>5. BankKnows'
  BY <1>3 DEF FedInv, BankKnows
<1>6. CallIsLatest'
  <2>1. requests' # <<>>
    BY <1>3
  <2>2. Fed!Latest' = new
    BY <1>3 DEF Fed!Latest
  <2>3. QED
    BY <2>1, <2>2 DEF CallIsLatest
<1>7. Fed!AnnouncedIsSettled'
  BY <1>3 DEF FedInv, Fed!AnnouncedIsSettled, Fed!Settled
<1>8. QED
  BY <1>4, <1>5, <1>6, <1>7 DEF FedInv

(* A request that goes on: what was settled stays settled.                 *)
LEMMA FedAdvanced ==
    ASSUME FedInv, NEW i \in DOMAIN requests,
           NEW new \in Received, requests' = [requests EXCEPT ![i] = new],
           new.n = requests[i].n, new.rail = requests[i].rail,
           requests[i].fed = "settled" => new.fed = "settled",
           new.bank = "received" => new.fed = "none",
           new.bank \in {"settled", "booked"} => new.fed = "settled",
           UNCHANGED <<call, announced, rail, submissions>>, master' \in Int
    PROVE  FedInv'
<1>1. requests \in Seq(Received)
  BY DEF FedInv, FedTypes
<1>2. /\ requests' \in Seq(Received)
      /\ DOMAIN requests' = DOMAIN requests /\ Len(requests') = Len(requests)
      /\ requests'[i] = new
      /\ \A j \in DOMAIN requests : j # i => requests'[j] = requests[j]
  BY <1>1
<1>3. \A j \in DOMAIN requests :
          /\ requests'[j].n = requests[j].n /\ requests'[j].rail = requests[j].rail
          /\ requests[j].fed = "settled" => requests'[j].fed = "settled"
  BY <1>2
<1>4. FedTypes'
  BY <1>2 DEF FedInv, FedTypes
<1>5. BankKnows'
  BY <1>2 DEF FedInv, BankKnows
<1>6. CallIsLatest'
  <2>1. requests # <<>> => Len(requests) \in DOMAIN requests
    BY <1>1
  <2>2. requests # <<>> <=> requests' # <<>>
    BY <1>1, <1>2
  <2>3. QED
    BY <1>2, <1>3, <2>1, <2>2 DEF FedInv, CallIsLatest, Fed!Latest
<1>7. Fed!AnnouncedIsSettled'
  BY <1>2, <1>3 DEF FedInv, Fed!AnnouncedIsSettled, Fed!Settled
<1>8. QED
  BY <1>4, <1>5, <1>6, <1>7 DEF FedInv

(* Every step of the transfers keeps what is known of the calls and the    *)
(* accounts.                                                               *)
LEMMA FedStep == FedInv /\ (Fed!Next \/ UNCHANGED fedVars) => FedInv'
<1> SUFFICES ASSUME FedInv, (Fed!Next \/ UNCHANGED fedVars) PROVE FedInv'
  OBVIOUS
<1>0. FedTypes /\ BankKnows /\ CallIsLatest /\ Fed!AnnouncedIsSettled
  BY DEF FedInv
<1>1. ASSUME UNCHANGED <<requests, master, submissions, call, announced>>, rail' \in UsedRails
      PROVE  FedInv'
  BY <1>0, <1>1
  DEF FedInv, FedTypes, BankKnows, CallIsLatest, Fed!AnnouncedIsSettled, Fed!Settled, Fed!Latest
<1>2. CASE Fed!SelectRail
  BY <1>1, <1>2 DEF Fed!SelectRail, Fed!submit, Fed!gateway
<1>3. CASE Fed!EnterRouting
  BY <1>0, <1>1, <1>3 DEF Fed!EnterRouting, Fed!submit, Fed!gateway, FedTypes
<1>4. CASE Fed!LookupEnds
  BY <1>0, <1>1, <1>4 DEF Fed!LookupEnds, Fed!submit, Fed!gateway, FedTypes
<1>5. CASE Fed!HandleSubmit
  <2>1. /\ call' = [n |-> submissions + 1, rail |-> rail, routing |-> routingNumber, attempt |-> 0]
        /\ Fed!Post([n |-> submissions + 1, rail |-> rail, routing |-> routingNumber, attempt |-> 0])
        /\ submissions' = submissions + 1 /\ routingNumber \in FedRouting \cup {Fed!Wrong}
        /\ UNCHANGED <<rail, announced, master>>
    BY <1>5 DEF Fed!HandleSubmit, Fed!Post, Fed!form, Fed!gateway
  <2>2. call' \in [n : Nat, rail : Fed!Rail, routing : Submitted, attempt : Int]
    BY <1>0, <2>1, FedConstants DEF FedConstants, FedTypes, Submitted
  <2>3. QED
    BY <1>0, <2>1, <2>2, FedPosted DEF FedTypes
<1>6. ASSUME NEW i \in DOMAIN requests, Fed!CheckFunds(i) PROVE FedInv'
  <2>1. requests[i] \in Received /\ requests[i].bank = "received" /\ requests[i].fed = "none"
    BY <1>0, <1>6 DEF FedTypes, BankKnows, Fed!CheckFunds
  <2>2. PICK new \in {[requests[i] EXCEPT !.bank = "refused", !.fed = "none"],
                      [requests[i] EXCEPT !.bank = "calling", !.fed = "asked"]} :
               requests' = [requests EXCEPT ![i] = new]
    BY <1>6 DEF Fed!CheckFunds, Fed!Set
  <2>3. QED
    BY <1>0, <1>6, <2>1, <2>2, FedAdvanced DEF Fed!CheckFunds, Fed!form, Fed!submit, Fed!gateway, Received, FedTypes
<1>7. ASSUME NEW i \in DOMAIN requests, Fed!FedReads(i) PROVE FedInv'
  <2>1. requests[i] \in Received /\ requests[i].fed = "asked" /\ master \in Int
    BY <1>0, <1>7 DEF FedTypes, Fed!FedReads
  <2>2. requests[i].bank \notin {"received", "settled", "booked"}
    BY <1>0, <2>1 DEF BankKnows
  <2>3. PICK new \in {[requests[i] EXCEPT !.fed = "read", !.seen = master],
                      [requests[i] EXCEPT !.fed = "rejected"]} :
               requests' = [requests EXCEPT ![i] = new]
    BY <1>7 DEF Fed!FedReads
  <2>4. QED
    BY <1>0, <1>7, <2>1, <2>2, <2>3, FedAdvanced DEF Fed!FedReads, Fed!form, Fed!submit, Received, FedTypes
<1>8. ASSUME NEW i \in DOMAIN requests, Fed!FedCommits(i) PROVE FedInv'
  <2> DEFINE new == [requests[i] EXCEPT !.fed = "settled"]
  <2>1. /\ requests[i] \in Received /\ requests[i].fed = "read"
        /\ requests' = [requests EXCEPT ![i] = new] /\ master' = Fed!Written(requests[i])
    BY <1>0, <1>8 DEF FedTypes, Fed!FedCommits
  <2>2. requests[i].bank # "received" /\ master' \in Int
    BY <1>0, <2>1 DEF BankKnows, Fed!Written, Fed!Effect, Received
  <2>3. QED
    BY <1>0, <1>8, <2>1, <2>2, FedAdvanced DEF Fed!FedCommits, Fed!form, Fed!submit, Received, FedTypes
<1>9. ASSUME NEW i \in DOMAIN requests, Fed!GatewayAnswers(i) PROVE FedInv'
  <2> DEFINE new == [requests[i] EXCEPT !.bank = Fed!AfterAnswer(requests[i])]
  <2>1. requests[i] \in Received /\ requests' = [requests EXCEPT ![i] = new]
    BY <1>0, <1>9 DEF FedTypes, Fed!GatewayAnswers
  <2>2. /\ requests[i].bank = "calling"
        /\ UNCHANGED <<call, announced, rail, submissions, master>> /\ master \in Int
    BY <1>0, <1>9 DEF Fed!GatewayAnswers, Fed!form, Fed!submit, Fed!gateway, FedTypes
  <2>3. /\ new \in Received /\ new.n = requests[i].n /\ new.rail = requests[i].rail
        /\ new.fed = requests[i].fed /\ new.bank = Fed!AfterAnswer(requests[i])
    BY <2>1 DEF Received, Fed!AfterAnswer
  <2>4. new.bank # "received" /\ (new.bank \in {"settled", "booked"} => new.fed = "settled")
    BY <2>3 DEF Fed!AfterAnswer
  <2>5. QED
    BY <2>1, <2>2, <2>3, <2>4, FedAdvanced
<1>10. ASSUME NEW i \in DOMAIN requests, NEW there \in {"refused", "booked", "crashed"},
              there = "booked" => requests[i].bank = "settled",
              requests' = [requests EXCEPT ![i].bank = there],
              UNCHANGED <<Fed!form, Fed!submit, master>>
       PROVE  FedInv'
  <2> DEFINE new == [requests[i] EXCEPT !.bank = there]
  <2>1. requests[i] \in Received /\ requests' = [requests EXCEPT ![i] = new]
    BY <1>0, <1>10 DEF FedTypes
  <2>2. there = "booked" => requests[i].fed = "settled"
    BY <1>0, <1>10 DEF BankKnows
  <2>3. /\ new \in Received /\ new.n = requests[i].n /\ new.rail = requests[i].rail
        /\ new.fed = requests[i].fed /\ new.bank = there
    BY <2>1 DEF Received
  <2>4. UNCHANGED <<call, announced, rail, submissions, master>> /\ master \in Int
    BY <1>0, <1>10 DEF Fed!form, Fed!submit, FedTypes
  <2>5. new.bank # "received" /\ (new.bank \in {"settled", "booked"} => new.fed = "settled")
    BY <2>2, <2>3
  <2>6. QED
    BY <2>1, <2>3, <2>4, <2>5, FedAdvanced
<1>11. ASSUME NEW i \in DOMAIN requests, Fed!Bank(i) \/ Fed!Fed(i) PROVE FedInv'
  BY <1>6, <1>7, <1>8, <1>9, <1>10, <1>11
  DEF Fed!Bank, Fed!Fed, Fed!GatewayUnavailable, Fed!BankCommits, Fed!BankCrashes, Fed!gateway
<1>12. ASSUME call' = Fed!NoCall, UNCHANGED <<Fed!form, requests, submissions, master>>,
              \A a \in announced' : a \in announced
                  \/ (a = [n |-> call.n, rail |-> call.rail]
                      /\ call # Fed!NoCall /\ Fed!Latest.bank = "booked")
       PROVE  FedInv'
  <2>1. FedTypes' /\ BankKnows' /\ CallIsLatest'
    BY <1>0, <1>12 DEF Fed!form, FedTypes, BankKnows, CallIsLatest, Fed!NoCall, Submitted, Fed!Rail
  <2>2. ASSUME call # Fed!NoCall, Fed!Latest.bank = "booked"
        PROVE  \E i \in Fed!Settled : requests[i].n = call.n /\ requests[i].rail = call.rail
    <3>1. requests # <<>> /\ requests \in Seq(Received)
      BY <1>0, <2>2 DEF CallIsLatest, FedTypes
    <3>2. Len(requests) \in DOMAIN requests
      BY <3>1
    <3>3. QED
      BY <1>0, <2>2, <3>2 DEF BankKnows, CallIsLatest, Fed!Latest, Fed!Settled
  <2>3. Fed!AnnouncedIsSettled'
    <3>1. Fed!Settled' = Fed!Settled
      BY <1>12 DEF Fed!Settled
    <3>2. QED
      BY <1>0, <1>12, <2>2, <3>1 DEF Fed!AnnouncedIsSettled
  <2>4. QED
    BY <2>1, <2>3 DEF FedInv
<1>13. CASE Fed!Succeeded
  BY <1>12, <1>13 DEF Fed!Succeeded, Fed!Done, Fed!gateway
<1>14. CASE Fed!Failed
  BY <1>12, <1>14 DEF Fed!Failed, Fed!Done, Fed!gateway
<1>15. CASE Fed!NetworkError
  <2>1. CASE call.attempt < FedRetries
    <3>1. /\ call # Fed!NoCall /\ call' = [call EXCEPT !.attempt = @ + 1]
          /\ Fed!Post(call') /\ UNCHANGED <<rail, announced, master, submissions>>
      BY <1>15, <2>1 DEF Fed!NetworkError, Fed!Post, Fed!form, Fed!gateway
    <3>2. QED
      BY <1>0, <3>1, FedPosted DEF FedTypes
  <2>2. CASE ~(call.attempt < FedRetries)
    BY <1>12, <1>15, <2>2 DEF Fed!NetworkError, Fed!Done, Fed!gateway
  <2>3. QED
    BY <2>1, <2>2
<1>16. CASE UNCHANGED fedVars
  BY <1>0, <1>1, <1>16 DEF fedVars, Fed!form, Fed!submit, FedTypes
<1>17. QED
  BY <1>2, <1>3, <1>4, <1>5, <1>11, <1>13, <1>14, <1>15, <1>16 DEF Fed!Next

(* A wire in hand at the gateway was read with headroom for it, and an ACH *)
(* entry can only collect.                                                 *)
Headroom ==
    /\ master >= -Overdraft
    /\ \A i \in DOMAIN requests :
          /\ requests[i].rail \in UsedRails
          /\ requests[i].fed = "read" => Fed!Written(requests[i]) >= -Overdraft

(* With wire and ACH alone, every step keeps the overdraft limit out of    *)
(* reach of the next debit.                                                *)
LEMMA HeadroomStep ==
    ASSUME UsedRails \subseteq {"wire", "ach"}, Overdraft \in Int
    PROVE  FedInv /\ Headroom /\ (Fed!Next \/ UNCHANGED fedVars) => Headroom'
<1> SUFFICES ASSUME FedInv, Headroom, (Fed!Next \/ UNCHANGED fedVars) PROVE Headroom'
  OBVIOUS
<1>0. /\ requests \in Seq(Received) /\ master \in Int /\ rail \in UsedRails
      /\ master >= -Overdraft /\ CallIsLatest
      /\ \A i \in DOMAIN requests :
            /\ requests[i].rail \in UsedRails
            /\ requests[i].fed = "read" => Fed!Written(requests[i]) >= -Overdraft
  BY DEF FedInv, FedTypes, Headroom
<1>1. CASE UNCHANGED <<requests, master>>
  BY <1>0, <1>1 DEF Headroom
<1>2. ASSUME NEW c, c.rail \in UsedRails, Fed!Post(c), UNCHANGED master PROVE Headroom'
  <2> DEFINE new == [n |-> c.n, rail |-> c.rail, routing |-> c.routing,
                     bank |-> "received", fed |-> "none", seen |-> 0]
  <2>1. requests' = Append(requests, new)
    BY <1>2 DEF Fed!Post
  <2>2. \A i \in DOMAIN requests' :
            (i \in DOMAIN requests /\ requests'[i] = requests[i]) \/ requests'[i] = new
    BY <1>0, <2>1
  <2>3. QED
    BY <1>0, <1>2, <2>2 DEF Headroom
<1>3. ASSUME NEW i \in DOMAIN requests, NEW new, requests' = [requests EXCEPT ![i] = new],
             new.rail = requests[i].rail, master' >= -Overdraft,
             new.fed = "read" => Fed!Written(new) >= -Overdraft
      PROVE  Headroom'
  <2>1. /\ DOMAIN requests' = DOMAIN requests /\ requests'[i] = new
        /\ \A j \in DOMAIN requests : j # i => requests'[j] = requests[j]
    BY <1>0, <1>3
  <2>2. QED
    BY <1>0, <1>3, <2>1 DEF Headroom
<1>4. CASE Fed!HandleSubmit
  BY <1>0, <1>2, <1>4 DEF Fed!HandleSubmit, Fed!gateway
<1>5. CASE Fed!NetworkError
  <2>1. CASE call.attempt < FedRetries
    <3>1. call # Fed!NoCall /\ Fed!Post([call EXCEPT !.attempt = @ + 1]) /\ UNCHANGED master
      BY <1>5, <2>1 DEF Fed!NetworkError, Fed!gateway
    <3>2. requests # <<>> /\ Fed!Latest.rail = call.rail
      BY <1>0, <3>1 DEF CallIsLatest
    <3>3. call.rail \in UsedRails
      <4>1. Len(requests) \in DOMAIN requests
        BY <1>0, <3>2
      <4>2. QED
        BY <1>0, <3>2, <4>1 DEF Fed!Latest
    <3>4. [call EXCEPT !.attempt = @ + 1].rail = call.rail
      BY DEF FedInv, FedTypes
    <3>5. QED
      BY <1>2, <3>1, <3>3, <3>4
  <2>2. CASE ~(call.attempt < FedRetries)
    BY <1>1, <1>5, <2>2 DEF Fed!NetworkError, Fed!gateway
  <2>3. QED
    BY <2>1, <2>2
<1>6. ASSUME NEW i \in DOMAIN requests, Fed!FedReads(i) PROVE Headroom'
  <2>1. requests[i] \in Received /\ requests[i].rail \in {"wire", "ach"} /\ UNCHANGED master
    BY <1>0, <1>6 DEF Fed!FedReads
  <2>2. CASE /\ Fed!Acceptable(requests[i])
             /\ requests' = [requests EXCEPT ![i].fed = "read", ![i].seen = master]
    <3> DEFINE new == [requests[i] EXCEPT !.fed = "read", !.seen = master]
    <3>1. requests' = [requests EXCEPT ![i] = new]
      BY <2>2
    <3>2. new.rail = requests[i].rail /\ new.seen = master
      BY <2>1 DEF Received
    <3>3. Fed!Written(new) >= -Overdraft
      <4>1. CASE new.rail = "ach"
        BY <1>0, <3>2, <4>1 DEF Fed!Written, Fed!Effect
      <4>2. CASE new.rail = "wire"
        <5>1. master + Overdraft >= 1
          BY <2>2, <3>2, <4>2 DEF Fed!Acceptable
        <5>2. QED
          BY <1>0, <3>2, <4>2, <5>1 DEF Fed!Written, Fed!Effect
      <4>3. QED
        BY <2>1, <3>2, <4>1, <4>2
    <3>4. QED
      BY <1>0, <1>3, <2>1, <3>1, <3>2, <3>3
  <2>3. CASE requests' = [requests EXCEPT ![i].fed = "rejected"]
    <3> DEFINE new == [requests[i] EXCEPT !.fed = "rejected"]
    <3>1. requests' = [requests EXCEPT ![i] = new] /\ new.rail = requests[i].rail
          /\ new.fed # "read"
      BY <2>1, <2>3 DEF Received
    <3>2. QED
      BY <1>0, <1>3, <2>1, <3>1
  <2>4. QED
    BY <1>6, <2>2, <2>3 DEF Fed!FedReads
<1>7. ASSUME NEW i \in DOMAIN requests, Fed!FedCommits(i) PROVE Headroom'
  <2> DEFINE new == [requests[i] EXCEPT !.fed = "settled"]
  <2>1. /\ requests' = [requests EXCEPT ![i] = new] /\ requests[i].fed = "read"
        /\ master' = Fed!Written(requests[i])
    BY <1>7 DEF Fed!FedCommits
  <2>2. new.rail = requests[i].rail /\ new.fed # "read"
    BY <1>0 DEF Received
  <2>3. QED
    BY <1>0, <1>3, <2>1, <2>2
<1>8. ASSUME NEW i \in DOMAIN requests, NEW there, requests' = [requests EXCEPT ![i].bank = there],
             UNCHANGED master
      PROVE  Headroom'
  <2> DEFINE new == [requests[i] EXCEPT !.bank = there]
  <2>1. requests' = [requests EXCEPT ![i] = new]
    BY <1>8
  <2>2. /\ new.rail = requests[i].rail /\ new.fed = requests[i].fed
        /\ new.seen = requests[i].seen
    BY <1>0 DEF Received
  <2>3. new.fed = "read" => Fed!Written(new) >= -Overdraft
    BY <1>0, <2>2 DEF Fed!Written, Fed!Effect
  <2>4. QED
    BY <1>0, <1>3, <1>8, <2>1, <2>2, <2>3
<1>9. ASSUME NEW i \in DOMAIN requests, Fed!CheckFunds(i) PROVE Headroom'
  <2>1. PICK bank, fed : Fed!Set(i, bank, fed) /\ fed # "read"
    BY <1>9 DEF Fed!CheckFunds, Fed!gateway
  <2> DEFINE new == [requests[i] EXCEPT !.bank = bank, !.fed = fed]
  <2>2. requests' = [requests EXCEPT ![i] = new] /\ UNCHANGED master
    BY <1>9, <2>1 DEF Fed!Set, Fed!CheckFunds, Fed!gateway
  <2>3. new.rail = requests[i].rail /\ new.fed = fed
    BY <1>0 DEF Received
  <2>4. QED
    BY <1>0, <1>3, <2>1, <2>2, <2>3
<1>10. ASSUME NEW i \in DOMAIN requests, Fed!Bank(i) \/ Fed!Fed(i) PROVE Headroom'
  BY <1>6, <1>7, <1>8, <1>9, <1>10
  DEF Fed!Bank, Fed!Fed, Fed!GatewayAnswers, Fed!GatewayUnavailable, Fed!BankCommits, Fed!BankCrashes,
      Fed!gateway
<1>11. CASE Fed!SelectRail \/ Fed!EnterRouting \/ Fed!LookupEnds \/ Fed!Succeeded \/ Fed!Failed
  BY <1>1, <1>11
  DEF Fed!SelectRail, Fed!EnterRouting, Fed!LookupEnds, Fed!Succeeded, Fed!Failed, Fed!gateway
<1>12. CASE UNCHANGED fedVars
  BY <1>1, <1>12 DEF fedVars, Fed!gateway
<1>13. QED
  BY <1>4, <1>5, <1>10, <1>11, <1>12 DEF Fed!Next

(* What the gateway has settled, by what it does to the master account.    *)
Collected == {i \in Fed!Settled : requests[i].rail = "ach"}
PaidOut == {i \in Fed!Settled : requests[i].rail # "ach"}

(* As long as no two transfers have met at the gateway, it has one in hand *)
(* at most, read from the balance that is still there.                     *)
FedBooks ==
    /\ overlapped \in BOOLEAN
    /\ ~overlapped =>
          /\ master = Fed!Position
          /\ \A i \in DOMAIN requests : requests[i].fed = "read" =>
                /\ requests[i].seen = master
                /\ \A j \in DOMAIN requests : requests[j].fed = "read" => j = i

(* The sets that are counted are finite.                                   *)
LEMMA FedCounts ==
    ASSUME FedTypes
    PROVE  /\ IsFiniteSet(Collected) /\ Cardinality(Collected) \in Nat
           /\ IsFiniteSet(PaidOut) /\ Cardinality(PaidOut) \in Nat
           /\ Fed!Position = (Reserve + Cardinality(Collected)) - Cardinality(PaidOut)
<1>1. DOMAIN requests = 1..Len(requests) /\ Len(requests) \in Nat
  BY DEF FedTypes
<1>2. IsFiniteSet(DOMAIN requests)
  BY <1>1, FS_Interval
<1>3. Collected \in SUBSET DOMAIN requests /\ PaidOut \in SUBSET DOMAIN requests
  BY DEF Collected, PaidOut, Fed!Settled
<1>4. IsFiniteSet(Collected) /\ IsFiniteSet(PaidOut)
  BY <1>2, <1>3, FS_Subset
<1>5. Cardinality(Collected) \in Nat /\ Cardinality(PaidOut) \in Nat
  BY <1>4, FS_CardinalityType
<1>6. Fed!Position = Reserve + Cardinality(Collected) - Cardinality(PaidOut)
  BY DEF Fed!Position, Collected, PaidOut, Fed!Cardinality, Cardinality
<1>7. QED
  BY <1>4, <1>5, <1>6, FedConstants DEF FedConstants

(* What settles nothing and takes nothing in hand keeps the books.         *)
LEMMA FedBooksStay ==
    ASSUME FedTypes, FedBooks, UNCHANGED <<master, overlapped>>,
           \A i \in DOMAIN requests :
              /\ i \in DOMAIN requests' /\ requests'[i].rail = requests[i].rail
              /\ requests'[i].seen = requests[i].seen
              /\ \/ requests'[i].fed = requests[i].fed
                 \/ requests[i].fed \in {"none", "asked"} /\ requests'[i].fed \in {"none", "asked", "rejected"},
           \A i \in DOMAIN requests' \ DOMAIN requests : requests'[i].fed = "none"
    PROVE  FedBooks'
<1>1. /\ Fed!Settled' = Fed!Settled
      /\ \A i \in DOMAIN requests' : requests'[i].fed = "read" =>
            i \in DOMAIN requests /\ requests[i].fed = "read" /\ requests'[i].seen = requests[i].seen
  BY DEF Fed!Settled
<1>2. \A i \in Fed!Settled : requests'[i].rail = requests[i].rail
  BY DEF Fed!Settled
<1>3. Collected' = Collected /\ PaidOut' = PaidOut
  BY <1>1, <1>2 DEF Collected, PaidOut
<1>4. Fed!Position' = Fed!Position
  BY <1>3 DEF Fed!Position, Collected, PaidOut
<1>5. QED
  BY <1>1, <1>4 DEF FedBooks

(* A transfer that is settled counts from then on.                         *)
LEMMA FedSettles ==
    ASSUME FedTypes, FedTypes', NEW i \in DOMAIN requests, Fed!FedCommits(i)
    PROVE  Fed!Position' = Fed!Position + Fed!Effect(requests[i])
<1> DEFINE new == [requests[i] EXCEPT !.fed = "settled"]
<1>1. requests[i] \in Received /\ requests[i].fed = "read" /\ requests' = [requests EXCEPT ![i] = new]
  BY DEF FedTypes, Fed!FedCommits
<1>2. /\ DOMAIN requests' = DOMAIN requests /\ requests'[i].fed = "settled"
      /\ requests'[i].rail = requests[i].rail
      /\ \A j \in DOMAIN requests : j # i => requests'[j] = requests[j]
  BY <1>1 DEF FedTypes, Received
<1>3. Fed!Settled' = Fed!Settled \cup {i} /\ i \notin Fed!Settled
  BY <1>1, <1>2 DEF Fed!Settled
<1>4. \A j \in Fed!Settled : requests'[j].rail = requests[j].rail
  BY <1>2, <1>3 DEF Fed!Settled
<1>5. i \notin Collected /\ i \notin PaidOut
  BY <1>3 DEF Collected, PaidOut
<1>6. Fed!Position' = Reserve + Cardinality(Collected') - Cardinality(PaidOut')
  BY DEF Fed!Position, Collected, PaidOut, Fed!Cardinality, Cardinality
<1>7. CASE requests[i].rail = "ach"
  <2>1. Collected' = Collected \cup {i} /\ PaidOut' = PaidOut
    BY <1>2, <1>3, <1>4, <1>7 DEF Collected, PaidOut
  <2>2. Cardinality(Collected') = Cardinality(Collected) + 1
    BY <1>5, <2>1, FedCounts, FS_AddElement
  <2>3. /\ Fed!Position = (Reserve + Cardinality(Collected)) - Cardinality(PaidOut)
        /\ Cardinality(Collected) \in Nat /\ Cardinality(PaidOut) \in Nat
    BY FedCounts
  <2>4. QED
    BY <1>7, <1>6, <2>1, <2>2, <2>3, FedConstants DEF FedConstants, Fed!Effect
<1>8. CASE requests[i].rail # "ach"
  <2>1. Collected' = Collected /\ PaidOut' = PaidOut \cup {i}
    BY <1>2, <1>3, <1>4, <1>8 DEF Collected, PaidOut
  <2>2. Cardinality(PaidOut') = Cardinality(PaidOut) + 1
    BY <1>5, <2>1, FedCounts, FS_AddElement
  <2>3. /\ Fed!Position = (Reserve + Cardinality(Collected)) - Cardinality(PaidOut)
        /\ Cardinality(Collected) \in Nat /\ Cardinality(PaidOut) \in Nat
    BY FedCounts
  <2>4. QED
    BY <1>8, <1>6, <2>1, <2>2, <2>3, FedConstants DEF FedConstants, Fed!Effect
<1>9. QED
  BY <1>7, <1>8

(* At first nothing is settled and the reserve is untouched.               *)
LEMMA FedBooksInit == Fed!Init => FedBooks
<1> SUFFICES ASSUME Fed!Init PROVE FedBooks
  OBVIOUS
<1>1. requests = <<>> /\ master = Reserve /\ overlapped = FALSE
  BY DEF Fed!Init
<1>2. Collected = {} /\ PaidOut = {} /\ Cardinality({}) = 0
  BY <1>1, FS_EmptySet DEF Collected, PaidOut, Fed!Settled
<1>3. Fed!Position = (Reserve + Cardinality(Collected)) - Cardinality(PaidOut)
  BY FedInit, FedCounts DEF FedInv
<1>4. Fed!Position = Reserve
  BY <1>2, <1>3, FedConstants DEF FedConstants
<1>5. DOMAIN requests = {}
  BY <1>1
<1>6. QED
  BY <1>1, <1>4, <1>5, Zenon DEF FedBooks

(* Every step keeps the books until two transfers meet.                    *)
LEMMA FedBooksStep == FedInv /\ FedBooks /\ (Fed!Next \/ UNCHANGED fedVars) => FedBooks'
<1> SUFFICES ASSUME FedInv, FedBooks, (Fed!Next \/ UNCHANGED fedVars) PROVE FedBooks'
  OBVIOUS
<1>0. FedTypes /\ BankKnows /\ requests \in Seq(Received) /\ FedTypes'
  BY FedStep DEF FedInv, FedTypes
<1>1. CASE UNCHANGED <<requests, master, overlapped>>
  BY <1>0, <1>1, FedBooksStay
<1>2. ASSUME NEW c, Fed!Post(c), UNCHANGED <<master, overlapped>> PROVE FedBooks'
  <2> DEFINE new == [n |-> c.n, rail |-> c.rail, routing |-> c.routing,
                     bank |-> "received", fed |-> "none", seen |-> 0]
  <2>1. requests' = Append(requests, new)
    BY <1>2 DEF Fed!Post
  <2>2. /\ \A i \in DOMAIN requests : i \in DOMAIN requests' /\ requests'[i] = requests[i]
        /\ \A i \in DOMAIN requests' \ DOMAIN requests : requests'[i] = new
    BY <1>0, <2>1
  <2>3. QED
    BY <1>0, <1>2, <2>2, FedBooksStay
<1>3. ASSUME NEW i \in DOMAIN requests, NEW new, requests' = [requests EXCEPT ![i] = new],
             new.rail = requests[i].rail, new.seen = requests[i].seen,
             \/ new.fed = requests[i].fed
             \/ requests[i].fed \in {"none", "asked"} /\ new.fed \in {"none", "asked", "rejected"},
             UNCHANGED <<master, overlapped>>
      PROVE  FedBooks'
  <2>1. /\ DOMAIN requests' = DOMAIN requests /\ requests'[i] = new
        /\ \A j \in DOMAIN requests : j # i => requests'[j] = requests[j]
    BY <1>0, <1>3
  <2>2. QED
    BY <1>0, <1>3, <2>1, FedBooksStay
<1>4. CASE Fed!HandleSubmit
  BY <1>2, <1>4 DEF Fed!HandleSubmit, Fed!gateway
<1>5. CASE Fed!NetworkError
  BY <1>1, <1>2, <1>5 DEF Fed!NetworkError, Fed!gateway
<1>6. ASSUME NEW i \in DOMAIN requests, Fed!FedReads(i) PROVE FedBooks'
  <2>1. requests[i] \in Received /\ requests[i].fed = "asked" /\ UNCHANGED master
    BY <1>0, <1>6 DEF Fed!FedReads
  <2>2. CASE /\ requests' = [requests EXCEPT ![i].fed = "read", ![i].seen = master]
             /\ overlapped' = (overlapped \/ \E j \in DOMAIN requests : requests[j].fed = "read")
    <3> DEFINE new == [requests[i] EXCEPT !.fed = "read", !.seen = master]
    <3>1. requests' = [requests EXCEPT ![i] = new] /\ new.fed = "read" /\ new.seen = master
          /\ new.rail = requests[i].rail
      BY <2>1, <2>2 DEF Received
    <3>2. /\ DOMAIN requests' = DOMAIN requests /\ requests'[i] = new
          /\ \A j \in DOMAIN requests : j # i => requests'[j] = requests[j]
      BY <1>0, <3>1
    <3>3. Fed!Settled' = Fed!Settled
      BY <2>1, <3>1, <3>2 DEF Fed!Settled
    <3>4. \A j \in Fed!Settled : requests'[j].rail = requests[j].rail
      BY <3>1, <3>2 DEF Fed!Settled
    <3>5. Collected' = Collected /\ PaidOut' = PaidOut
      BY <3>3, <3>4 DEF Collected, PaidOut
    <3>6. Fed!Position' = Fed!Position
      BY <3>5 DEF Fed!Position, Collected, PaidOut
    <3>7. overlapped' \in BOOLEAN
      BY <2>2, Zenon DEF FedBooks
    <3>8. ~overlapped' => ~overlapped /\ \A j \in DOMAIN requests : requests[j].fed # "read"
      BY <2>2
    <3>9. ~overlapped' =>
             \A j \in DOMAIN requests' : requests'[j].fed = "read" =>
                j = i /\ requests'[j].seen = master'
      BY <2>1, <3>1, <3>2, <3>8
    <3>10. ~overlapped' => master' = Fed!Position'
      BY <2>1, <3>6, <3>8 DEF FedBooks
    <3>11. QED
      BY <3>7, <3>9, <3>10 DEF FedBooks
  <2>3. CASE requests' = [requests EXCEPT ![i].fed = "rejected"] /\ UNCHANGED overlapped
    <3> DEFINE new == [requests[i] EXCEPT !.fed = "rejected"]
    <3>1. requests' = [requests EXCEPT ![i] = new] /\ new.rail = requests[i].rail
          /\ new.fed = "rejected" /\ new.seen = requests[i].seen
      BY <2>1, <2>3 DEF Received
    <3>2. QED
      BY <1>3, <2>1, <2>3, <3>1
  <2>4. QED
    BY <1>6, <2>2, <2>3 DEF Fed!FedReads
<1>7. ASSUME NEW i \in DOMAIN requests, Fed!FedCommits(i) PROVE FedBooks'
  <2>1. /\ requests[i].fed = "read" /\ requests' = [requests EXCEPT ![i].fed = "settled"]
        /\ master' = requests[i].seen + Fed!Effect(requests[i]) /\ UNCHANGED overlapped
    BY <1>7 DEF Fed!FedCommits, Fed!Written
  <2>2. DOMAIN requests' = DOMAIN requests
        /\ \A j \in DOMAIN requests : requests'[j].fed = "read" => requests[j].fed = "read" /\ j # i
    BY <1>0, <2>1 DEF Received
  <2>3. Fed!Position' = Fed!Position + Fed!Effect(requests[i])
    BY <1>0, <1>7, FedSettles
  <2>4. ~overlapped => \A j \in DOMAIN requests : requests'[j].fed # "read"
    BY <2>1, <2>2 DEF FedBooks
  <2>5. ~overlapped => master' = Fed!Position'
    BY <2>1, <2>3 DEF FedBooks
  <2>6. QED
    BY <2>1, <2>2, <2>4, <2>5 DEF FedBooks
<1>8. ASSUME NEW i \in DOMAIN requests, NEW there, requests' = [requests EXCEPT ![i].bank = there],
             UNCHANGED Fed!gateway
      PROVE  FedBooks'
  <2> DEFINE new == [requests[i] EXCEPT !.bank = there]
  <2>1. requests' = [requests EXCEPT ![i] = new]
    BY <1>8
  <2>2. /\ new.rail = requests[i].rail /\ new.fed = requests[i].fed
        /\ new.seen = requests[i].seen
    BY <1>0 DEF Received
  <2>3. UNCHANGED <<master, overlapped>>
    BY <1>8 DEF Fed!gateway
  <2>4. /\ DOMAIN requests' = DOMAIN requests /\ requests'[i] = new
        /\ \A j \in DOMAIN requests : j # i => requests'[j] = requests[j]
    BY <1>0, <2>1
  <2> HIDE DEF new
  <2>5. \A j \in DOMAIN requests : /\ j \in DOMAIN requests'
                                 /\ requests'[j].rail = requests[j].rail
                                 /\ requests'[j].seen = requests[j].seen
                                 /\ requests'[j].fed = requests[j].fed
    BY <2>2, <2>4
  <2>6. \A j \in DOMAIN requests' \ DOMAIN requests : requests'[j].fed = "none"
    BY <2>4
  <2>7. FedTypes /\ FedBooks
    BY <1>0
  <2>8. QED
    BY <2>3, <2>5, <2>6, <2>7, FedBooksStay
<1>9. ASSUME NEW i \in DOMAIN requests, Fed!CheckFunds(i) PROVE FedBooks'
  <2>1. ASSUME NEW bank, NEW fed \in {"none", "asked"}, Fed!Set(i, bank, fed) PROVE FedBooks'
    <3> DEFINE new == [requests[i] EXCEPT !.bank = bank, !.fed = fed]
    <3>1. /\ requests' = [requests EXCEPT ![i] = new] /\ UNCHANGED <<master, overlapped>>
          /\ requests[i].fed = "none"
      BY <1>0, <1>9, <2>1 DEF Fed!Set, Fed!CheckFunds, Fed!gateway, BankKnows
    <3>2. new.rail = requests[i].rail /\ new.fed = fed /\ new.seen = requests[i].seen
      BY <1>0 DEF Received
    <3>3. QED
      BY <1>3, <2>1, <3>1, <3>2
  <2>2. Fed!Set(i, "refused", "none") \/ Fed!Set(i, "calling", "asked")
    BY <1>9, Zenon DEF Fed!CheckFunds
  <2>3. QED
    BY <2>1, <2>2
<1>10. ASSUME NEW i \in DOMAIN requests, Fed!Bank(i) \/ Fed!Fed(i) PROVE FedBooks'
  BY <1>6, <1>7, <1>8, <1>9, <1>10
  DEF Fed!Bank, Fed!Fed, Fed!GatewayAnswers, Fed!GatewayUnavailable, Fed!BankCommits, Fed!BankCrashes
<1>11. CASE Fed!SelectRail \/ Fed!EnterRouting \/ Fed!LookupEnds \/ Fed!Succeeded \/ Fed!Failed
  BY <1>1, <1>11
  DEF Fed!SelectRail, Fed!EnterRouting, Fed!LookupEnds, Fed!Succeeded, Fed!Failed, Fed!gateway
<1>12. CASE UNCHANGED fedVars
  BY <1>1, <1>12 DEF fedVars
<1>13. QED
  BY <1>4, <1>5, <1>10, <1>11, <1>12 DEF Fed!Next

(* The form, and its call, which the flag stands for.                      *)
FedFlags ==
    /\ validationError \in BOOLEAN /\ lookupLoading \in BOOLEAN /\ fedLoading \in BOOLEAN
    /\ fedLoading <=> call # Fed!NoCall
FedForm ==
    /\ routingNumber \in FedRouting \cup {Fed!Short, Fed!Wrong, Fed!None}
    /\ directoryInfo \in FedRouting \cup {Fed!None}
    /\ submissions \in 0..MaxSubmissions
    /\ call.n \in 0..submissions /\ call.attempt \in 0..FedRetries
    /\ fedLookups \in Seq(FedRouting)

(* The form as it is first shown keeps its own invariant.                  *)
LEMMA FedFormInit == Fed!Init => FedFlags /\ FedForm
<1> SUFFICES ASSUME Fed!Init PROVE FedFlags /\ FedForm
  OBVIOUS
<1>1. fedLookups \in Seq(FedRouting) /\ MaxSubmissions \in Nat /\ FedRetries \in Nat
  BY FedConstants DEF FedConstants, Fed!Init
<1>2. call = Fed!NoCall /\ call.n = 0 /\ call.attempt = 0
  BY DEF Fed!Init, Fed!NoCall
<1>3. /\ routingNumber = Fed!None /\ directoryInfo = Fed!None /\ submissions = 0
      /\ validationError = FALSE /\ lookupLoading = FALSE /\ fedLoading = FALSE
  BY DEF Fed!Init
<1>4. FedFlags
  BY <1>2, <1>3, Zenon DEF FedFlags
<1>5. FedForm
  BY <1>1, <1>2, <1>3 DEF FedForm
<1>6. QED
  BY <1>4, <1>5

(* Removing an element leaves a sequence of the same set.                  *)
LEMMA Removed ==
    ASSUME NEW S, NEW s \in Seq(S), NEW i \in 1..Len(s)
    PROVE  /\ SubSeq(s, 1, i - 1) \o SubSeq(s, i + 1, Len(s)) \in Seq(S)
           /\ Len(SubSeq(s, 1, i - 1) \o SubSeq(s, i + 1, Len(s))) = Len(s) - 1
           /\ \A j \in 1..(Len(s) - 1) :
                 (SubSeq(s, 1, i - 1) \o SubSeq(s, i + 1, Len(s)))[j]
                     = IF j < i THEN s[j] ELSE s[j + 1]
<1> DEFINE a == SubSeq(s, 1, i - 1)
           b == SubSeq(s, i + 1, Len(s))
<1>2. Len(s) \in Nat /\ i \in Nat /\ 1 <= i /\ i <= Len(s) /\ \A j \in 1..Len(s) : s[j] \in S
  OBVIOUS
<1>a. a \in Seq(S) /\ Len(a) = i - 1 /\ \A j \in 1..(i - 1) : a[j] = s[j]
  <2>1. i - 1 \in Int /\ (\A j \in 1..(i - 1) : s[j] \in S)
    BY <1>2
  <2> HIDE DEF a
  <2>2. /\ a \in Seq(S) /\ Len(a) = IF 1 <= i - 1 THEN (i - 1) - 1 + 1 ELSE 0
        /\ \A j \in 1..((i - 1) - 1 + 1) : a[j] = s[1 + j - 1]
    BY <2>1, SubSeqProperties DEF a
  <2>3. QED
    BY <1>2, <2>2
<1>b. b \in Seq(S) /\ Len(b) = Len(s) - i /\ \A j \in 1..(Len(s) - i) : b[j] = s[i + j]
  <2>1. i + 1 \in Int /\ Len(s) \in Int /\ (\A j \in (i + 1)..Len(s) : s[j] \in S)
    BY <1>2
  <2> HIDE DEF b
  <2>2. /\ b \in Seq(S) /\ Len(b) = IF i + 1 <= Len(s) THEN Len(s) - (i + 1) + 1 ELSE 0
        /\ \A j \in 1..(Len(s) - (i + 1) + 1) : b[j] = s[(i + 1) + j - 1]
    BY <2>1, SubSeqProperties DEF b
  <2>3. QED
    BY <1>2, <2>2
<1>1. /\ a \in Seq(S) /\ Len(a) = i - 1 /\ \A j \in 1..(i - 1) : a[j] = s[j]
      /\ b \in Seq(S) /\ Len(b) = Len(s) - i /\ \A j \in 1..(Len(s) - i) : b[j] = s[i + j]
  BY <1>a, <1>b
<1> HIDE DEF a, b
<1>3. /\ a \o b \in Seq(S) /\ Len(a \o b) = Len(a) + Len(b)
      /\ \A j \in 1..(Len(a) + Len(b)) : (a \o b)[j] = IF j <= Len(a) THEN a[j] ELSE b[j - Len(a)]
  BY <1>1, ConcatProperties
<1>4. Len(a) + Len(b) = Len(s) - 1
  BY <1>1, <1>2
<1>5. ASSUME NEW j \in 1..(Len(s) - 1) PROVE (a \o b)[j] = IF j < i THEN s[j] ELSE s[j + 1]
  <2>1. CASE j < i
    BY <1>1, <1>2, <1>3, <1>4, <2>1
  <2>2. CASE ~(j < i)
    <3>1. j - (i - 1) \in 1..(Len(s) - i) /\ ~(j <= i - 1) /\ i + (j - (i - 1)) = j + 1
      BY <1>2, <2>2
    <3>2. (a \o b)[j] = b[j - (i - 1)]
      BY <1>1, <1>3, <1>4, <3>1
    <3>3. b[j - (i - 1)] = s[i + (j - (i - 1))]
      BY <1>1, <3>1
    <3>4. QED
      BY <2>2, <3>1, <3>2, <3>3
  <2>3. QED
    BY <2>1, <2>2
<1>6. /\ a \o b \in Seq(S) /\ Len(a \o b) = Len(s) - 1
      /\ \A j \in 1..(Len(s) - 1) : (a \o b)[j] = IF j < i THEN s[j] ELSE s[j + 1]
  BY <1>3, <1>4, <1>5
<1>7. QED
  BY <1>6 DEF a, b

(* Every step keeps the invariant of the form.                             *)
LEMMA FedFormStep ==
    FedTypes /\ FedFlags /\ FedForm /\ (Fed!Next \/ UNCHANGED fedVars) => FedFlags' /\ FedForm'
<1> SUFFICES ASSUME FedTypes, FedFlags, FedForm, Fed!Next \/ UNCHANGED fedVars
             PROVE  FedFlags' /\ FedForm'
  OBVIOUS
<1>1. CASE Fed!SelectRail \/ UNCHANGED fedVars
  <2>1. UNCHANGED <<routingNumber, directoryInfo, validationError, lookupLoading, fedLoading,
                    fedLookups, call, submissions>>
    BY <1>1 DEF Fed!SelectRail, Fed!submit, fedVars
  <2>2. QED
    BY <2>1 DEF FedFlags, FedForm
<1>2. CASE Fed!EnterRouting
  <2>1. UNCHANGED <<fedLoading, call, submissions>>
    BY <1>2 DEF Fed!EnterRouting, Fed!submit
  <2>2. /\ routingNumber' \in FedRouting \cup {Fed!Short, Fed!Wrong, Fed!None}
        /\ directoryInfo' \in FedRouting \cup {Fed!None}
    BY <1>2 DEF Fed!EnterRouting, FedForm
  <2>3. fedLookups' \in Seq(FedRouting)
    BY <1>2 DEF Fed!EnterRouting, FedForm
  <2>4. validationError' \in BOOLEAN /\ lookupLoading' \in BOOLEAN
    BY <1>2, Zenon DEF Fed!EnterRouting, FedFlags
  <2>5. FedFlags'
    BY <2>1, <2>4 DEF FedFlags
  <2>6. QED
    BY <2>1, <2>2, <2>3, <2>5 DEF FedForm
<1>3. CASE Fed!LookupEnds
  <2>1. PICK i \in DOMAIN fedLookups, answer \in {"found", "unlisted", "failed"} :
            /\ fedLookups' = Fed!RemoveAt(fedLookups, i)
            /\ Fed!LookupAnswered(fedLookups[i], answer)
            /\ lookupLoading' = FALSE
            /\ UNCHANGED <<routingNumber, fedLoading, call, submissions>>
    BY <1>3 DEF Fed!LookupEnds, Fed!submit
  <2>2. fedLookups \in Seq(FedRouting) /\ i \in 1..Len(fedLookups)
    BY DEF FedForm
  <2>3. fedLookups' \in Seq(FedRouting) /\ fedLookups[i] \in FedRouting
    BY <2>1, <2>2, Removed DEF Fed!RemoveAt
  <2>4. directoryInfo' \in FedRouting \cup {Fed!None}
    BY <2>1, <2>3 DEF Fed!LookupAnswered
  <2>5. validationError' \in BOOLEAN
    BY <2>1, Zenon DEF Fed!LookupAnswered, FedFlags
  <2>6. FedFlags'
    BY <2>1, <2>5, Zenon DEF FedFlags
  <2>7. QED
    BY <2>1, <2>3, <2>4, <2>6 DEF FedForm
<1>4. CASE Fed!HandleSubmit
  <2>1. /\ call' = [n |-> submissions + 1, rail |-> rail, routing |-> routingNumber, attempt |-> 0]
        /\ submissions' = submissions + 1 /\ submissions < MaxSubmissions /\ fedLoading' = TRUE
        /\ UNCHANGED <<routingNumber, directoryInfo, validationError, lookupLoading, fedLookups>>
    BY <1>4 DEF Fed!HandleSubmit, Fed!Post, Fed!form
  <2>2. call'.n # Fed!NoCall.n
    BY <2>1 DEF FedForm, Fed!NoCall
  <2>3. /\ submissions' \in 0..MaxSubmissions /\ call'.n \in 0..submissions'
        /\ call'.attempt \in 0..FedRetries
    BY <2>1, FedConstants DEF FedConstants, FedForm
  <2>4. FedFlags'
    BY <2>1, <2>2, Zenon DEF FedFlags
  <2>5. QED
    BY <2>1, <2>3, <2>4 DEF FedForm
<1>5. CASE \E i \in DOMAIN requests : Fed!Bank(i) \/ Fed!Fed(i)
  <2>1. UNCHANGED <<Fed!form, Fed!submit>>
    BY <1>5 DEF Fed!Bank, Fed!Fed, Fed!CheckFunds, Fed!GatewayAnswers, Fed!GatewayUnavailable,
       Fed!BankCommits, Fed!BankCrashes, Fed!FedReads, Fed!FedCommits
  <2>2. QED
    BY <2>1 DEF Fed!form, Fed!submit, FedForm, FedFlags
<1>6. ASSUME Fed!Done, UNCHANGED <<Fed!form, submissions>> PROVE FedFlags' /\ FedForm'
  <2>1. call' = Fed!NoCall /\ call'.n = 0 /\ call'.attempt = 0 /\ fedLoading' = FALSE
    BY <1>6 DEF Fed!Done, Fed!NoCall
  <2>2. FedFlags'
    BY <1>6, <2>1, Zenon DEF Fed!form, FedFlags
  <2>3. QED
    BY <1>6, <2>1, <2>2, FedConstants DEF FedConstants, Fed!form, FedForm
<1>7. CASE Fed!Succeeded \/ Fed!Failed
  BY <1>6, <1>7 DEF Fed!Succeeded, Fed!Failed
<1>8. CASE Fed!NetworkError
  <2>1. CASE call.attempt < FedRetries
    <3>1. /\ call' = [call EXCEPT !.attempt = @ + 1] /\ UNCHANGED <<Fed!form, fedLoading, submissions>>
          /\ call # Fed!NoCall
      BY <1>8, <2>1 DEF Fed!NetworkError, Fed!Post
    <3>2. call'.n = call.n /\ call'.attempt = call.attempt + 1
      BY <3>1 DEF FedTypes
    <3>3. call'.attempt # Fed!NoCall.attempt /\ call'.attempt \in 0..FedRetries
      BY <2>1, <3>2, FedConstants DEF FedConstants, FedForm, Fed!NoCall
    <3>4. FedFlags'
      BY <3>1, <3>3, Zenon DEF FedFlags, Fed!form
    <3>5. QED
      BY <3>1, <3>2, <3>3, <3>4 DEF FedForm, Fed!form
  <2>2. CASE ~(call.attempt < FedRetries)
    BY <1>6, <1>8, <2>2 DEF Fed!NetworkError
  <2>3. QED
    BY <2>1, <2>2
<1>9. QED
  BY <1>1, <1>2, <1>3, <1>4, <1>5, <1>7, <1>8 DEF Fed!Next

(* Types, flags and form make up the types of the module.                  *)
LEMMA FedTypeOK == FedTypes /\ FedBooks /\ FedFlags /\ FedForm => Fed!TypeOK
<1> SUFFICES ASSUME FedTypes, FedBooks, FedFlags, FedForm PROVE Fed!TypeOK
  OBVIOUS
<1>1. call.n \in 0..MaxSubmissions
  BY FedConstants DEF FedConstants, FedForm
<1>2. \A i \in DOMAIN fedLookups : fedLookups[i] \in FedRouting
  BY DEF FedForm
<1>3. \A i \in DOMAIN requests :
          /\ requests[i].bank \in {"received", "calling", "settled", "booked", "refused", "crashed"}
          /\ requests[i].fed \in {"none", "asked", "read", "settled", "rejected"}
  <2>1. \A i \in DOMAIN requests : requests[i] \in Received
    BY DEF FedTypes
  <2>2. \A r \in Received :
            /\ r.bank \in {"received", "calling", "settled", "booked", "refused", "crashed"}
            /\ r.fed \in {"none", "asked", "read", "settled", "rejected"}
    BY DEF Received
  <2>3. QED
    BY <2>1, <2>2, Zenon
<1>4. /\ rail \in UsedRails /\ master \in Int
      /\ routingNumber \in FedRouting \cup {Fed!Short, Fed!Wrong, Fed!None}
      /\ directoryInfo \in FedRouting \cup {Fed!None} /\ call.attempt \in 0..FedRetries
  BY DEF FedTypes, FedForm
<1>5. QED
  BY <1>1, <1>2, <1>3, <1>4, Zenon DEF FedFlags, FedBooks, Fed!TypeOK

(* An answer that names a bank clears the warning, any other clears the    *)
(* bank: nothing else has to be known of the lookups under way.            *)
LEMMA LookupStep ==
    FedLookup!BankOrWarning /\ (FedLookup!Next \/ UNCHANGED fedVars) => FedLookup!BankOrWarning'
<1> SUFFICES ASSUME FedLookup!BankOrWarning, FedLookup!Next \/ UNCHANGED fedVars
             PROVE  FedLookup!BankOrWarning'
  OBVIOUS
<1>1. ASSUME UNCHANGED <<directoryInfo, validationError>> PROVE FedLookup!BankOrWarning'
  BY <1>1 DEF FedLookup!BankOrWarning
<1>2. CASE FedLookup!EnterRouting
  <2>1. \/ validationError' = FALSE \/ directoryInfo' = FedLookup!None
    BY <1>2, Zenon DEF FedLookup!EnterRouting
  <2>2. QED
    BY <2>1, Zenon DEF FedLookup!BankOrWarning
<1>3. CASE FedLookup!LookupEnds
  <2>1. PICK r, answer : FedLookup!LookupAnswered(r, answer)
    BY <1>3, Zenon DEF FedLookup!LookupEnds
  <2>2. CASE answer = "found"
    BY <2>1, <2>2 DEF FedLookup!LookupAnswered, FedLookup!BankOrWarning
  <2>3. CASE answer # "found"
    BY <2>1, <2>3 DEF FedLookup!LookupAnswered, FedLookup!BankOrWarning
  <2>4. QED
    BY <2>2, <2>3
<1>4. CASE \E i \in DOMAIN requests : FedLookup!Bank(i) \/ FedLookup!Fed(i)
  BY <1>1, <1>4 DEF FedLookup!Bank, FedLookup!Fed, FedLookup!CheckFunds,
     FedLookup!GatewayAnswers, FedLookup!GatewayUnavailable, FedLookup!BankCommits,
     FedLookup!BankCrashes, FedLookup!FedReads, FedLookup!FedCommits, FedLookup!form
<1>5. CASE UNCHANGED fedVars
  BY <1>1, <1>5 DEF fedVars
<1>6. CASE \/ FedLookup!SelectRail \/ FedLookup!HandleSubmit \/ FedLookup!Succeeded
           \/ FedLookup!Failed \/ FedLookup!NetworkError
  BY <1>1, <1>6 DEF FedLookup!SelectRail, FedLookup!HandleSubmit, FedLookup!Succeeded,
     FedLookup!Failed, FedLookup!NetworkError, FedLookup!form
<1>7. QED
  BY <1>2, <1>3, <1>4, <1>5, <1>6 DEF FedLookup!Next

-----------------------------------------------------------------------------
(* Between accounts.  The cents are counted one by one.                    *)

(* The cents of an account are numbered.                                   *)
LEMMA CoinOf ==
    ASSUME NEW b, NEW x
    PROVE  x \in Between!Coins(b) <=> \E a \in DOMAIN b, i \in Int : i \in 1..b[a] /\ x = <<a, i>>
  BY DEF Between!Coins

(* A move takes the highest cents of one account and puts them on top of   *)
(* the cents of the other: a bijection.                                    *)
LEMMA CoinsMove ==
    ASSUME NEW b, \A a \in DOMAIN b : b[a] \in Nat, IsFiniteSet(Between!Coins(b)),
           NEW from \in DOMAIN b, NEW to \in DOMAIN b, from # to,
           NEW cents \in Nat, cents <= b[from],
           NEW c, DOMAIN c = DOMAIN b, c[from] = b[from] - cents, c[to] = b[to] + cents,
           \A a \in DOMAIN b \ {from, to} : c[a] = b[a]
    PROVE  /\ IsFiniteSet(Between!Coins(c))
           /\ Cardinality(Between!Coins(c)) = Cardinality(Between!Coins(b))
<1> DEFINE left == b[from] - cents
           there == b[to]
           Lands(a, i) == IF a = from /\ i > left THEN <<to, there + (i - left)>> ELSE <<a, i>>
           f == [x \in Between!Coins(b) |-> Lands(x[1], x[2])]
<1>1. /\ DOMAIN c = DOMAIN b /\ c[from] = left /\ c[to] = there + cents
      /\ \A a \in DOMAIN b \ {from, to} : c[a] = b[a]
      /\ left \in Nat /\ there \in Nat /\ b[from] = left + cents /\ b[to] = there
      /\ \A a \in DOMAIN b : b[a] \in Nat
  OBVIOUS
<1>2. ASSUME NEW a \in DOMAIN b, NEW i \in Int, i \in 1..b[a]
      PROVE  <<a, i>> \in Between!Coins(b) /\ f[<<a, i>>] = Lands(a, i)
  <2>1. <<a, i>> \in Between!Coins(b)
    BY <1>2, CoinOf
  <2> HIDE DEF Lands
  <2>2. QED
    BY <2>1
<1>3. ASSUME NEW x \in Between!Coins(b)
      PROVE  \E a \in DOMAIN b, i \in Int : i \in 1..b[a] /\ x = <<a, i>> /\ f[x] = Lands(a, i)
  <2>1. PICK a \in DOMAIN b, i \in Int : i \in 1..b[a] /\ x = <<a, i>>
    BY CoinOf
  <2>2. f[x] = Lands(a, i)
    BY <1>2, <2>1
  <2>3. QED
    BY <2>1, <2>2
<1> HIDE DEF left, there
<1>4. ASSUME NEW a \in DOMAIN b, NEW i \in Int, i \in 1..b[a] PROVE Lands(a, i) \in Between!Coins(c)
  <2>1. CASE a = from /\ i > left
    <3>0. i <= left + cents
      BY <1>1, <1>4, <2>1
    <3>1. there + (i - left) \in Int /\ there + (i - left) \in 1..c[to]
      BY <1>1, <2>1, <3>0
    <3>2. <<to, there + (i - left)>> \in Between!Coins(c)
      BY <1>1, <3>1, CoinOf
    <3>3. QED
      BY <2>1, <3>2
  <2>2. CASE ~(a = from /\ i > left)
    <3>1. i \in 1..c[a]
      <4>1. CASE a = from
        BY <1>1, <1>4, <2>2, <4>1
      <4>2. CASE a = to
        BY <1>1, <1>4, <4>2
      <4>3. CASE a \notin {from, to}
        BY <1>1, <1>4, <4>3
      <4>4. QED
        BY <4>1, <4>2, <4>3
    <3>2. <<a, i>> \in Between!Coins(c)
      BY <1>1, <3>1, CoinOf
    <3>3. QED
      BY <2>2, <3>2
  <2>3. QED
    BY <2>1, <2>2
<1>5. ASSUME NEW a \in DOMAIN b, NEW i \in Int, i \in 1..b[a],
             NEW d \in DOMAIN b, NEW j \in Int, j \in 1..b[d], Lands(a, i) = Lands(d, j)
      PROVE  <<a, i>> = <<d, j>>
  <2>0. b[a] \in Nat /\ b[d] \in Nat /\ (a = to => b[a] = there) /\ (d = to => b[d] = there)
    BY <1>1
  <2>1. i \in Nat /\ j \in Nat /\ (a = to => i <= there) /\ (d = to => j <= there)
    BY <1>5, <2>0
  <2>2. CASE (a = from /\ i > left) /\ (d = from /\ j > left)
    <3>1. there + (i - left) = there + (j - left)
      BY <1>5, <2>2
    <3>2. QED
      BY <1>1, <2>1, <2>2, <3>1
  <2>3. CASE (a = from /\ i > left) /\ ~(d = from /\ j > left)
    <3>1. to = d /\ there + (i - left) = j
      BY <1>5, <2>3
    <3>2. QED
      BY <1>1, <2>1, <2>3, <3>1
  <2>4. CASE ~(a = from /\ i > left) /\ (d = from /\ j > left)
    <3>1. to = a /\ there + (j - left) = i
      BY <1>5, <2>4
    <3>2. QED
      BY <1>1, <2>1, <2>4, <3>1
  <2>5. CASE ~(a = from /\ i > left) /\ ~(d = from /\ j > left)
    BY <1>5, <2>5
  <2>6. QED
    BY <2>2, <2>3, <2>4, <2>5
<1>6. ASSUME NEW a \in DOMAIN b, NEW i \in Int, i \in 1..c[a]
      PROVE  \E d \in DOMAIN b, j \in Int : j \in 1..b[d] /\ Lands(d, j) = <<a, i>>
  <2>1. CASE a = to /\ i > there
    <3>0. i <= there + cents
      BY <1>1, <1>6, <2>1
    <3>1. /\ left + (i - there) \in Int /\ left + (i - there) \in 1..b[from]
          /\ left + (i - there) > left /\ there + ((left + (i - there)) - left) = i
      BY <1>1, <2>1, <3>0
    <3>2. Lands(from, left + (i - there)) = <<a, i>>
      BY <2>1, <3>1
    <3>3. QED
      BY <3>1, <3>2
  <2>2. CASE ~(a = to /\ i > there)
    <3>1. i \in 1..b[a] /\ ~(a = from /\ i > left)
      <4>1. CASE a = from
        BY <1>1, <1>6, <4>1
      <4>2. CASE a = to
        BY <1>1, <1>6, <2>2, <4>2
      <4>3. CASE a \notin {from, to}
        BY <1>1, <1>6, <4>3
      <4>4. QED
        BY <4>1, <4>2, <4>3
    <3>2. Lands(a, i) = <<a, i>>
      BY <3>1
    <3>3. QED
      BY <3>1, <3>2
  <2>3. QED
    BY <2>1, <2>2
<1> HIDE DEF Lands, f
<1>7. ASSUME NEW x \in Between!Coins(b) PROVE f[x] \in Between!Coins(c)
  <2>1. PICK a \in DOMAIN b, i \in Int : i \in 1..b[a] /\ x = <<a, i>> /\ f[x] = Lands(a, i)
    BY <1>3
  <2>2. QED
    BY <1>4, <2>1
<1>8. ASSUME NEW x \in Between!Coins(b), NEW y \in Between!Coins(b), f[x] = f[y] PROVE x = y
  <2>1. PICK a \in DOMAIN b, i \in Int : i \in 1..b[a] /\ x = <<a, i>> /\ f[x] = Lands(a, i)
    BY <1>3
  <2>2. PICK d \in DOMAIN b, j \in Int : j \in 1..b[d] /\ y = <<d, j>> /\ f[y] = Lands(d, j)
    BY <1>3
  <2>3. QED
    BY <1>5, <1>8, <2>1, <2>2
<1>9. ASSUME NEW y \in Between!Coins(c) PROVE \E x \in Between!Coins(b) : f[x] = y
  <2>1. PICK a \in DOMAIN c, i \in Int : i \in 1..c[a] /\ y = <<a, i>>
    BY CoinOf
  <2>2. PICK d \in DOMAIN b, j \in Int : j \in 1..b[d] /\ Lands(d, j) = <<a, i>>
    BY <1>1, <1>6, <2>1
  <2>3. QED
    BY <1>2, <2>1, <2>2
<1>10. f \in [Between!Coins(b) -> Between!Coins(c)]
  <2>1. DOMAIN f = Between!Coins(b) /\ f = [x \in DOMAIN f |-> f[x]]
    BY DEF f
  <2>2. QED
    BY <1>7, <2>1
<1>11. f \in Injection(Between!Coins(b), Between!Coins(c))
  BY <1>8, <1>10 DEF Injection, IsInjective
<1>12. f \in Surjection(Between!Coins(b), Between!Coins(c))
  BY <1>9, <1>10 DEF Surjection
<1>13. ExistsBijection(Between!Coins(b), Between!Coins(c))
  BY <1>11, <1>12 DEF ExistsBijection, Bijection
<1>14. QED
  BY <1>13, FS_Bijection

(* No account holds more than all of them.                                 *)
LEMMA CoinsBound ==
    ASSUME NEW b, NEW a \in DOMAIN b, b[a] \in Nat, IsFiniteSet(Between!Coins(b))
    PROVE  b[a] <= Cardinality(Between!Coins(b))
<1> DEFINE f == [i \in 1..b[a] |-> <<a, i>>]
<1>1. \A i \in 1..b[a] : i \in Int /\ <<a, i>> \in Between!Coins(b)
  BY CoinOf
<1>2. f \in [1..b[a] -> Between!Coins(b)]
  BY <1>1
<1>3. f \in Injection(1..b[a], Between!Coins(b))
  BY <1>2 DEF Injection, IsInjective
<1>4. Cardinality(1..b[a]) <= Cardinality(Between!Coins(b))
  BY <1>3, FS_Injection
<1>5. 1 \in Int /\ b[a] \in Int
  OBVIOUS
<1>6. Cardinality(1..b[a]) = IF 1 > b[a] THEN 0 ELSE b[a] - 1 + 1
  BY <1>5, FS_Interval
<1>7. 0 <= Cardinality(Between!Coins(b)) /\ Cardinality(Between!Coins(b)) \in Nat
  BY FS_CardinalityType
<1> QED
  BY <1>4, <1>6, <1>7

(* New accounts are empty.                                                 *)
LEMMA CoinsPadded ==
    ASSUME NEW b \in Seq(Nat), NEW n \in Nat
    PROVE  /\ b \o [i \in 1..n |-> 0] \in Seq(Nat)
           /\ Len(b \o [i \in 1..n |-> 0]) = Len(b) + n
           /\ Between!Coins(b \o [i \in 1..n |-> 0]) = Between!Coins(b)
<1> DEFINE z == [i \in 1..n |-> 0]
           c == b \o z
<1>1. z \in Seq(Nat) /\ Len(z) = n
  OBVIOUS
<1>2. /\ c \in Seq(Nat) /\ Len(c) = Len(b) + n /\ Len(b) \in Nat
      /\ \A i \in 1..(Len(b) + n) : c[i] = IF i <= Len(b) THEN b[i] ELSE 0
  BY <1>1
<1> HIDE DEF c, z
<1>3. DOMAIN c = 1..(Len(b) + n) /\ DOMAIN b = 1..Len(b)
  BY <1>2
<1>4. ASSUME NEW x \in Between!Coins(c) PROVE x \in Between!Coins(b)
  <2>1. PICK a \in DOMAIN c, i \in Int : i \in 1..c[a] /\ x = <<a, i>>
    BY CoinOf
  <2>2. a \in DOMAIN b /\ c[a] = b[a]
    BY <1>2, <1>3, <2>1
  <2>3. QED
    BY <2>1, <2>2, CoinOf
<1>5. ASSUME NEW x \in Between!Coins(b) PROVE x \in Between!Coins(c)
  <2>1. PICK a \in DOMAIN b, i \in Int : i \in 1..b[a] /\ x = <<a, i>>
    BY CoinOf
  <2>2. a \in DOMAIN c /\ c[a] = b[a]
    BY <1>2, <1>3
  <2>3. QED
    BY <2>1, <2>2, CoinOf
<1>6. Between!Coins(c) = Between!Coins(b)
  BY <1>4, <1>5
<1>7. QED
  BY <1>2, <1>6 DEF c, z

(* One full account has as many cents as it holds.                         *)
LEMMA CoinsOfOne ==
    ASSUME NEW b, 1 \in DOMAIN b, b[1] \in Nat, \A a \in DOMAIN b \ {1} : b[a] = 0
    PROVE  IsFiniteSet(Between!Coins(b)) /\ Cardinality(Between!Coins(b)) = b[1]
<1> DEFINE f == [i \in 1..b[1] |-> <<1, i>>]
<1>1. \A i \in 1..b[1] : i \in Int /\ <<1, i>> \in Between!Coins(b)
  BY CoinOf
<1>2. f \in [1..b[1] -> Between!Coins(b)]
  BY <1>1
<1>3. ASSUME NEW x \in Between!Coins(b) PROVE \E i \in 1..b[1] : f[i] = x
  <2>1. PICK a \in DOMAIN b, i \in Int : i \in 1..b[a] /\ x = <<a, i>>
    BY CoinOf
  <2>2. a = 1
    BY <2>1
  <2>3. QED
    BY <2>1, <2>2
<1>4. f \in Injection(1..b[1], Between!Coins(b))
  BY <1>2 DEF Injection, IsInjective
<1>5. f \in Surjection(1..b[1], Between!Coins(b))
  BY <1>2, <1>3 DEF Surjection
<1>6. ExistsBijection(1..b[1], Between!Coins(b))
  BY <1>4, <1>5 DEF ExistsBijection, Bijection
<1>7. 1 \in Int /\ b[1] \in Int
  OBVIOUS
<1>8. IsFiniteSet(1..b[1]) /\ Cardinality(1..b[1]) = IF 1 > b[1] THEN 0 ELSE b[1] - 1 + 1
  BY <1>7, FS_Interval
<1>9. IsFiniteSet(Between!Coins(b)) /\ Cardinality(Between!Coins(b)) = Cardinality(1..b[1])
  BY <1>6, <1>8, FS_Bijection
<1>10. QED
  BY <1>8, <1>9

(* The first other account is another account.                             *)
LEMMA FirstOther ==
    ASSUME NEW S, S \subseteq Nat, S # {}
    PROVE  (CHOOSE a \in S : \A b \in S : a <= b) \in S
<1> DEFINE R == OpToRel(<, Nat)
<1>1. \A m, n \in Nat : m < n => <<m, n>> \in R
  BY DEF OpToRel
<1>2. IsWellFoundedOn(R, Nat)
  BY NatLessThanWellFounded
<1> HIDE DEF R
<1>3. \E n \in S : \A m \in S : ~(<<m, n>> \in R)
  BY <1>2, WFMin
<1>4. \E n \in S : \A m \in S : n <= m
  <2>1. PICK n \in S : \A m \in S : ~(<<m, n>> \in R)
    BY <1>3
  <2>2. ASSUME NEW m \in S PROVE n <= m
    <3>1. m \in Nat /\ n \in Nat /\ ~(m < n)
      BY <1>1, <2>1
    <3>2. QED
      BY <3>1
  <2>3. QED
    BY <2>2
<1>5. QED
  BY <1>4

BetweenCall == [from : Between!Id, to : Between!Id, cents : Between!Cents,
                ending : {"pending"} \cup Between!Contract!Ending, runs : Nat]

(* The transfers that were made, and those of them the tab has ended.      *)
MadeOf(calls) == {i \in DOMAIN calls : calls[i].runs > 0}
EndedOf(calls) == {i \in MadeOf(calls) : calls[i].ending # "pending"}

(* All the money is in the accounts.                                       *)
Holds(b) ==
    /\ b \in Seq(Nat)
    /\ Len(b) \in 1..MaxAccounts
    /\ IsFiniteSet(Between!Coins(b)) /\ Cardinality(Between!Coins(b)) = Total

(* What is displayed was all there was; a form with a choice separates its *)
(* accounts.                                                               *)
BetweenInv ==
    /\ Holds(balance)
    /\ betweenShown \in Seq(Nat)
    /\ betweenShown # <<>> => Holds(betweenShown)
    /\ Len(betweenShown) <= Len(balance)
    /\ fromAccountId \in Between!Id
    /\ toAccountId \in Between!Id \cup {Between!NoAccount}
    /\ Len(betweenShown) > 1 => fromAccountId # toAccountId
    /\ betweenAmount \in Between!Cents
    /\ betweenCalls \in Seq(BetweenCall)
    /\ betweenWins \in Nat /\ betweenWins <= Cardinality(EndedOf(betweenCalls))

BetweenFlags == betweenLoading \in BOOLEAN /\ creatingSavings \in BOOLEAN

(* The module's counts are counts.                                         *)
LEMMA BetweenCount == \A S : Between!Cardinality(S) = Cardinality(S)
  BY DEF Between!Cardinality, Cardinality

(* A sequence has as many places as its length says.                       *)
LEMMA Places ==
    ASSUME NEW S, NEW s \in Seq(S)
    PROVE  /\ DOMAIN s = 1..Len(s) /\ Len(s) \in Nat
           /\ IsFiniteSet(DOMAIN s) /\ Cardinality(DOMAIN s) = Len(s)
<1>1. DOMAIN s = 1..Len(s) /\ Len(s) \in Nat /\ 1 \in Int /\ Len(s) \in Int
  OBVIOUS
<1>2. IsFiniteSet(1..Len(s)) /\ Cardinality(1..Len(s)) = IF 1 > Len(s) THEN 0 ELSE Len(s) - 1 + 1
  BY <1>1, FS_Interval
<1>3. QED
  BY <1>1, <1>2

(* The effect names another account when there is one.                     *)
LEMMA Separated ==
    ASSUME NEW b \in Seq(Nat), NEW from, NEW to
    PROVE  /\ Len(b) > 1 => Between!Destination(b, from, to) # from
           /\ Between!Destination(b, from, to) \in DOMAIN b \cup {to}
<1> DEFINE others == DOMAIN b \ {from}
<1>1. DOMAIN b = 1..Len(b) /\ Len(b) \in Nat /\ Between!Cardinality(DOMAIN b) = Len(b)
  BY Places, BetweenCount
<1>2. Len(b) > 1 => others # {}
  <2>1. Len(b) > 1 => 1 \in DOMAIN b /\ 2 \in DOMAIN b
    BY <1>1
  <2>2. QED
    BY <2>1
<1>3. others \subseteq Nat
  BY <1>1
<1>4. others # {} => (CHOOSE a \in others : \A d \in others : a <= d) \in others
  BY <1>3, FirstOther
<1>5. Between!Destination(b, from, to) =
         IF Len(b) > 1 /\ to \in {Between!NoAccount, from}
         THEN CHOOSE a \in others : \A d \in others : a <= d ELSE to
  BY <1>1 DEF Between!Destination
<1>6. QED
  BY <1>2, <1>4, <1>5

(* The accounts as they are opened keep the invariant of the page.         *)
LEMMA BetweenInit == Between!Init => BetweenInv /\ BetweenFlags
<1> SUFFICES ASSUME Between!Init PROVE BetweenInv /\ BetweenFlags
  OBVIOUS
<1>0. Total \in Nat /\ MaxAccounts \in Nat /\ MaxAccounts >= 2
  BY BetweenConstants DEF BetweenConstants
<1>1. PICK n \in 1..2 : balance = [a \in 1..n |-> IF a = 1 THEN Total ELSE 0]
  BY DEF Between!Init
<1>2. /\ balance \in Seq(Nat) /\ Len(balance) = n /\ n \in 1..MaxAccounts
      /\ 1 \in DOMAIN balance /\ DOMAIN balance \subseteq 1..2 /\ balance[1] = Total
      /\ \A a \in DOMAIN balance \ {1} : balance[a] = 0
  BY <1>0, <1>1
<1>3. Holds(balance)
  BY <1>0, <1>2, CoinsOfOne DEF Holds
<1>4. /\ betweenShown = <<>> /\ betweenCalls = <<>> /\ betweenAmount = 0 /\ betweenWins = 0
      /\ fromAccountId \in DOMAIN balance \cup {Between!Foreign}
      /\ toAccountId \in DOMAIN balance \cup {Between!Foreign, Between!NoAccount}
  BY DEF Between!Init
<1>5. /\ betweenShown \in Seq(Nat) /\ betweenCalls \in Seq(BetweenCall)
      /\ Len(betweenShown) = 0 /\ 0 <= Len(balance)
  BY <1>2, <1>4
<1>6. /\ fromAccountId \in Between!Id
      /\ toAccountId \in Between!Id \cup {Between!NoAccount}
  BY <1>0, <1>2, <1>4 DEF Between!Account, Between!Id
<1>7. 0 \in Between!Cents
  BY <1>0 DEF Between!Cents
<1>8. EndedOf(betweenCalls) = {}
  BY <1>4 DEF EndedOf, MadeOf
<1>9. 0 <= Cardinality(EndedOf(betweenCalls))
  BY <1>8, FS_EmptySet
<1>10. BetweenInv
  BY <1>3, <1>4, <1>5, <1>6, <1>7, <1>9 DEF BetweenInv
<1>11. BetweenFlags
  BY Zenon DEF Between!Init, BetweenFlags
<1>12. QED
  BY <1>10, <1>11

(* The form's effect keeps the form's part of the invariant.               *)
LEMMA Chosen ==
    ASSUME NEW b \in Seq(Nat), Len(b) <= MaxAccounts, NEW from \in Between!Id,
           NEW to \in Between!Id \cup {Between!NoAccount}, Between!Choose(b, from, to)
    PROVE  /\ fromAccountId' \in Between!Id
           /\ toAccountId' \in Between!Id \cup {Between!NoAccount}
           /\ Len(b) > 1 => fromAccountId' # toAccountId'
<1>1. DOMAIN b \subseteq Between!Id
  BY BetweenConstants DEF BetweenConstants, Between!Account, Between!Id
<1>2. fromAccountId' = from /\ toAccountId' = Between!Destination(b, from, to)
  BY DEF Between!Choose
<1>3. QED
  BY <1>1, <1>2, Separated

(* The transfers ended and made are some of those asked for.               *)
LEMMA CallsAreFew ==
    ASSUME NEW S, NEW c \in Seq(S)
    PROVE  /\ MadeOf(c) \subseteq DOMAIN c /\ EndedOf(c) \subseteq MadeOf(c)
           /\ IsFiniteSet(MadeOf(c)) /\ IsFiniteSet(EndedOf(c))
           /\ Cardinality(MadeOf(c)) \in Nat /\ Cardinality(EndedOf(c)) \in Nat
           /\ Cardinality(MadeOf(c)) <= Len(c)
           /\ Cardinality(EndedOf(c)) <= Cardinality(MadeOf(c))
<1>1. IsFiniteSet(DOMAIN c) /\ Cardinality(DOMAIN c) = Len(c)
  BY Places
<1>2. MadeOf(c) \in SUBSET DOMAIN c /\ EndedOf(c) \in SUBSET MadeOf(c)
  BY DEF MadeOf, EndedOf
<1>3. IsFiniteSet(MadeOf(c)) /\ Cardinality(MadeOf(c)) <= Len(c)
  BY <1>1, <1>2, FS_Subset
<1>4. IsFiniteSet(EndedOf(c)) /\ Cardinality(EndedOf(c)) <= Cardinality(MadeOf(c))
  BY <1>2, <1>3, FS_Subset
<1>5. Cardinality(MadeOf(c)) \in Nat /\ Cardinality(EndedOf(c)) \in Nat
  BY <1>3, <1>4, FS_CardinalityType
<1>6. QED
  BY <1>2, <1>3, <1>4, <1>5

(* One element of a sequence is replaced.                                  *)
LEMMA Replaced ==
    ASSUME NEW S, NEW s \in Seq(S), NEW i \in DOMAIN s, NEW x \in S
    PROVE  /\ [s EXCEPT ![i] = x] \in Seq(S)
           /\ DOMAIN [s EXCEPT ![i] = x] = DOMAIN s /\ Len([s EXCEPT ![i] = x]) = Len(s)
           /\ [s EXCEPT ![i] = x][i] = x
           /\ \A j \in DOMAIN s : j # i => [s EXCEPT ![i] = x][j] = s[j]
  OBVIOUS

(* One is added at the end.                                                *)
LEMMA Appended ==
    ASSUME NEW S, NEW s \in Seq(S), NEW x \in S
    PROVE  /\ Append(s, x) \in Seq(S)
           /\ DOMAIN Append(s, x) = DOMAIN s \cup {Len(s) + 1} /\ Len(Append(s, x)) = Len(s) + 1
           /\ Len(s) + 1 \notin DOMAIN s /\ Len(s) \in Nat
           /\ Append(s, x)[Len(s) + 1] = x
           /\ \A j \in DOMAIN s : Append(s, x)[j] = s[j]
  OBVIOUS

(* A move leaves all the money in the accounts.                            *)
LEMMA MovedHolds ==
    ASSUME Holds(balance), NEW from, NEW to, NEW cents \in Nat, Between!MayMove(from, to, cents),
           balance' = Between!Moved(from, to, cents)
    PROVE  Holds(balance') /\ Len(balance') = Len(balance)
<1>1. /\ balance \in Seq(Nat) /\ from \in DOMAIN balance /\ to \in DOMAIN balance /\ from # to
      /\ cents <= balance[from] /\ balance' = [balance EXCEPT ![from] = @ - cents, ![to] = @ + cents]
      /\ IsFiniteSet(Between!Coins(balance)) /\ Cardinality(Between!Coins(balance)) = Total
      /\ Len(balance) \in 1..MaxAccounts
  BY DEF Holds, Between!MayMove, Between!Moved
<1>2. /\ DOMAIN balance' = DOMAIN balance /\ balance'[from] = balance[from] - cents
      /\ balance'[to] = balance[to] + cents
      /\ \A a \in DOMAIN balance \ {from, to} : balance'[a] = balance[a]
      /\ \A a \in DOMAIN balance : balance[a] \in Nat
  BY <1>1
<1>3. balance' \in Seq(Nat) /\ Len(balance') = Len(balance)
  <2>0. balance[from] \in Nat /\ balance[to] \in Nat
    BY <1>1, <1>2
  <2>1. balance[from] - cents \in Nat /\ balance[to] + cents \in Nat
    BY <1>1, <2>0
  <2>2. ASSUME NEW a \in 1..Len(balance) PROVE balance'[a] \in Nat
    <3>1. a \in DOMAIN balance
      BY <1>1
    <3>2. a \notin {from, to} => balance'[a] = balance[a] /\ balance[a] \in Nat
      BY <1>2, <3>1
    <3>3. QED
      BY <1>2, <2>1, <3>2
  <2>3. DOMAIN balance' = 1..Len(balance) /\ Len(balance) \in Nat
    BY <1>1, <1>2
  <2>4. balance' = [a \in 1..Len(balance) |-> balance'[a]]
    BY <1>1, <2>3
  <2>5. QED
    BY <2>2, <2>3, <2>4
<1>4. /\ IsFiniteSet(Between!Coins(balance'))
      /\ Cardinality(Between!Coins(balance')) = Cardinality(Between!Coins(balance))
  <2> DEFINE c == balance'
  <2>1. /\ DOMAIN c = DOMAIN balance /\ c[from] = balance[from] - cents
        /\ c[to] = balance[to] + cents
        /\ \A a \in DOMAIN balance \ {from, to} : c[a] = balance[a]
    BY <1>2
  <2> HIDE DEF c
  <2>2. /\ IsFiniteSet(Between!Coins(c))
        /\ Cardinality(Between!Coins(c)) = Cardinality(Between!Coins(balance))
    <3>1. /\ \A a \in DOMAIN balance : balance[a] \in Nat
          /\ from \in DOMAIN balance /\ to \in DOMAIN balance /\ from # to
          /\ cents <= balance[from] /\ IsFiniteSet(Between!Coins(balance))
      BY <1>1, <1>2
    <3>2. QED
      BY <2>1, <3>1, CoinsMove
  <2>3. QED
    BY <2>2 DEF c
<1>5. QED
  BY <1>1, <1>3, <1>4 DEF Holds

(* Every step of the page and of the ledger keeps it.                      *)
LEMMA BetweenStep ==
    BetweenInv /\ (Between!Next \/ UNCHANGED betweenVars) => BetweenInv'
<1> SUFFICES ASSUME BetweenInv, Between!Next \/ UNCHANGED betweenVars PROVE BetweenInv'
  OBVIOUS
<1>1. /\ Total \in Nat /\ MaxAccounts \in Nat /\ BetweenRetries \in Nat
      /\ balance \in Seq(Nat) /\ Len(balance) \in 1..MaxAccounts /\ Holds(balance)
      /\ betweenShown \in Seq(Nat) /\ Len(betweenShown) <= Len(balance)
      /\ Len(betweenShown) \in Nat /\ Len(betweenShown) <= MaxAccounts
      /\ fromAccountId \in Between!Id
      /\ toAccountId \in Between!Id \cup {Between!NoAccount}
      /\ betweenCalls \in Seq(BetweenCall)
  BY BetweenConstants DEF BetweenConstants, BetweenInv, Holds
<1>2. DOMAIN betweenShown \subseteq Between!Id /\ DOMAIN balance \subseteq Between!Id
  BY <1>1 DEF Between!Account, Between!Id
<1>3. Between!FormShown <=> Len(betweenShown) > 1
  BY <1>1, Places, BetweenCount DEF Between!FormShown
<1>4. ASSUME NEW from \in Between!Id, NEW to \in Between!Id \cup {Between!NoAccount},
             Between!Choose(betweenShown, from, to),
             UNCHANGED <<balance, betweenCalls, betweenShown, betweenAmount, betweenWins>>
      PROVE  BetweenInv'
  <2>1. /\ fromAccountId' \in Between!Id
        /\ toAccountId' \in Between!Id \cup {Between!NoAccount}
        /\ Len(betweenShown) > 1 => fromAccountId' # toAccountId'
    BY <1>1, <1>4, Chosen
  <2>2. EndedOf(betweenCalls') = EndedOf(betweenCalls)
    BY <1>4 DEF EndedOf, MadeOf
  <2>3. QED
    BY <1>4, <2>1, <2>2 DEF BetweenInv, Holds
<1>5. CASE Between!ChooseSource
  BY <1>1, <1>2, <1>4, <1>5 DEF Between!ChooseSource, Between!backend
<1>6. CASE Between!ChooseDestination
  BY <1>1, <1>2, <1>4, <1>6 DEF Between!ChooseDestination, Between!backend
<1>7. CASE Between!HandleSwap
  <2>1. toAccountId \in Between!Id /\ Between!Choose(betweenShown, toAccountId, fromAccountId)
    BY <1>2, <1>7 DEF Between!HandleSwap
  <2>2. QED
    BY <1>1, <1>4, <1>7, <2>1 DEF Between!HandleSwap, Between!backend
<1>8. ASSUME betweenAmount' \in Between!Cents,
             UNCHANGED <<balance, betweenShown, fromAccountId, toAccountId>>,
             betweenCalls' \in Seq(BetweenCall), betweenWins' \in Nat,
             betweenWins' <= Cardinality(EndedOf(betweenCalls'))
      PROVE  BetweenInv'
  BY <1>8 DEF BetweenInv, Holds
<1>9. ASSUME betweenAmount' \in Between!Cents,
             UNCHANGED <<balance, betweenShown, fromAccountId, toAccountId, betweenCalls, betweenWins>>
      PROVE  BetweenInv'
  <2>1. EndedOf(betweenCalls') = EndedOf(betweenCalls)
    BY <1>9 DEF EndedOf, MadeOf
  <2>2. QED
    BY <1>8, <1>9, <2>1 DEF BetweenInv
<1>10. CASE Between!EnterAmount
  BY <1>9, <1>10 DEF Between!EnterAmount, Between!backend
<1>11. CASE Between!HandleQuickChip
  <2>1. betweenShown[fromAccountId] \in Between!Cents
    <3>1. Holds(betweenShown) /\ fromAccountId \in DOMAIN betweenShown
      BY <1>1, <1>11 DEF Between!HandleQuickChip, BetweenInv
    <3>2. betweenShown[fromAccountId] \in Nat
      BY <1>1, <3>1
    <3>3. betweenShown[fromAccountId] <= Total
      BY <3>1, <3>2, CoinsBound DEF Holds
    <3>4. QED
      BY <1>1, <3>2, <3>3 DEF Between!Cents
  <2>2. QED
    BY <1>9, <1>11, <2>1 DEF Between!HandleQuickChip, Between!backend
<1>12. ASSUME NEW b, NEW s, Holds(b), s = b \/ (s = betweenShown /\ Len(betweenShown) <= Len(b)),
              balance' = b, betweenShown' = s, Between!Choose(s, fromAccountId, toAccountId),
              UNCHANGED <<betweenCalls, betweenAmount, betweenWins>>
       PROVE  BetweenInv'
  <2>1. s \in Seq(Nat) /\ Len(s) <= MaxAccounts /\ Len(s) <= Len(b)
    BY <1>1, <1>12 DEF Holds
  <2>2. /\ fromAccountId' \in Between!Id
        /\ toAccountId' \in Between!Id \cup {Between!NoAccount}
        /\ Len(s) > 1 => fromAccountId' # toAccountId'
    BY <1>1, <1>12, <2>1, Chosen
  <2>3. EndedOf(betweenCalls') = EndedOf(betweenCalls)
    BY <1>12 DEF EndedOf, MadeOf
  <2>4. s # <<>> => Holds(s)
    BY <1>12 DEF BetweenInv
  <2>5. Holds(balance') /\ (betweenShown' # <<>> => Holds(betweenShown'))
    BY <1>12, <2>4
  <2>6. QED
    BY <1>12, <2>1, <2>2, <2>3, <2>5 DEF BetweenInv
<1>13. CASE Between!AccountsLoaded
  <2>1. /\ balance' = balance /\ betweenShown' = balance
        /\ Between!Choose(balance, fromAccountId, toAccountId)
        /\ UNCHANGED <<betweenCalls, betweenAmount, betweenWins>>
    BY <1>13 DEF Between!AccountsLoaded, Between!backend
  <2>2. QED
    BY <1>1, <1>12, <2>1
<1>14. CASE Between!HandleCreateDefaultSavings
  <2>1. /\ UNCHANGED <<balance, betweenShown, fromAccountId, toAccountId, betweenCalls, betweenWins>>
        /\ betweenAmount' = betweenAmount
    BY <1>14 DEF Between!HandleCreateDefaultSavings, Between!backend, Between!form
  <2>2. QED
    BY <1>9, <2>1 DEF BetweenInv
<1>15. CASE Between!SavingsCreated
  <2>0. PICK ending \in Between!Contract!Ending :
          \E n \in Between!Contract!Effects(ending) :
            /\ Len(balance) + n <= MaxAccounts
            /\ balance' = balance \o [i \in 1..n |-> 0]
            /\ betweenShown' = IF ending = "data" THEN balance' ELSE betweenShown
            /\ Between!Choose(betweenShown', fromAccountId, toAccountId)
            /\ UNCHANGED <<betweenCalls, betweenAmount, betweenWins>>
    BY <1>15, Zenon DEF Between!SavingsCreated
  <2>1. PICK n \in Between!Contract!Effects(ending) :
            /\ Len(balance) + n <= MaxAccounts
            /\ balance' = balance \o [i \in 1..n |-> 0]
            /\ betweenShown' = IF ending = "data" THEN balance' ELSE betweenShown
            /\ Between!Choose(betweenShown', fromAccountId, toAccountId)
            /\ UNCHANGED <<betweenCalls, betweenAmount, betweenWins>>
    BY <2>0
  <2>2. n \in Nat
    BY <1>1 DEF Between!Contract!Effects, Between!Contract!Ending
  <2>3. /\ balance' \in Seq(Nat) /\ Len(balance') = Len(balance) + n
        /\ Between!Coins(balance') = Between!Coins(balance)
    BY <1>1, <2>1, <2>2, CoinsPadded
  <2>4. Holds(balance')
    BY <1>1, <2>1, <2>2, <2>3 DEF Holds
  <2>5. Len(betweenShown) <= Len(balance')
    BY <1>1, <2>2, <2>3
  <2>6. QED
    BY <1>12, <2>1, <2>4, <2>5
<1>16. CASE Between!HandleSubmit
  <2> DEFINE new == [from |-> fromAccountId, to |-> toAccountId, cents |-> betweenAmount,
                     ending |-> "pending", runs |-> 0]
  <2>1. /\ betweenCalls' = Append(betweenCalls, new)
        /\ UNCHANGED <<balance, betweenShown, fromAccountId, toAccountId, betweenAmount, betweenWins>>
        /\ toAccountId # Between!NoAccount
    BY <1>16 DEF Between!HandleSubmit, Between!form
  <2>2. new \in BetweenCall
    BY <1>1, <2>1 DEF BetweenCall, BetweenInv
  <2>3. /\ betweenCalls' \in Seq(BetweenCall) /\ Len(betweenCalls') = Len(betweenCalls) + 1
        /\ betweenCalls'[Len(betweenCalls) + 1] = new
        /\ \A i \in DOMAIN betweenCalls : betweenCalls'[i] = betweenCalls[i]
        /\ DOMAIN betweenCalls' = DOMAIN betweenCalls \cup {Len(betweenCalls) + 1}
    BY <1>1, <2>1, <2>2
  <2>4. EndedOf(betweenCalls') = EndedOf(betweenCalls)
    BY <2>3 DEF EndedOf, MadeOf
  <2>5. QED
    BY <1>8, <2>1, <2>3, <2>4 DEF BetweenInv
<1>17. CASE Between!ExecuteInternalTransfer
  <2>1. PICK i \in DOMAIN betweenCalls :
            /\ Between!MayMove(betweenCalls[i].from, betweenCalls[i].to, betweenCalls[i].cents)
            /\ balance' = Between!Moved(betweenCalls[i].from, betweenCalls[i].to, betweenCalls[i].cents)
            /\ betweenCalls' = [betweenCalls EXCEPT ![i].runs = @ + 1]
            /\ UNCHANGED <<betweenShown, fromAccountId, toAccountId, betweenAmount, betweenWins>>
    BY <1>17 DEF Between!ExecuteInternalTransfer, Between!form
  <2>a. betweenCalls[i] \in BetweenCall
    BY <1>1
  <2>2. betweenCalls[i] \in BetweenCall /\ betweenCalls[i].cents \in Nat /\ betweenCalls[i].runs \in Nat
    BY <1>1, <2>a DEF BetweenCall, Between!Cents
  <2>3. Holds(balance') /\ Len(balance') = Len(balance)
    BY <1>1, <2>1, <2>2, MovedHolds
  <2> DEFINE new == [betweenCalls[i] EXCEPT !.runs = @ + 1]
  <2>4. new \in BetweenCall /\ new.runs = betweenCalls[i].runs + 1 /\ new.ending = betweenCalls[i].ending
    BY <2>2 DEF BetweenCall
  <2>5. /\ betweenCalls' \in Seq(BetweenCall) /\ DOMAIN betweenCalls' = DOMAIN betweenCalls
        /\ betweenCalls'[i] = new
        /\ \A j \in DOMAIN betweenCalls : j # i => betweenCalls'[j] = betweenCalls[j]
    <3>1. betweenCalls' = [betweenCalls EXCEPT ![i] = new]
      BY <2>1
    <3> HIDE DEF new
    <3>2. QED
      BY <1>1, <2>4, <3>1, Replaced
  <2>6. EndedOf(betweenCalls) \subseteq EndedOf(betweenCalls')
    <3>1. new.runs > 0 /\ new.ending = betweenCalls[i].ending
      BY <2>2, <2>4
    <3> HIDE DEF new
    <3>2. QED
      BY <2>5, <3>1 DEF EndedOf, MadeOf
  <2>7. IsFiniteSet(EndedOf(betweenCalls')) /\ Cardinality(EndedOf(betweenCalls')) \in Nat
    BY <2>5, CallsAreFew
  <2>8. Cardinality(EndedOf(betweenCalls)) <= Cardinality(EndedOf(betweenCalls')) /\ Cardinality(EndedOf(betweenCalls)) \in Nat
    BY <1>1, <2>6, <2>7, FS_Subset, CallsAreFew
  <2>9. betweenWins \in Nat /\ betweenWins <= Cardinality(EndedOf(betweenCalls'))
    BY <2>7, <2>8 DEF BetweenInv
  <2>10. QED
    BY <2>1, <2>3, <2>5, <2>9 DEF BetweenInv
<1>18. CASE Between!MovedElsewhere
  <2>1. PICK from \in DOMAIN balance, to \in DOMAIN balance, cents \in 1..Total :
            /\ Between!MayMove(from, to, cents) /\ balance' = Between!Moved(from, to, cents)
            /\ UNCHANGED <<betweenCalls, betweenShown, fromAccountId, toAccountId, betweenAmount, betweenWins>>
    BY <1>18 DEF Between!MovedElsewhere, Between!form
  <2>2. cents \in Nat
    OBVIOUS
  <2>3. Holds(balance') /\ Len(balance') = Len(balance)
    BY <1>1, <2>1, <2>2, MovedHolds
  <2>4. EndedOf(betweenCalls') = EndedOf(betweenCalls)
    BY <2>1 DEF EndedOf, MadeOf
  <2>5. QED
    BY <2>1, <2>3, <2>4 DEF BetweenInv
<1>19. CASE Between!SubmitEnds
  <2>1. PICK i \in DOMAIN betweenCalls, ending \in Between!Contract!Ending :
            /\ betweenCalls[i].ending = "pending"
            /\ betweenCalls[i].runs \in Between!Contract!Effects(ending)
            /\ betweenCalls' = [betweenCalls EXCEPT ![i].ending = ending]
            /\ IF ending = "data" THEN betweenAmount' = 0 /\ betweenWins' = betweenWins + 1
                                  ELSE UNCHANGED <<betweenAmount, betweenWins>>
            /\ UNCHANGED <<balance, betweenShown, fromAccountId, toAccountId>>
    BY <1>19 DEF Between!SubmitEnds
  <2>a. betweenCalls[i] \in BetweenCall
    BY <1>1
  <2>2. betweenCalls[i] \in BetweenCall /\ betweenCalls[i].runs \in Nat
    BY <2>a DEF BetweenCall
  <2> DEFINE new == [betweenCalls[i] EXCEPT !.ending = ending]
  <2>3. new \in BetweenCall /\ new.runs = betweenCalls[i].runs /\ new.ending # "pending"
    BY <2>2 DEF BetweenCall, Between!Contract!Ending
  <2>4. /\ betweenCalls' \in Seq(BetweenCall) /\ DOMAIN betweenCalls' = DOMAIN betweenCalls
        /\ betweenCalls'[i] = new
        /\ \A j \in DOMAIN betweenCalls : j # i => betweenCalls'[j] = betweenCalls[j]
    BY <1>1, <2>1, <2>3
  <2>5. MadeOf(betweenCalls') = MadeOf(betweenCalls) /\ i \notin EndedOf(betweenCalls)
    BY <2>1, <2>3, <2>4 DEF EndedOf, MadeOf
  <2>6. EndedOf(betweenCalls') = EndedOf(betweenCalls) \cup (IF betweenCalls[i].runs > 0 THEN {i} ELSE {})
    BY <2>1, <2>3, <2>4, <2>5 DEF EndedOf, MadeOf
  <2>7. IsFiniteSet(EndedOf(betweenCalls)) /\ Cardinality(EndedOf(betweenCalls)) \in Nat
    BY <1>1, CallsAreFew
  <2>8. /\ betweenCalls[i].runs > 0 => Cardinality(EndedOf(betweenCalls')) = Cardinality(EndedOf(betweenCalls)) + 1
        /\ ~(betweenCalls[i].runs > 0) => EndedOf(betweenCalls') = EndedOf(betweenCalls)
    BY <2>5, <2>6, <2>7, FS_AddElement
  <2>9. ending = "data" => betweenCalls[i].runs > 0
    BY <2>1 DEF Between!Contract!Effects
  <2>10. betweenWins' \in Nat /\ betweenWins' <= Cardinality(EndedOf(betweenCalls'))
    BY <2>1, <2>7, <2>8, <2>9 DEF BetweenInv
  <2>11. betweenAmount' \in Between!Cents
    BY <1>1, <2>1 DEF BetweenInv, Between!Cents
  <2>12. QED
    BY <1>8, <2>1, <2>4, <2>10, <2>11
<1>20. CASE UNCHANGED betweenVars
  BY <1>9, <1>20 DEF betweenVars, BetweenInv
<1>21. QED
  BY <1>5, <1>6, <1>7, <1>10, <1>11, <1>13, <1>14, <1>15, <1>16, <1>17, <1>18, <1>19, <1>20
  DEF Between!Next

(* The flags, of which one step sets at most one.                          *)
LEMMA BetweenFlagsStep ==
    BetweenFlags /\ (Between!Next \/ UNCHANGED betweenVars) => BetweenFlags'
<1> SUFFICES ASSUME BetweenFlags, Between!Next \/ UNCHANGED betweenVars PROVE BetweenFlags'
  OBVIOUS
<1>1. /\ UNCHANGED betweenLoading \/ betweenLoading' = TRUE \/ betweenLoading' = FALSE
      /\ UNCHANGED creatingSavings \/ creatingSavings' = TRUE \/ creatingSavings' = FALSE
  BY DEF Between!Next, betweenVars, Between!ChooseSource, Between!ChooseDestination,
     Between!HandleSwap, Between!EnterAmount, Between!HandleQuickChip, Between!AccountsLoaded,
     Between!HandleCreateDefaultSavings, Between!SavingsCreated, Between!HandleSubmit,
     Between!ExecuteInternalTransfer, Between!MovedElsewhere, Between!SubmitEnds
<1>2. QED
  BY <1>1, Zenon DEF BetweenFlags

(* The invariant gives what the screen owes.                               *)
LEMMA BetweenFacts ==
    BetweenInv => Between!MoneyKept /\ Between!FormSeparates /\ Between!SuccessIsBacked
<1> SUFFICES ASSUME BetweenInv
             PROVE  Between!MoneyKept /\ Between!FormSeparates /\ Between!SuccessIsBacked
  OBVIOUS
<1>1. Between!MoneyKept
  BY BetweenCount DEF BetweenInv, Holds, Between!MoneyKept, Between!Money
<1>2. Between!FormSeparates
  BY Places, BetweenCount DEF BetweenInv, Between!FormSeparates, Between!FormShown
<1>3. Between!SuccessIsBacked
  <2>1. /\ Cardinality(EndedOf(betweenCalls)) <= Cardinality(MadeOf(betweenCalls))
        /\ Cardinality(EndedOf(betweenCalls)) \in Nat /\ Cardinality(MadeOf(betweenCalls)) \in Nat
    BY CallsAreFew DEF BetweenInv
  <2>2. betweenWins <= Cardinality(MadeOf(betweenCalls))
    BY <2>1 DEF BetweenInv
  <2>3. QED
    BY <2>2, BetweenCount DEF MadeOf, Between!SuccessIsBacked
<1>4. QED
  BY <1>1, <1>2, <1>3

(* So are the types.                                                       *)
LEMMA BetweenTypeOK == BetweenInv /\ BetweenFlags => Between!TypeOK
<1> SUFFICES ASSUME BetweenInv, BetweenFlags PROVE Between!TypeOK
  OBVIOUS
<1>1. Total \in Nat
  BY BetweenConstants DEF BetweenConstants
<1>2. ASSUME NEW b, Holds(b), NEW a \in DOMAIN b PROVE b[a] \in Between!Cents
  <2>1. b[a] \in Nat /\ IsFiniteSet(Between!Coins(b)) /\ Cardinality(Between!Coins(b)) = Total
    BY <1>2 DEF Holds
  <2>2. b[a] <= Total
    BY <2>1, CoinsBound
  <2>3. QED
    BY <1>1, <2>1, <2>2 DEF Between!Cents
<1>3. balance \in UNION {[1..n -> Between!Cents] : n \in Between!Account}
  <2>1. Holds(balance) /\ balance \in Seq(Nat) /\ Len(balance) \in Between!Account
    BY DEF BetweenInv, Holds, Between!Account
  <2>2. balance \in [1..Len(balance) -> Between!Cents]
    BY <1>2, <2>1
  <2>3. QED
    BY <2>1, <2>2
<1>4. DOMAIN betweenShown \subseteq DOMAIN balance
  BY DEF BetweenInv, Holds
<1>5. \A a \in DOMAIN betweenShown : betweenShown[a] \in Between!Cents
  <2>1. DOMAIN betweenShown # {} => Holds(betweenShown)
    BY DEF BetweenInv
  <2>2. QED
    BY <1>2, <2>1
<1>6. \A i \in DOMAIN betweenCalls : betweenCalls[i] \in BetweenCall
  BY DEF BetweenInv
<1>7. betweenWins \in 0..Len(betweenCalls)
  <2>1. /\ Cardinality(EndedOf(betweenCalls)) <= Cardinality(MadeOf(betweenCalls))
        /\ Cardinality(MadeOf(betweenCalls)) <= Len(betweenCalls) /\ Len(betweenCalls) \in Nat
        /\ Cardinality(EndedOf(betweenCalls)) \in Nat /\ Cardinality(MadeOf(betweenCalls)) \in Nat
    BY CallsAreFew, Places DEF BetweenInv
  <2>2. QED
    BY <2>1 DEF BetweenInv
<1>8. /\ fromAccountId \in Between!Id /\ betweenAmount \in Between!Cents
      /\ toAccountId \in Between!Id \cup {Between!NoAccount}
  BY DEF BetweenInv
<1>9. QED
  BY <1>3, <1>4, <1>5, <1>6, <1>7, <1>8, Zenon DEF Between!TypeOK, BetweenFlags, BetweenCall

-----------------------------------------------------------------------------
(* Vaults.                                                                 *)

Creation == [waiting : BOOLEAN, counted : -1..MaxOwners, runs : Nat]

(* The creations that ended and were carried out.                          *)
EndedCreations(c) == {i \in MadeOf(c) : ~c[i].waiting}

VaultTransfer == [stage : Vaults!Stage, mode : Vaults!Mode]

(* A request to move money, and the way it moves it: the first account is  *)
(* the user's main one.                                                    *)
VaultMove == [from : Nat, to : Nat, runs : Nat, done : BOOLEAN, told : Vaults!Mode \cup {"none"}]
Direction(m) == IF m.from = 1 THEN "deposit" ELSE "withdraw"
MovesTo(m, mine) ==
    /\ 1 \in {m.from, m.to}
    /\ m.runs > 0 => {m.from, m.to} \subseteq mine

(* The first account is the user's, and with it all that was moved.        *)
VaultAccounts ==
    /\ owner \in Seq({"me", "other"}) /\ Len(owner) \in 1..MaxOwners /\ owner[1] = "me"
    /\ vaultShown \subseteq Vaults!Mine
    /\ \A i \in DOMAIN sent : MovesTo(sent[i], Vaults!Mine)

(* The last request is of the transfer under way, in the mode it was       *)
(* confirmed with, and was carried out before it is reported.              *)
VaultTold ==
    /\ transfer \in VaultTransfer
    /\ sent \in Seq(VaultMove) /\ Len(sent) <= MaxMoves
    /\ \A i \in DOMAIN sent :
           sent[i].told # "none" => sent[i].runs > 0 /\ sent[i].told = Direction(sent[i])
    /\ transfer.stage \in {"creating", "reloading"} => Len(sent) < MaxMoves
    /\ transfer.stage \in {"moving", "refreshing"} =>
           Len(sent) > 0 /\ Direction(sent[Len(sent)]) = transfer.mode
    /\ transfer.stage = "refreshing" => sent[Len(sent)].runs > 0

(* Every confirmation has a creation that ended and was carried out, every *)
(* creation that was carried out an account.                               *)
VaultCreations ==
    /\ creations \in Seq(Creation) /\ Len(creations) <= MaxCreations
    /\ creating \in 0..Len(creations)
    /\ creating # 0 => creations[creating].waiting
    /\ confirmed \in Nat /\ confirmed <= Cardinality(EndedCreations(creations))
    /\ Cardinality(MadeOf(creations)) <= Cardinality(Vaults!Subs)

VaultFlags ==
    /\ isOpen \in BOOLEAN /\ error \in BOOLEAN /\ isCreating \in BOOLEAN
    /\ initialMode \in Vaults!Mode /\ mode \in Vaults!Mode

(* The vaults are counted with the same cardinality.                       *)
LEMMA VaultCount == \A S : Vaults!Cardinality(S) = Cardinality(S)
  BY DEF Vaults!Cardinality, Cardinality

(* The first account stays the main one.                                   *)
LEMMA MainIsFirst ==
    ASSUME NEW o \in Seq({"me", "other"}), Len(o) >= 1, o[1] = "me"
    PROVE  Vaults!Min({a \in DOMAIN o : o[a] = "me"}) = 1
<1> DEFINE S == {a \in DOMAIN o : o[a] = "me"}
<1>1. 1 \in S /\ \A a \in S : a \in Nat /\ 1 <= a
  OBVIOUS
<1> HIDE DEF S
<1>2. \A x \in S : (\A y \in S : x <= y) => x = 1
  BY <1>1
<1>3. (CHOOSE x \in S : \A y \in S : x <= y) = 1
  BY <1>1, <1>2
<1>4. QED
  BY <1>3 DEF S, Vaults!Min

(* The main account is the first one, and every other account of the       *)
(* customer is a vault.                                                    *)
LEMMA VaultMain ==
    VaultAccounts =>
        /\ Vaults!Main = 1 /\ 1 \in Vaults!Mine /\ Vaults!Mine \subseteq 1..Len(owner)
        /\ Vaults!Subs = Vaults!Mine \ {1}
        /\ IsFiniteSet(Vaults!Subs) /\ Cardinality(Vaults!Subs) \in 0..MaxOwners
<1> SUFFICES ASSUME VaultAccounts
             PROVE  /\ Vaults!Main = 1 /\ 1 \in Vaults!Mine /\ Vaults!Mine \subseteq 1..Len(owner)
                    /\ Vaults!Subs = Vaults!Mine \ {1}
                    /\ IsFiniteSet(Vaults!Subs) /\ Cardinality(Vaults!Subs) \in 0..MaxOwners
  OBVIOUS
<1>1. /\ owner \in Seq({"me", "other"}) /\ Len(owner) \in 1..MaxOwners /\ owner[1] = "me"
      /\ MaxOwners \in Nat
  BY VaultConstants DEF VaultConstants, VaultAccounts
<1>2. Vaults!Main = 1
  BY <1>1, MainIsFirst DEF Vaults!Main, Vaults!Mine
<1>3. 1 \in Vaults!Mine /\ Vaults!Mine \subseteq 1..Len(owner)
  BY <1>1 DEF Vaults!Mine
<1>4. Vaults!Subs = Vaults!Mine \ {1}
  BY <1>2 DEF Vaults!Subs
<1>5. IsFiniteSet(DOMAIN owner) /\ Cardinality(DOMAIN owner) = Len(owner) /\ DOMAIN owner = 1..Len(owner)
  BY <1>1, Places
<1>6. Vaults!Subs \in SUBSET DOMAIN owner
  BY <1>3, <1>4, <1>5
<1>7. IsFiniteSet(Vaults!Subs) /\ Cardinality(Vaults!Subs) <= Len(owner)
  BY <1>5, <1>6, FS_Subset
<1>8. Cardinality(Vaults!Subs) \in Nat
  BY <1>7, FS_CardinalityType
<1>9. QED
  BY <1>1, <1>2, <1>3, <1>4, <1>7, <1>8

(* Creations are as few as the requests.                                   *)
LEMMA CreationsAreFew ==
    ASSUME NEW S, NEW c \in Seq(S)
    PROVE  /\ MadeOf(c) \subseteq DOMAIN c /\ EndedCreations(c) \subseteq MadeOf(c)
           /\ IsFiniteSet(MadeOf(c)) /\ IsFiniteSet(EndedCreations(c))
           /\ Cardinality(MadeOf(c)) \in Nat /\ Cardinality(EndedCreations(c)) \in Nat
           /\ Cardinality(MadeOf(c)) <= Len(c)
           /\ Cardinality(EndedCreations(c)) <= Cardinality(MadeOf(c))
<1>1. /\ MadeOf(c) \subseteq DOMAIN c /\ IsFiniteSet(MadeOf(c))
      /\ Cardinality(MadeOf(c)) \in Nat /\ Cardinality(MadeOf(c)) <= Len(c)
  BY CallsAreFew
<1>2. EndedCreations(c) \in SUBSET MadeOf(c)
  BY DEF EndedCreations
<1>3. IsFiniteSet(EndedCreations(c)) /\ Cardinality(EndedCreations(c)) <= Cardinality(MadeOf(c))
  BY <1>1, <1>2, FS_Subset
<1>4. Cardinality(EndedCreations(c)) \in Nat
  BY <1>3, FS_CardinalityType
<1>5. QED
  BY <1>1, <1>2, <1>3, <1>4

(* A customer with a main account only keeps the invariant of the vaults.  *)
LEMMA VaultInit == Vaults!Init => VaultAccounts /\ VaultTold /\ VaultCreations /\ VaultFlags
<1> SUFFICES ASSUME Vaults!Init PROVE VaultAccounts /\ VaultTold /\ VaultCreations /\ VaultFlags
  OBVIOUS
<1>0. MaxOwners \in Nat /\ MaxOwners >= 2 /\ MaxCreations \in Nat /\ MaxMoves \in Nat
  BY VaultConstants DEF VaultConstants
<1>1. /\ owner \in {<<"me">>, <<"me", "other">>, <<"me", "me">>}
      /\ creations = <<>> /\ sent = <<>> /\ vaultShown = Vaults!Mine /\ transfer = Vaults!NoTransfer
      /\ creating = 0 /\ confirmed = 0
  BY DEF Vaults!Init
<1>2. VaultAccounts
  <2>1. owner \in Seq({"me", "other"}) /\ Len(owner) \in 1..MaxOwners /\ owner[1] = "me"
    <3>1. CASE owner = <<"me">>
      BY <1>0, <3>1
    <3>2. CASE owner = <<"me", "other">>
      BY <1>0, <3>2
    <3>3. CASE owner = <<"me", "me">>
      BY <1>0, <3>3
    <3>4. QED
      BY <1>1, <3>1, <3>2, <3>3
  <2>2. DOMAIN sent = {}
    BY <1>1
  <2>3. QED
    BY <1>1, <2>1, <2>2 DEF VaultAccounts
<1>3. VaultTold
  <2>1. transfer \in VaultTransfer /\ transfer.stage = "none"
    BY <1>1 DEF Vaults!NoTransfer, VaultTransfer, Vaults!Stage, Vaults!Mode
  <2>2. sent \in Seq(VaultMove) /\ Len(sent) = 0 /\ DOMAIN sent = {}
    BY <1>1
  <2>3. QED
    BY <1>0, <2>1, <2>2 DEF VaultTold
<1>4. VaultCreations
  <2>1. creations \in Seq(Creation) /\ Len(creations) = 0
    BY <1>1
  <2>2. MadeOf(creations) = {} /\ EndedCreations(creations) = {}
    BY <1>1 DEF MadeOf, EndedCreations
  <2>3. Cardinality(MadeOf(creations)) = 0 /\ Cardinality(EndedCreations(creations)) = 0
    BY <2>2, FS_EmptySet
  <2>4. Cardinality(Vaults!Subs) >= 0
    BY <1>0, <1>2, VaultMain
  <2>5. QED
    BY <1>0, <1>1, <2>1, <2>3, <2>4 DEF VaultCreations
<1>5. VaultFlags
  BY Zenon DEF Vaults!Init, VaultFlags, Vaults!Mode
<1>6. QED
  BY <1>2, <1>3, <1>4, <1>5

(* A new account is nobody's main account.                                 *)
LEMMA OwnerGrown ==
    ASSUME VaultAccounts, NEW who \in {"me", "other"}, Len(owner) < MaxOwners,
           owner' = Append(owner, who)
    PROVE  /\ owner' \in Seq({"me", "other"}) /\ Len(owner') \in 1..MaxOwners /\ owner'[1] = "me"
           /\ Vaults!Mine' = Vaults!Mine \cup (IF who = "me" THEN {Len(owner) + 1} ELSE {})
           /\ Len(owner) + 1 \notin Vaults!Mine /\ Len(owner) + 1 # 1
           /\ Vaults!Main' = 1
<1>1. /\ owner \in Seq({"me", "other"}) /\ Len(owner) \in 1..MaxOwners /\ owner[1] = "me"
      /\ MaxOwners \in Nat
  BY VaultConstants DEF VaultConstants, VaultAccounts
<1>2. /\ owner' \in Seq({"me", "other"})
      /\ DOMAIN owner' = DOMAIN owner \cup {Len(owner) + 1} /\ Len(owner') = Len(owner) + 1
      /\ Len(owner) + 1 \notin DOMAIN owner /\ Len(owner) \in Nat
      /\ owner'[Len(owner) + 1] = who
      /\ \A j \in DOMAIN owner : owner'[j] = owner[j]
  BY <1>1, Appended
<1>3. 1 \in DOMAIN owner /\ Len(owner') \in 1..MaxOwners /\ Len(owner) + 1 # 1
  BY <1>1, <1>2
<1>4. owner'[1] = "me"
  BY <1>1, <1>2, <1>3
<1>5. Vaults!Mine' = Vaults!Mine \cup (IF who = "me" THEN {Len(owner) + 1} ELSE {})
  BY <1>2 DEF Vaults!Mine
<1>6. Len(owner) + 1 \notin Vaults!Mine
  BY <1>2 DEF Vaults!Mine
<1>7. Vaults!Main' = 1
  <2> DEFINE o == owner'
  <2>1. o \in Seq({"me", "other"}) /\ Len(o) >= 1 /\ o[1] = "me"
    BY <1>2, <1>3, <1>4
  <2> HIDE DEF o
  <2>2. Vaults!Min({a \in DOMAIN o : o[a] = "me"}) = 1
    BY <2>1, MainIsFirst
  <2>3. QED
    BY <2>2 DEF o, Vaults!Main, Vaults!Mine
<1>8. QED
  BY <1>2, <1>3, <1>4, <1>5, <1>6, <1>7

(* The account taken for the vault is one of the user's others.            *)
LEMMA SavingsIsAnother ==
    ASSUME VaultAccounts, Vaults!SavingsAccount # 0
    PROVE  Vaults!SavingsAccount \in Nat /\ Vaults!SavingsAccount # 1
<1>1. /\ Vaults!Main = 1 /\ Vaults!Mine \subseteq Nat /\ vaultShown \subseteq Vaults!Mine
  BY VaultMain DEF VaultAccounts
<1> DEFINE S == vaultShown \ {1}
<1>2. S \subseteq Nat
  BY <1>1
<1>3. S # {}
  <2>1. SUFFICES ASSUME S = {} PROVE Vaults!SavingsAccount = 0
    OBVIOUS
  <2>2. vaultShown \in SUBSET {1}
    BY <2>1
  <2>3. IsFiniteSet({1}) /\ Cardinality({1}) = 1
    BY FS_Singleton
  <2>4. IsFiniteSet(vaultShown) /\ Cardinality(vaultShown) <= 1
    BY <2>2, <2>3, FS_Subset
  <2>5. Cardinality(vaultShown) \in Nat
    BY <2>4, FS_CardinalityType
  <2>6. QED
    BY <2>4, <2>5, VaultCount DEF Vaults!SavingsAccount
<1>4. Vaults!SavingsAccount = Vaults!Min(S)
  BY <1>1 DEF Vaults!SavingsAccount
<1> HIDE DEF S
<1>5. Vaults!Min(S) \in S
  BY <1>2, <1>3, FirstOther DEF Vaults!Min
<1>6. QED
  BY <1>2, <1>4, <1>5 DEF S

(* A request sent to move money between the main account and another.      *)
LEMMA MoveSent ==
    ASSUME VaultAccounts, VaultTold, NEW m \in Vaults!Mode, NEW v \in Nat, v # 1,
           Len(sent) < MaxMoves, Vaults!Send(m, v)
    PROVE  /\ sent' \in Seq(VaultMove) /\ Len(sent') \in Nat
           /\ Len(sent') > 0 /\ Len(sent') <= MaxMoves
           /\ Direction(sent'[Len(sent')]) = m
           /\ \A i \in DOMAIN sent' :
                 \/ i \in DOMAIN sent /\ sent'[i] = sent[i]
                 \/ /\ sent'[i].runs = 0 /\ sent'[i].told = "none"
                    /\ 1 \in {sent'[i].from, sent'[i].to}
<1> DEFINE new == [from |-> IF m = "deposit" THEN 1 ELSE v, to |-> IF m = "deposit" THEN v ELSE 1,
                   runs |-> 0, done |-> FALSE, told |-> "none"]
<1>1. sent' = Append(sent, new)
  BY VaultMain DEF Vaults!Send
<1>2. /\ new \in VaultMove /\ new.runs = 0 /\ new.told = "none" /\ Direction(new) = m
      /\ 1 \in {new.from, new.to}
  <2>1. CASE m = "deposit"
    BY <2>1 DEF VaultMove, Direction
  <2>2. CASE m = "withdraw"
    BY <2>2 DEF VaultMove, Direction
  <2>3. QED
    BY <2>1, <2>2 DEF Vaults!Mode
<1> HIDE DEF new
<1>3. sent \in Seq(VaultMove) /\ MaxMoves \in Nat
  BY VaultConstants DEF VaultConstants, VaultTold
<1>4. /\ sent' \in Seq(VaultMove) /\ Len(sent') = Len(sent) + 1 /\ Len(sent) \in Nat
      /\ DOMAIN sent' = DOMAIN sent \cup {Len(sent) + 1}
      /\ sent'[Len(sent) + 1] = new
      /\ \A j \in DOMAIN sent : sent'[j] = sent[j]
  BY <1>1, <1>2, <1>3, Appended
<1>5. QED
  BY <1>2, <1>3, <1>4

(* One of the requests is carried out, answered or told of.                *)
LEMMA MoveChanged ==
    ASSUME VaultTold, NEW i \in DOMAIN sent, NEW new \in VaultMove, sent' = [sent EXCEPT ![i] = new],
           new.from = sent[i].from, new.to = sent[i].to, new.runs >= sent[i].runs,
           \/ new.told = sent[i].told
           \/ new.runs > 0 /\ new.told = Direction(sent[i])
    PROVE  /\ sent' \in Seq(VaultMove) /\ Len(sent') = Len(sent) /\ DOMAIN sent' = DOMAIN sent
           /\ sent'[i] = new /\ \A j \in DOMAIN sent : j # i => sent'[j] = sent[j]
           /\ \A j \in DOMAIN sent :
                 /\ Direction(sent'[j]) = Direction(sent[j])
                 /\ sent[j].runs > 0 => sent'[j].runs > 0
                 /\ sent'[j].told # "none" =>
                       sent'[j].runs > 0 /\ sent'[j].told = Direction(sent'[j])
<1>1. sent \in Seq(VaultMove) /\ sent[i] \in VaultMove
  BY DEF VaultTold
<1>2. /\ sent' \in Seq(VaultMove) /\ Len(sent') = Len(sent) /\ DOMAIN sent' = DOMAIN sent
      /\ sent'[i] = new /\ \A j \in DOMAIN sent : j # i => sent'[j] = sent[j]
  BY <1>1, Replaced
<1>3. /\ Direction(new) = Direction(sent[i])
      /\ sent[i].runs > 0 => new.runs > 0
  BY <1>1 DEF Direction, VaultMove
<1>4. new.told # "none" => new.runs > 0 /\ new.told = Direction(new)
  BY <1>3 DEF VaultTold
<1>5. \A j \in DOMAIN sent : sent[j].told # "none" => sent[j].runs > 0 /\ sent[j].told = Direction(sent[j])
  BY DEF VaultTold
<1>6. QED
  BY <1>2, <1>3, <1>4, <1>5

(* What a step does to the requests: it sends one, changes one, or none.   *)
Carried(i) ==
    /\ {sent[i].from, sent[i].to} \subseteq Vaults!Mine
    /\ sent' = [sent EXCEPT ![i].runs = @ + 1]

(* Whatever the steps do, what is displayed and moved is the user's.       *)
LEMMA AccountsStep ==
    VaultAccounts /\ VaultTold /\ mode \in Vaults!Mode
    /\ (Vaults!Next \/ UNCHANGED vaultVars) => VaultAccounts'
<1> SUFFICES ASSUME VaultAccounts, VaultTold, mode \in Vaults!Mode, Vaults!Next \/ UNCHANGED vaultVars
             PROVE  VaultAccounts'
  OBVIOUS
<1>0. /\ Vaults!Main = 1 /\ sent \in Seq(VaultMove) /\ transfer.mode \in Vaults!Mode
      /\ \A i \in DOMAIN sent : sent[i] \in VaultMove
  BY VaultMain DEF VaultTold, VaultTransfer
<1>1. ASSUME UNCHANGED owner, vaultShown' \in {vaultShown, Vaults!Mine},
             \A i \in DOMAIN sent' : MovesTo(sent'[i], Vaults!Mine)
      PROVE  VaultAccounts'
  <2>1. Vaults!Mine' = Vaults!Mine
    BY <1>1 DEF Vaults!Mine
  <2>2. QED
    BY <1>1, <2>1 DEF VaultAccounts
<1>2. ASSUME NEW who \in {"me", "other"}, Len(owner) < MaxOwners, owner' = Append(owner, who),
             UNCHANGED <<vaultShown, sent>>
      PROVE  VaultAccounts'
  <2>1. /\ owner' \in Seq({"me", "other"}) /\ Len(owner') \in 1..MaxOwners /\ owner'[1] = "me"
        /\ Vaults!Mine \subseteq Vaults!Mine'
    BY <1>2, OwnerGrown
  <2>2. \A i \in DOMAIN sent' : MovesTo(sent'[i], Vaults!Mine')
    BY <1>2, <2>1 DEF VaultAccounts, MovesTo
  <2>3. QED
    BY <1>2, <2>1, <2>2 DEF VaultAccounts
<1>3. CASE Vaults!InsertSubAccount
  BY <1>2, <1>3 DEF Vaults!InsertSubAccount
<1>4. CASE Vaults!OtherAccountOpened
  BY <1>2, <1>4 DEF Vaults!OtherAccountOpened
<1>5. ASSUME NEW i \in DOMAIN sent, NEW new, sent' = [sent EXCEPT ![i] = new],
             new.from = sent[i].from, new.to = sent[i].to,
             new.runs > 0 => {new.from, new.to} \subseteq Vaults!Mine
      PROVE  \A j \in DOMAIN sent' : MovesTo(sent'[j], Vaults!Mine)
  <2>1. DOMAIN sent' = DOMAIN sent /\ sent'[i] = new
        /\ \A j \in DOMAIN sent : j # i => sent'[j] = sent[j]
    BY <1>0, <1>5
  <2>2. \A j \in DOMAIN sent : MovesTo(sent[j], Vaults!Mine)
    BY DEF VaultAccounts
  <2>3. MovesTo(new, Vaults!Mine)
    BY <1>5, <2>2 DEF MovesTo
  <2>4. QED
    BY <2>1, <2>2, <2>3
<1>6. ASSUME NEW m \in Vaults!Mode, NEW v \in Nat, v # 1, Len(sent) < MaxMoves, Vaults!Send(m, v)
      PROVE  \A i \in DOMAIN sent' : MovesTo(sent'[i], Vaults!Mine)
  <2>1. \A i \in DOMAIN sent' :
           \/ i \in DOMAIN sent /\ sent'[i] = sent[i]
           \/ sent'[i].runs = 0 /\ 1 \in {sent'[i].from, sent'[i].to}
    BY <1>6, MoveSent
  <2>2. QED
    BY <2>1 DEF VaultAccounts, MovesTo
<1>7. CASE Vaults!ExecuteInternalTransfer
  <2>1. PICK i \in DOMAIN sent : Carried(i) /\ UNCHANGED <<owner, vaultShown>>
    BY <1>7 DEF Vaults!ExecuteInternalTransfer, Carried
  <2> DEFINE new == [sent[i] EXCEPT !.runs = @ + 1]
  <2>2. /\ sent' = [sent EXCEPT ![i] = new] /\ new.from = sent[i].from /\ new.to = sent[i].to
        /\ {sent[i].from, sent[i].to} \subseteq Vaults!Mine
    BY <1>0, <2>1 DEF Carried, VaultMove
  <2> HIDE DEF new
  <2>3. \A j \in DOMAIN sent' : MovesTo(sent'[j], Vaults!Mine)
    BY <1>5, <2>2
  <2>4. QED
    BY <1>1, <2>1, <2>3
<1>8. CASE Vaults!HandleExecuteTransfer
  <2>1. /\ Len(sent) < MaxMoves /\ UNCHANGED <<owner, vaultShown>>
        /\ \/ Vaults!SavingsAccount # 0 /\ Vaults!Send(mode, Vaults!SavingsAccount)
           \/ UNCHANGED sent
    BY <1>8 DEF Vaults!HandleExecuteTransfer
  <2>2. \A i \in DOMAIN sent' : MovesTo(sent'[i], Vaults!Mine)
    <3>1. CASE Vaults!SavingsAccount # 0 /\ Vaults!Send(mode, Vaults!SavingsAccount)
      BY <1>6, <2>1, <3>1, SavingsIsAnother
    <3>2. CASE UNCHANGED sent
      BY <3>2 DEF VaultAccounts
    <3>3. QED
      BY <2>1, <3>1, <3>2
  <2>3. QED
    BY <1>1, <2>1, <2>2
<1>9. CASE Vaults!VaultReloaded
  <2>1. /\ transfer.stage = "reloading" /\ Vaults!Send(transfer.mode, Vaults!GuessedId)
        /\ UNCHANGED owner /\ vaultShown' \in {vaultShown, Vaults!Mine}
    BY <1>9 DEF Vaults!VaultReloaded, Vaults!Refresh
  <2>2. Len(sent) < MaxMoves
    BY <2>1 DEF VaultTold
  <2>3. Vaults!GuessedId \in Nat /\ Vaults!GuessedId # 1
    BY <1>0 DEF Vaults!GuessedId
  <2>4. \A i \in DOMAIN sent' : MovesTo(sent'[i], Vaults!Mine)
    BY <1>0, <1>6, <2>1, <2>2, <2>3
  <2>5. QED
    BY <1>1, <2>1, <2>4
<1>10. ASSUME NEW new, Len(sent) \in DOMAIN sent, sent' = [sent EXCEPT ![Len(sent)] = new],
              new.from = sent[Len(sent)].from, new.to = sent[Len(sent)].to,
              new.runs = sent[Len(sent)].runs
       PROVE  \A j \in DOMAIN sent' : MovesTo(sent'[j], Vaults!Mine)
  <2>1. new.runs > 0 => {new.from, new.to} \subseteq Vaults!Mine
    BY <1>10 DEF VaultAccounts, MovesTo
  <2>2. QED
    BY <1>5, <1>10, <2>1
<1>11. transfer.stage \in {"moving", "refreshing"} => Len(sent) \in DOMAIN sent
  BY DEF VaultTold
<1>12. CASE Vaults!Transferred
  <2>1. /\ transfer.stage = "moving" /\ UNCHANGED <<owner, vaultShown>>
        /\ sent' = [sent EXCEPT ![Len(sent)].done = TRUE]
    BY <1>12 DEF Vaults!Transferred
  <2> DEFINE new == [sent[Len(sent)] EXCEPT !.done = TRUE]
  <2>2. /\ sent' = [sent EXCEPT ![Len(sent)] = new] /\ new.from = sent[Len(sent)].from
        /\ new.to = sent[Len(sent)].to /\ new.runs = sent[Len(sent)].runs
    BY <1>0, <1>11, <2>1 DEF VaultMove
  <2> HIDE DEF new
  <2>3. \A j \in DOMAIN sent' : MovesTo(sent'[j], Vaults!Mine)
    BY <1>10, <1>11, <2>1, <2>2
  <2>4. QED
    BY <1>1, <2>1, <2>3
<1>13. CASE Vaults!TransferReported
  <2>1. /\ transfer.stage = "refreshing" /\ UNCHANGED owner
        /\ vaultShown' \in {vaultShown, Vaults!Mine}
        /\ sent' = [sent EXCEPT ![Len(sent)].told = Vaults!Announced]
    BY <1>13 DEF Vaults!TransferReported, Vaults!Refresh
  <2> DEFINE new == [sent[Len(sent)] EXCEPT !.told = Vaults!Announced]
  <2>2. /\ sent' = [sent EXCEPT ![Len(sent)] = new] /\ new.from = sent[Len(sent)].from
        /\ new.to = sent[Len(sent)].to /\ new.runs = sent[Len(sent)].runs
    BY <1>0, <1>11, <2>1 DEF VaultMove
  <2> HIDE DEF new
  <2>3. \A j \in DOMAIN sent' : MovesTo(sent'[j], Vaults!Mine)
    BY <1>10, <1>11, <2>1, <2>2
  <2>4. QED
    BY <1>1, <2>1, <2>3
<1>14. CASE \/ Vaults!CountSubAccounts \/ Vaults!OpenModal \/ Vaults!CloseModal \/ Vaults!SwitchMode
            \/ Vaults!VaultCreated \/ Vaults!TransferFailed
            \/ Vaults!OpenCreation \/ Vaults!CancelCreation \/ Vaults!HandleCreate
            \/ Vaults!CreationAnswered \/ Vaults!Polled \/ UNCHANGED vaultVars
  <2>1. UNCHANGED <<owner, sent>> /\ vaultShown' \in {vaultShown, Vaults!Mine}
    BY <1>14 DEF vaultVars, Vaults!backend, Vaults!CountSubAccounts, Vaults!OpenModal,
       Vaults!CloseModal, Vaults!SwitchMode, Vaults!VaultCreated,
       Vaults!TransferFailed, Vaults!OpenCreation, Vaults!CancelCreation, Vaults!HandleCreate,
       Vaults!CreationAnswered, Vaults!Polled, Vaults!Refresh
  <2>2. \A i \in DOMAIN sent' : MovesTo(sent'[i], Vaults!Mine)
    BY <2>1 DEF VaultAccounts
  <2>3. QED
    BY <1>1, <2>1, <2>2
<1>15. QED
  BY <1>3, <1>4, <1>7, <1>8, <1>9, <1>12, <1>13, <1>14 DEF Vaults!Next

(* The transfer under way, step by step.                                   *)
LEMMA ToldStep ==
    VaultAccounts /\ VaultTold /\ (Vaults!Next \/ UNCHANGED vaultVars)
    /\ mode \in Vaults!Mode => VaultTold'
<1> SUFFICES ASSUME VaultAccounts, VaultTold, Vaults!Next \/ UNCHANGED vaultVars, mode \in Vaults!Mode
             PROVE  VaultTold'
  OBVIOUS
<1>0. /\ transfer \in VaultTransfer /\ sent \in Seq(VaultMove) /\ Len(sent) \in Nat
      /\ \A i \in DOMAIN sent : sent[i] \in VaultMove
      /\ MaxMoves \in Nat /\ transfer.mode \in Vaults!Mode /\ Vaults!Main = 1
  BY VaultMain, VaultConstants DEF VaultConstants, VaultTold, VaultTransfer
<1>1. ASSUME UNCHANGED sent, transfer' \in VaultTransfer, transfer'.stage \in {"none", "creating", "reloading"},
             transfer'.stage # "none" => Len(sent) < MaxMoves
      PROVE  VaultTold'
  BY <1>1 DEF VaultTold
<1>2. CASE UNCHANGED <<sent, transfer>>
  BY <1>2 DEF VaultTold
<1>3. ASSUME NEW m \in Vaults!Mode, NEW v \in Nat, v # 1, Len(sent) < MaxMoves, Vaults!Send(m, v),
             transfer' \in VaultTransfer, transfer'.stage = "moving", transfer'.mode = m
      PROVE  VaultTold'
  <2>1. /\ sent' \in Seq(VaultMove) /\ Len(sent') > 0 /\ Len(sent') <= MaxMoves
        /\ Direction(sent'[Len(sent')]) = m
        /\ \A i \in DOMAIN sent' : \/ i \in DOMAIN sent /\ sent'[i] = sent[i]
                                   \/ sent'[i].told = "none"
    BY <1>3, MoveSent
  <2>2. \A i \in DOMAIN sent' :
           sent'[i].told # "none" => sent'[i].runs > 0 /\ sent'[i].told = Direction(sent'[i])
    BY <2>1 DEF VaultTold
  <2>3. QED
    BY <1>3, <2>1, <2>2 DEF VaultTold
<1>4. CASE Vaults!HandleExecuteTransfer
  <2>1. /\ transfer.stage = "none" /\ Len(sent) < MaxMoves
        /\ \/ /\ Vaults!SavingsAccount # 0 /\ Vaults!Send(mode, Vaults!SavingsAccount)
              /\ transfer' = [stage |-> "moving", mode |-> mode]
           \/ /\ UNCHANGED sent
              /\ transfer' = [stage |-> "creating", mode |-> mode]
    BY <1>4 DEF Vaults!HandleExecuteTransfer
  <2>2. CASE /\ Vaults!SavingsAccount # 0 /\ Vaults!Send(mode, Vaults!SavingsAccount)
             /\ transfer' = [stage |-> "moving", mode |-> mode]
    <3>1. transfer' \in VaultTransfer /\ transfer'.stage = "moving" /\ transfer'.mode = mode
      BY <2>2 DEF VaultTransfer, Vaults!Stage
    <3>2. QED
      BY <1>3, <2>1, <2>2, <3>1, SavingsIsAnother
  <2>3. CASE UNCHANGED sent /\ transfer' = [stage |-> "creating", mode |-> mode]
    <3>1. transfer' \in VaultTransfer /\ transfer'.stage = "creating"
      BY <2>3 DEF VaultTransfer, Vaults!Stage
    <3>2. QED
      BY <1>1, <2>1, <2>3, <3>1
  <2>4. QED
    BY <2>1, <2>2, <2>3
<1>5. Vaults!NoTransfer \in VaultTransfer /\ Vaults!NoTransfer.stage = "none"
  BY DEF VaultTransfer, Vaults!Stage, Vaults!NoTransfer, Vaults!Mode
<1>6. CASE Vaults!VaultCreated
  <2>1. /\ transfer.stage = "creating" /\ UNCHANGED sent
        /\ transfer' = [transfer EXCEPT !.stage = "reloading"] \/ transfer' = Vaults!NoTransfer
    BY <1>6 DEF Vaults!VaultCreated
  <2>2. transfer' \in VaultTransfer /\ transfer'.stage \in {"reloading", "none"}
    <3>1. CASE transfer' = [transfer EXCEPT !.stage = "reloading"]
      BY <1>0, <3>1 DEF VaultTransfer, Vaults!Stage
    <3>2. CASE transfer' = Vaults!NoTransfer
      BY <1>5, <3>2
    <3>3. QED
      BY <2>1, <3>1, <3>2
  <2>3. Len(sent) < MaxMoves
    BY <2>1 DEF VaultTold
  <2>4. QED
    BY <1>1, <2>1, <2>2, <2>3
<1>7. CASE Vaults!VaultReloaded
  <2>1. /\ transfer.stage = "reloading" /\ Vaults!Send(transfer.mode, Vaults!GuessedId)
        /\ transfer' = [transfer EXCEPT !.stage = "moving"]
    BY <1>7 DEF Vaults!VaultReloaded
  <2>2. Vaults!GuessedId \in Nat /\ Vaults!GuessedId # 1
    BY <1>0 DEF Vaults!GuessedId
  <2>3. transfer' \in VaultTransfer /\ transfer'.stage = "moving" /\ transfer'.mode = transfer.mode
    BY <1>0, <2>1 DEF VaultTransfer, Vaults!Stage
  <2>4. Len(sent) < MaxMoves
    BY <2>1 DEF VaultTold
  <2>5. QED
    BY <1>0, <1>3, <2>1, <2>2, <2>3, <2>4
<1>8. transfer.stage \in {"moving", "refreshing"} =>
         Len(sent) \in DOMAIN sent /\ Direction(sent[Len(sent)]) = transfer.mode
  BY DEF VaultTold
<1>9. CASE Vaults!Transferred
  <2>1. /\ transfer.stage = "moving" /\ sent[Len(sent)].runs \in Vaults!Contract!Effects("data")
        /\ sent' = [sent EXCEPT ![Len(sent)].done = TRUE]
        /\ transfer' = [transfer EXCEPT !.stage = "refreshing"]
    BY <1>9 DEF Vaults!Transferred
  <2>2. PICK k \in DOMAIN sent : k = Len(sent)
    BY <1>8, <2>1
  <2> DEFINE new == [sent[k] EXCEPT !.done = TRUE]
  <2>3. /\ sent' = [sent EXCEPT ![k] = new] /\ new \in VaultMove
        /\ new.from = sent[k].from /\ new.to = sent[k].to
        /\ new.runs = sent[k].runs /\ new.told = sent[k].told
    BY <1>0, <2>1, <2>2 DEF VaultMove
  <2>4. sent[k].runs \in Nat /\ sent[k].runs > 0
    BY <1>0, <2>1, <2>2, VaultConstants DEF VaultConstants, Vaults!Contract!Effects, VaultMove
  <2> HIDE DEF new
  <2>5. new.runs >= sent[k].runs
    BY <2>3, <2>4
  <2>6. /\ sent' \in Seq(VaultMove) /\ Len(sent') = Len(sent) /\ DOMAIN sent' = DOMAIN sent
        /\ \A j \in DOMAIN sent :
              /\ Direction(sent'[j]) = Direction(sent[j])
              /\ sent[j].runs > 0 => sent'[j].runs > 0
              /\ sent'[j].told # "none" => sent'[j].runs > 0 /\ sent'[j].told = Direction(sent'[j])
    BY <2>3, <2>5, MoveChanged
  <2>7. /\ transfer' \in VaultTransfer /\ transfer'.stage = "refreshing"
        /\ transfer'.mode = transfer.mode
    BY <1>0, <2>1 DEF VaultTransfer, Vaults!Stage
  <2>8. Direction(sent'[Len(sent')]) = transfer.mode /\ sent'[Len(sent')].runs > 0
    BY <1>8, <2>1, <2>2, <2>4, <2>6
  <2>9. Len(sent') > 0 /\ Len(sent') <= MaxMoves
    BY <2>1, <2>6 DEF VaultTold
  <2>10. QED
    BY <2>6, <2>7, <2>8, <2>9 DEF VaultTold
<1>10. CASE Vaults!TransferFailed
  <2>1. UNCHANGED sent /\ transfer' = Vaults!NoTransfer
    BY <1>10 DEF Vaults!TransferFailed, Vaults!backend
  <2>2. QED
    BY <1>1, <1>5, <2>1
<1>11. CASE Vaults!TransferReported
  <2>1. /\ transfer.stage = "refreshing" /\ transfer' = Vaults!NoTransfer
        /\ sent' = [sent EXCEPT ![Len(sent)].told = transfer.mode]
    BY <1>11 DEF Vaults!TransferReported, Vaults!Announced
  <2>2. PICK k \in DOMAIN sent : k = Len(sent)
    BY <1>8, <2>1
  <2> DEFINE new == [sent[k] EXCEPT !.told = transfer.mode]
  <2>3. /\ sent' = [sent EXCEPT ![k] = new] /\ new \in VaultMove
        /\ new.from = sent[k].from /\ new.to = sent[k].to
        /\ new.runs = sent[k].runs /\ new.told = transfer.mode
    BY <1>0, <2>1, <2>2 DEF VaultMove
  <2>4. /\ sent[k].runs > 0 /\ sent[k].runs \in Nat /\ Direction(sent[k]) = transfer.mode
    BY <1>0, <1>8, <2>1, <2>2 DEF VaultMove, VaultTold
  <2> HIDE DEF new
  <2>5. new.runs >= sent[k].runs /\ new.runs > 0 /\ new.told = Direction(sent[k])
    BY <2>3, <2>4
  <2>6. /\ sent' \in Seq(VaultMove) /\ Len(sent') = Len(sent) /\ DOMAIN sent' = DOMAIN sent
        /\ \A j \in DOMAIN sent :
              sent'[j].told # "none" => sent'[j].runs > 0 /\ sent'[j].told = Direction(sent'[j])
    BY <2>3, <2>5, MoveChanged
  <2>7. Len(sent') <= MaxMoves
    BY <2>6 DEF VaultTold
  <2>8. QED
    BY <1>5, <2>1, <2>6, <2>7 DEF VaultTold
<1>12. CASE Vaults!ExecuteInternalTransfer
  <2>1. PICK i \in DOMAIN sent : Carried(i) /\ UNCHANGED transfer
    BY <1>12 DEF Vaults!ExecuteInternalTransfer, Carried
  <2> DEFINE new == [sent[i] EXCEPT !.runs = sent[i].runs + 1]
  <2>2. sent[i].runs \in Nat /\ sent[i].runs + 1 \in Nat
    BY <1>0 DEF VaultMove
  <2>3. /\ sent' = [sent EXCEPT ![i] = new] /\ new \in VaultMove
        /\ new.from = sent[i].from /\ new.to = sent[i].to
        /\ new.runs = sent[i].runs + 1 /\ new.told = sent[i].told
    BY <1>0, <2>1, <2>2 DEF Carried, VaultMove
  <2> HIDE DEF new
  <2>4. new.runs >= sent[i].runs
    BY <2>2, <2>3
  <2>5. /\ sent' \in Seq(VaultMove) /\ Len(sent') = Len(sent) /\ DOMAIN sent' = DOMAIN sent
        /\ \A j \in DOMAIN sent :
              /\ Direction(sent'[j]) = Direction(sent[j])
              /\ sent[j].runs > 0 => sent'[j].runs > 0
              /\ sent'[j].told # "none" => sent'[j].runs > 0 /\ sent'[j].told = Direction(sent'[j])
    BY <2>3, <2>4, MoveChanged
  <2>6. Len(sent) > 0 => Len(sent) \in DOMAIN sent
    BY <1>0
  <2>7. transfer.stage \in {"moving", "refreshing"} =>
           Len(sent') > 0 /\ Direction(sent'[Len(sent')]) = transfer.mode
    BY <1>8, <2>5 DEF VaultTold
  <2>8. transfer.stage = "refreshing" => sent'[Len(sent')].runs > 0
    BY <1>8, <2>5 DEF VaultTold
  <2>9. Len(sent') <= MaxMoves /\ (transfer.stage \in {"creating", "reloading"} => Len(sent') < MaxMoves)
    BY <2>5 DEF VaultTold
  <2>10. QED
    BY <1>0, <2>1, <2>5, <2>7, <2>8, <2>9 DEF VaultTold
<1>13. CASE \/ Vaults!CountSubAccounts \/ Vaults!InsertSubAccount \/ Vaults!OtherAccountOpened
            \/ Vaults!OpenModal \/ Vaults!CloseModal \/ Vaults!SwitchMode \/ Vaults!OpenCreation
            \/ Vaults!CancelCreation \/ Vaults!HandleCreate \/ Vaults!CreationAnswered
            \/ Vaults!Polled \/ UNCHANGED vaultVars
  <2>1. UNCHANGED <<sent, transfer>>
    BY <1>13 DEF vaultVars, Vaults!backend, Vaults!CountSubAccounts, Vaults!InsertSubAccount,
       Vaults!OtherAccountOpened, Vaults!OpenModal, Vaults!CloseModal, Vaults!SwitchMode,
       Vaults!OpenCreation, Vaults!CancelCreation, Vaults!HandleCreate, Vaults!CreationAnswered,
       Vaults!Polled
  <2>2. QED
    BY <1>2, <2>1
<1>14. QED
  BY <1>4, <1>6, <1>7, <1>9, <1>10, <1>11, <1>12, <1>13 DEF Vaults!Next

(* A creation of which only the count changes; one that is carried out;    *)
(* one that ends.                                                          *)
Counted(c, i, n) == [c EXCEPT ![i].counted = n]
CarriedOut(c, i) == [c EXCEPT ![i].counted = -1, ![i].runs = @ + 1]
Answered(c, i) == [c EXCEPT ![i].waiting = FALSE]

(* A count makes nothing and ends nothing.                                 *)
LEMMA CreationCounted ==
    ASSUME NEW c \in Seq(Creation), NEW i \in DOMAIN c, NEW n \in -1..MaxOwners
    PROVE  /\ Counted(c, i, n) \in Seq(Creation) /\ Len(Counted(c, i, n)) = Len(c)
           /\ \A j \in DOMAIN c : c[j].waiting => Counted(c, i, n)[j].waiting
           /\ MadeOf(Counted(c, i, n)) = MadeOf(c) /\ EndedCreations(Counted(c, i, n)) = EndedCreations(c)
<1> DEFINE d == Counted(c, i, n)
           new == [c[i] EXCEPT !.counted = n]
<1>1. c[i] \in Creation
  OBVIOUS
<1>2. /\ new \in Creation /\ new.runs = c[i].runs /\ (new.waiting <=> c[i].waiting)
      /\ d = [c EXCEPT ![i] = new]
  BY <1>1 DEF Creation, Counted
<1> HIDE DEF new, d
<1>3. /\ d \in Seq(Creation) /\ Len(d) = Len(c) /\ DOMAIN d = DOMAIN c
      /\ d[i] = new /\ \A j \in DOMAIN c : j # i => d[j] = c[j]
  BY <1>2, Replaced
<1>4. \A j \in DOMAIN c : d[j].runs = c[j].runs /\ (d[j].waiting <=> c[j].waiting)
  BY <1>2, <1>3
<1>5. MadeOf(d) = MadeOf(c)
  BY <1>3, <1>4 DEF MadeOf
<1>6. MadeOf(c) \subseteq DOMAIN c
  BY DEF MadeOf
<1>7. EndedCreations(d) = EndedCreations(c)
  BY <1>4, <1>5, <1>6 DEF EndedCreations
<1>8. QED
  BY <1>3, <1>4, <1>5, <1>7 DEF d

(* One that is carried out is made, and ended if it had been given up.     *)
LEMMA CreationCarriedOut ==
    ASSUME NEW c \in Seq(Creation), NEW i \in DOMAIN c
    PROVE  /\ CarriedOut(c, i) \in Seq(Creation) /\ Len(CarriedOut(c, i)) = Len(c)
           /\ \A j \in DOMAIN c : c[j].waiting => CarriedOut(c, i)[j].waiting
           /\ MadeOf(CarriedOut(c, i)) = MadeOf(c) \cup {i}
           /\ EndedCreations(c) \subseteq EndedCreations(CarriedOut(c, i))
<1> DEFINE d == CarriedOut(c, i)
           mid == [c[i] EXCEPT !.counted = -1]
           new == [mid EXCEPT !.runs = mid.runs + 1]
<1>1. c[i] \in Creation /\ -1 \in -1..MaxOwners
  BY VaultConstants DEF VaultConstants
<1>2. d = [c EXCEPT ![i] = new]
  BY DEF CarriedOut
<1>3. mid \in Creation /\ mid.runs = c[i].runs /\ mid.runs \in Nat /\ (mid.waiting <=> c[i].waiting)
  BY <1>1 DEF Creation
<1> HIDE DEF mid
<1>4. new \in Creation /\ new.runs > 0 /\ (new.waiting <=> c[i].waiting)
  <2>1. new.runs = mid.runs + 1 /\ new.waiting = mid.waiting
    BY <1>3 DEF Creation
  <2>2. mid.runs + 1 \in Nat
    BY <1>3
  <2>3. new \in Creation
    BY <1>3, <2>2, Zenon DEF Creation
  <2>4. QED
    BY <1>3, <2>1, <2>3
<1> HIDE DEF new, d
<1>5. /\ d \in Seq(Creation) /\ Len(d) = Len(c) /\ DOMAIN d = DOMAIN c
      /\ d[i] = new /\ \A j \in DOMAIN c : j # i => d[j] = c[j]
  BY <1>2, <1>4, Replaced
<1>6. MadeOf(d) = MadeOf(c) \cup {i}
  BY <1>4, <1>5 DEF MadeOf
<1>7. \A j \in DOMAIN c : (d[j].waiting <=> c[j].waiting)
  BY <1>4, <1>5
<1>8. MadeOf(c) \subseteq DOMAIN c
  BY DEF MadeOf
<1>9. EndedCreations(c) \subseteq EndedCreations(d)
  BY <1>6, <1>7, <1>8 DEF EndedCreations
<1>10. QED
  BY <1>5, <1>6, <1>7, <1>9 DEF d

(* One that is answered has ended when it was carried out.                 *)
LEMMA CreationEnded ==
    ASSUME NEW c \in Seq(Creation), NEW i \in DOMAIN c, c[i].waiting
    PROVE  /\ Answered(c, i) \in Seq(Creation) /\ Len(Answered(c, i)) = Len(c)
           /\ \A j \in DOMAIN c : j # i => Answered(c, i)[j] = c[j]
           /\ MadeOf(Answered(c, i)) = MadeOf(c) /\ i \notin EndedCreations(c)
           /\ c[i].runs > 0 => EndedCreations(Answered(c, i)) = EndedCreations(c) \cup {i}
           /\ ~(c[i].runs > 0) => EndedCreations(Answered(c, i)) = EndedCreations(c)
<1> DEFINE d == Answered(c, i)
           new == [c[i] EXCEPT !.waiting = FALSE]
<1>0. c[i] \in Creation
  OBVIOUS
<1>1. /\ new \in Creation /\ new.runs = c[i].runs /\ ~new.waiting
      /\ d = [c EXCEPT ![i] = new]
  BY <1>0 DEF Creation, Answered
<1> HIDE DEF new, d
<1>2. /\ d \in Seq(Creation) /\ Len(d) = Len(c) /\ DOMAIN d = DOMAIN c
      /\ d[i] = new /\ \A j \in DOMAIN c : j # i => d[j] = c[j]
  BY <1>1, Replaced
<1>3. \A j \in DOMAIN c : d[j].runs = c[j].runs
  BY <1>1, <1>2
<1>4. MadeOf(d) = MadeOf(c)
  BY <1>2, <1>3 DEF MadeOf
<1>5. MadeOf(c) \subseteq DOMAIN c /\ (i \in MadeOf(c) <=> c[i].runs > 0)
  BY DEF MadeOf
<1>6. i \notin EndedCreations(c)
  BY DEF EndedCreations
<1>7. \A j \in MadeOf(c) : j # i => d[j].waiting = c[j].waiting
  BY <1>2, <1>5
<1>8. ~d[i].waiting
  BY <1>1, <1>2
<1>9. ASSUME c[i].runs > 0 PROVE EndedCreations(d) = EndedCreations(c) \cup {i}
  BY <1>4, <1>5, <1>7, <1>8, <1>9 DEF EndedCreations
<1>10. ASSUME ~(c[i].runs > 0) PROVE EndedCreations(d) = EndedCreations(c)
  BY <1>4, <1>5, <1>7, <1>10 DEF EndedCreations
<1>11. QED
  BY <1>2, <1>4, <1>6, <1>9, <1>10 DEF d

(* Nothing is confirmed that did not leave an account.                     *)
LEMMA CreationsStep ==
    VaultAccounts /\ VaultCreations /\ (Vaults!Next \/ UNCHANGED vaultVars) => VaultCreations'
<1> SUFFICES ASSUME VaultAccounts, VaultCreations, Vaults!Next \/ UNCHANGED vaultVars
             PROVE  VaultCreations'
  OBVIOUS
<1>0. /\ creations \in Seq(Creation) /\ Len(creations) \in Nat /\ DOMAIN creations = 1..Len(creations)
      /\ Len(creations) <= MaxCreations /\ MaxCreations \in Nat /\ MaxOwners \in Nat
      /\ VaultRetries \in Nat
      /\ \A i \in DOMAIN creations : creations[i] \in Creation
      /\ creating \in 0..Len(creations) /\ (creating # 0 => creations[creating].waiting)
      /\ confirmed \in Nat /\ confirmed <= Cardinality(EndedCreations(creations))
      /\ Cardinality(MadeOf(creations)) <= Cardinality(Vaults!Subs)
  BY Places, VaultConstants DEF VaultConstants, VaultCreations
<1>15. creations \in Seq(Creation)
  BY DEF VaultCreations
<1>1. /\ IsFiniteSet(MadeOf(creations)) /\ Cardinality(MadeOf(creations)) \in Nat
      /\ IsFiniteSet(EndedCreations(creations)) /\ Cardinality(EndedCreations(creations)) \in Nat
      /\ EndedCreations(creations) \subseteq MadeOf(creations)
  BY <1>0, CreationsAreFew
<1>2. /\ Vaults!Subs = Vaults!Mine \ {1} /\ IsFiniteSet(Vaults!Subs)
      /\ Cardinality(Vaults!Subs) \in 0..MaxOwners
  BY VaultMain
<1>3. ASSUME UNCHANGED <<owner, creations, creating, confirmed>> PROVE VaultCreations'
  <2>1. Vaults!Subs' = Vaults!Subs
    BY <1>3 DEF Vaults!Subs, Vaults!Mine, Vaults!Main
  <2>2. QED
    BY <1>0, <1>3, <2>1 DEF VaultCreations
<1>4. CASE Vaults!OtherAccountOpened
  <2>1. /\ Len(owner) < MaxOwners /\ owner' = Append(owner, "other")
        /\ UNCHANGED <<creations, creating, confirmed>>
    BY <1>4 DEF Vaults!OtherAccountOpened, Vaults!manager
  <2>2. Vaults!Mine' = Vaults!Mine /\ Vaults!Main' = 1
    BY <2>1, OwnerGrown
  <2>3. Vaults!Subs' = Vaults!Subs
    BY <1>2, <2>2 DEF Vaults!Subs
  <2>4. QED
    BY <1>0, <2>1, <2>3 DEF VaultCreations
<1>5. CASE Vaults!CountSubAccounts
  <2>1. PICK i \in DOMAIN creations :
            /\ creations' = [creations EXCEPT ![i].counted = Vaults!Cardinality(Vaults!Subs)]
            /\ UNCHANGED <<owner, creating, confirmed>>
    BY <1>5 DEF Vaults!CountSubAccounts, Vaults!manager
  <2>2. Vaults!Cardinality(Vaults!Subs) \in -1..MaxOwners
    BY <1>0, <1>2, VaultCount
  <2>4. /\ creations' \in Seq(Creation) /\ Len(creations') = Len(creations)
        /\ \A j \in DOMAIN creations : creations[j].waiting => creations'[j].waiting
        /\ MadeOf(creations') = MadeOf(creations) /\ EndedCreations(creations') = EndedCreations(creations)
    <3>1. creations' = Counted(creations, i, Vaults!Cardinality(Vaults!Subs))
      BY <2>1 DEF Counted
    <3>2. QED
      BY <1>15, <2>2, <3>1, CreationCounted
  <2>6. creating # 0 => creations'[creating].waiting
    BY <1>0, <2>4
  <2>7. Vaults!Subs' = Vaults!Subs
    BY <2>1 DEF Vaults!Subs, Vaults!Mine, Vaults!Main
  <2>8. QED
    BY <1>0, <2>1, <2>4, <2>6, <2>7 DEF VaultCreations
<1>6. CASE Vaults!InsertSubAccount
  <2>1. /\ Len(owner) < MaxOwners /\ owner' = Append(owner, "me")
        /\ UNCHANGED <<creating, confirmed>>
        /\ \E i \in DOMAIN creations :
              creations' = [creations EXCEPT ![i].counted = -1, ![i].runs = @ + 1]
    BY <1>6, Zenon DEF Vaults!InsertSubAccount, Vaults!manager
  <2>0. PICK i \in DOMAIN creations :
            creations' = [creations EXCEPT ![i].counted = -1, ![i].runs = @ + 1]
    BY <2>1
  <2>4. /\ creations' \in Seq(Creation) /\ Len(creations') = Len(creations)
        /\ \A j \in DOMAIN creations : creations[j].waiting => creations'[j].waiting
        /\ MadeOf(creations') = MadeOf(creations) \cup {i}
        /\ EndedCreations(creations) \subseteq EndedCreations(creations')
    <3>1. creations' = CarriedOut(creations, i)
      BY <2>0 DEF CarriedOut
    <3>2. QED
      BY <1>15, <3>1, CreationCarriedOut
  <2>6. Cardinality(MadeOf(creations')) <= Cardinality(MadeOf(creations)) + 1
    <3>1. /\ IsFiniteSet(MadeOf(creations))
          /\ i \in MadeOf(creations) => MadeOf(creations) \cup {i} = MadeOf(creations)
      BY <1>1
    <3>2. i \notin MadeOf(creations) =>
              Cardinality(MadeOf(creations) \cup {i}) = Cardinality(MadeOf(creations)) + 1
      BY <3>1, FS_AddElement, Zenon
    <3>3. /\ Cardinality(MadeOf(creations)) \in Nat
          /\ Cardinality(MadeOf(creations')) = Cardinality(MadeOf(creations) \cup {i})
      BY <1>1, <2>4
    <3>4. CASE i \in MadeOf(creations)
      <4>1. Cardinality(MadeOf(creations')) = Cardinality(MadeOf(creations))
        BY <3>1, <3>3, <3>4, Zenon
      <4>2. QED
        BY <3>3, <4>1
    <3>5. CASE i \notin MadeOf(creations)
      BY <3>2, <3>3, <3>5
    <3>6. QED
      BY <3>4, <3>5
  <2>7. /\ Vaults!Mine' = Vaults!Mine \cup {Len(owner) + 1} /\ Vaults!Main' = 1
        /\ Len(owner) + 1 \notin Vaults!Mine /\ Len(owner) + 1 # 1
    BY <2>1, OwnerGrown
  <2>8. Vaults!Subs' = Vaults!Subs \cup {Len(owner) + 1} /\ Len(owner) + 1 \notin Vaults!Subs
    BY <1>2, <2>7 DEF Vaults!Subs
  <2>9. Cardinality(Vaults!Subs') = Cardinality(Vaults!Subs) + 1
    BY <1>2, <2>8, FS_AddElement
  <2>10. Cardinality(MadeOf(creations')) \in Nat /\ Cardinality(EndedCreations(creations')) \in Nat
         /\ IsFiniteSet(EndedCreations(creations'))
    BY <2>4, CreationsAreFew
  <2>11. Cardinality(EndedCreations(creations)) <= Cardinality(EndedCreations(creations'))
    BY <2>4, <2>10, FS_Subset
  <2>12. Cardinality(MadeOf(creations')) <= Cardinality(Vaults!Subs')
    BY <1>0, <1>1, <1>2, <2>6, <2>9, <2>10
  <2>13. confirmed <= Cardinality(EndedCreations(creations'))
    BY <1>0, <1>1, <2>10, <2>11
  <2>14. creating # 0 => creations'[creating].waiting
    BY <1>0, <2>4
  <2>15. QED
    BY <1>0, <2>1, <2>4, <2>12, <2>13, <2>14 DEF VaultCreations
<1>7. ASSUME NEW at, creations' = Append(creations, [waiting |-> TRUE, counted |-> -1, runs |-> 0]),
             Len(creations) < MaxCreations, UNCHANGED <<owner, confirmed>>,
             creating' = at, at = creating \/ at = Len(creations')
      PROVE  VaultCreations'
  <2> DEFINE new == [waiting |-> TRUE, counted |-> -1, runs |-> 0]
  <2>1. new \in Creation /\ new.runs = 0 /\ new.waiting
    BY <1>0 DEF Creation
  <2> HIDE DEF new
  <2>2. /\ creations' \in Seq(Creation) /\ Len(creations') = Len(creations) + 1
        /\ DOMAIN creations' = DOMAIN creations \cup {Len(creations) + 1}
        /\ creations'[Len(creations) + 1] = new
        /\ \A j \in DOMAIN creations : creations'[j] = creations[j]
    BY <1>0, <1>7, <2>1, Appended DEF new
  <2>3. MadeOf(creations') = MadeOf(creations) /\ EndedCreations(creations') = EndedCreations(creations)
    BY <2>1, <2>2 DEF MadeOf, EndedCreations
  <2>4. Vaults!Subs' = Vaults!Subs
    BY <1>7 DEF Vaults!Subs, Vaults!Mine, Vaults!Main
  <2>5. creating' \in 0..Len(creations') /\ (creating' # 0 => creations'[creating'].waiting)
    BY <1>0, <1>7, <2>1, <2>2
  <2>6. QED
    BY <1>0, <1>7, <2>2, <2>3, <2>4, <2>5 DEF VaultCreations
<1>8. CASE Vaults!HandleExecuteTransfer
  <2>1. /\ UNCHANGED <<owner, creating, confirmed>>
        /\ \/ UNCHANGED creations
           \/ /\ Len(creations) < MaxCreations
              /\ creations' = Append(creations, [waiting |-> TRUE, counted |-> -1, runs |-> 0])
    BY <1>8 DEF Vaults!HandleExecuteTransfer, Vaults!manager
  <2>2. QED
    BY <1>3, <1>7, <2>1
<1>9. CASE Vaults!HandleCreate
  BY <1>7, <1>9 DEF Vaults!HandleCreate
<1>10. ASSUME NEW i \in DOMAIN creations, creations' = [creations EXCEPT ![i].waiting = FALSE],
              creations[i].waiting, UNCHANGED owner,
              creating' \in 0..Len(creations), creating' # i,
              creating' # 0 => creations[creating'].waiting,
              confirmed' \in Nat,
              \/ confirmed' = confirmed
              \/ confirmed' = confirmed + 1 /\ creations[i].runs > 0
       PROVE  VaultCreations'
  <2>3. /\ creations' \in Seq(Creation) /\ Len(creations') = Len(creations)
        /\ \A j \in DOMAIN creations : j # i => creations'[j] = creations[j]
        /\ MadeOf(creations') = MadeOf(creations) /\ i \notin EndedCreations(creations)
        /\ creations[i].runs > 0 => EndedCreations(creations') = EndedCreations(creations) \cup {i}
        /\ ~(creations[i].runs > 0) => EndedCreations(creations') = EndedCreations(creations)
    <3>1. creations' = Answered(creations, i) /\ creations[i].waiting
      BY <1>10 DEF Answered
    <3>2. QED
      BY <1>15, <3>1, CreationEnded
  <2>6. /\ creations[i].runs > 0 => Cardinality(EndedCreations(creations')) = Cardinality(EndedCreations(creations)) + 1
        /\ ~(creations[i].runs > 0) => EndedCreations(creations') = EndedCreations(creations)
    BY <1>1, <2>3, FS_AddElement
  <2>7. confirmed' <= Cardinality(EndedCreations(creations'))
    BY <1>0, <1>1, <1>10, <2>6
  <2>8. Vaults!Subs' = Vaults!Subs
    BY <1>10 DEF Vaults!Subs, Vaults!Mine, Vaults!Main
  <2>9. creating' # 0 => creations'[creating'].waiting
    BY <1>0, <1>10, <2>3
  <2>10. QED
    BY <1>0, <1>10, <2>3, <2>7, <2>8, <2>9 DEF VaultCreations
<1>11. CASE Vaults!VaultCreated
  <2>1. PICK i \in DOMAIN creations :
            /\ creations[i].waiting /\ creating # i
            /\ creations' = [creations EXCEPT ![i].waiting = FALSE]
            /\ UNCHANGED <<owner, creating, confirmed>>
    BY <1>11 DEF Vaults!VaultCreated, Vaults!manager
  <2>2. QED
    BY <1>0, <1>10, <2>1
<1>12. CASE Vaults!CreationAnswered
  <2>1. /\ creating # 0 /\ creating' = 0 /\ UNCHANGED owner
        /\ creations' = [creations EXCEPT ![creating].waiting = FALSE]
        /\ \/ UNCHANGED confirmed
           \/ confirmed' = confirmed + 1 /\ Vaults!Ends(creating, "data")
    BY <1>12 DEF Vaults!CreationAnswered
  <2>2. creating \in DOMAIN creations /\ creations[creating].waiting /\ 0 \in 0..Len(creations)
    BY <1>0, <2>1
  <2>3. Vaults!Ends(creating, "data") => creations[creating].runs > 0
    BY <1>0 DEF Vaults!Ends, Vaults!Contract!Effects
  <2>4. confirmed' \in Nat
    BY <1>0, <2>1
  <2>5. QED
    BY <1>10, <2>1, <2>2, <2>3, <2>4
<1>13. CASE \/ Vaults!OpenModal \/ Vaults!CloseModal \/ Vaults!SwitchMode \/ Vaults!VaultReloaded
            \/ Vaults!Transferred \/ Vaults!TransferFailed \/ Vaults!TransferReported
            \/ Vaults!ExecuteInternalTransfer
            \/ Vaults!OpenCreation \/ Vaults!CancelCreation \/ Vaults!Polled \/ UNCHANGED vaultVars
  <2>1. UNCHANGED <<owner, creations, creating, confirmed>>
    BY <1>13 DEF vaultVars, Vaults!backend, Vaults!manager, Vaults!ExecuteInternalTransfer, Vaults!OpenModal, Vaults!CloseModal,
       Vaults!SwitchMode, Vaults!VaultReloaded, Vaults!Transferred, Vaults!TransferFailed,
       Vaults!TransferReported, Vaults!OpenCreation, Vaults!CancelCreation, Vaults!Polled
  <2>2. QED
    BY <1>3, <2>1
<1>14. QED
  BY <1>4, <1>5, <1>6, <1>8, <1>9, <1>11, <1>12, <1>13 DEF Vaults!Next

(* The dialog's and the form's flags and modes.                            *)
LEMMA VaultFlagsStep == VaultFlags /\ (Vaults!Next \/ UNCHANGED vaultVars) => VaultFlags'
<1> SUFFICES ASSUME VaultFlags, Vaults!Next \/ UNCHANGED vaultVars PROVE VaultFlags'
  OBVIOUS
<1>1. /\ UNCHANGED isOpen \/ isOpen' = TRUE \/ isOpen' = FALSE
      /\ UNCHANGED error \/ error' = TRUE \/ error' = FALSE
      /\ UNCHANGED isCreating \/ isCreating' = TRUE \/ isCreating' = FALSE
  BY DEF Vaults!Next, vaultVars, Vaults!backend, Vaults!modal, Vaults!manager,
     Vaults!CountSubAccounts, Vaults!InsertSubAccount, Vaults!OtherAccountOpened,
     Vaults!ExecuteInternalTransfer, Vaults!OpenModal, Vaults!CloseModal, Vaults!SwitchMode, Vaults!HandleExecuteTransfer,
     Vaults!VaultCreated, Vaults!VaultReloaded, Vaults!Transferred, Vaults!TransferFailed,
     Vaults!TransferReported, Vaults!OpenCreation, Vaults!CancelCreation, Vaults!HandleCreate,
     Vaults!CreationAnswered, Vaults!Polled
<1>2. /\ initialMode' \in Vaults!Mode \/ UNCHANGED initialMode
      /\ mode' \in Vaults!Mode \/ UNCHANGED mode
  BY DEF Vaults!Next, vaultVars, Vaults!backend, Vaults!modal, Vaults!manager,
     Vaults!CountSubAccounts, Vaults!InsertSubAccount, Vaults!OtherAccountOpened,
     Vaults!ExecuteInternalTransfer, Vaults!OpenModal, Vaults!CloseModal, Vaults!SwitchMode, Vaults!HandleExecuteTransfer,
     Vaults!VaultCreated, Vaults!VaultReloaded, Vaults!Transferred, Vaults!TransferFailed,
     Vaults!TransferReported, Vaults!OpenCreation, Vaults!CancelCreation, Vaults!HandleCreate,
     Vaults!CreationAnswered, Vaults!Polled
<1>3. QED
  BY <1>1, <1>2, Zenon DEF VaultFlags

(* What the vault owes its customer.                                       *)
LEMMA VaultFacts ==
    VaultAccounts /\ VaultTold /\ VaultCreations =>
        Vaults!MovesOwn /\ Vaults!ToldWhatMoved /\ Vaults!ConfirmedExists
<1> SUFFICES ASSUME VaultAccounts, VaultTold, VaultCreations
             PROVE  Vaults!MovesOwn /\ Vaults!ToldWhatMoved /\ Vaults!ConfirmedExists
  OBVIOUS
<1>1. Vaults!MovesOwn
  BY VaultMain DEF VaultAccounts, MovesTo, Vaults!MovesOwn
<1>2. Vaults!ToldWhatMoved
  BY VaultMain DEF VaultTold, Direction, Vaults!ToldWhatMoved
<1>3. Vaults!ConfirmedExists
  <2>1. /\ confirmed \in Nat /\ confirmed <= Cardinality(EndedCreations(creations))
        /\ Cardinality(EndedCreations(creations)) <= Cardinality(MadeOf(creations))
        /\ Cardinality(MadeOf(creations)) <= Cardinality(Vaults!Subs)
        /\ Cardinality(EndedCreations(creations)) \in Nat /\ Cardinality(MadeOf(creations)) \in Nat
        /\ Cardinality(Vaults!Subs) \in Nat
    BY CreationsAreFew, VaultMain, VaultConstants DEF VaultCreations, VaultConstants
  <2>2. QED
    BY <2>1, VaultCount DEF Vaults!ConfirmedExists
<1>4. QED
  BY <1>1, <1>2, <1>3

(* The types of the vault.                                                 *)
LEMMA VaultTypeOK ==
    VaultAccounts /\ VaultTold /\ VaultCreations /\ VaultFlags => Vaults!TypeOK
<1> SUFFICES ASSUME VaultAccounts, VaultTold, VaultCreations, VaultFlags PROVE Vaults!TypeOK
  OBVIOUS
<1>1. \A a \in DOMAIN owner : owner[a] \in {"me", "other"}
  BY DEF VaultAccounts
<1>2. \A i \in DOMAIN creations : creations[i] \in Creation
  BY DEF VaultCreations
<1>3. /\ Len(sent) <= MaxMoves
      /\ \A i \in DOMAIN sent : sent[i] \in VaultMove
  BY DEF VaultTold
<1>4. VaultMove \subseteq [from : Int, to : Int, runs : Nat, done : BOOLEAN,
                         told : Vaults!Mode \cup {"none"}]
  BY DEF VaultMove
<1>5. creating \in 0..MaxCreations /\ confirmed \in 0..MaxCreations
  <2>0. creations \in Seq(Creation)
    BY DEF VaultCreations
  <2>1. /\ Cardinality(EndedCreations(creations)) <= Cardinality(MadeOf(creations))
        /\ Cardinality(MadeOf(creations)) <= Len(creations)
        /\ Cardinality(EndedCreations(creations)) \in Nat /\ Cardinality(MadeOf(creations)) \in Nat
    BY <2>0, CreationsAreFew
  <2>2. Len(creations) \in Nat /\ Len(creations) <= MaxCreations /\ MaxCreations \in Nat
    BY <2>0, VaultConstants DEF VaultConstants, VaultCreations
  <2>3. creating \in 0..Len(creations)
    BY DEF VaultCreations
  <2>4. confirmed \in Nat /\ confirmed <= Cardinality(EndedCreations(creations))
    BY DEF VaultCreations
  <2>5. QED
    BY <2>1, <2>2, <2>3, <2>4
<1>6. vaultShown \subseteq Vaults!Mine /\ transfer \in VaultTransfer
  BY DEF VaultAccounts, VaultTold
<1>7. QED
  BY <1>1, <1>2, <1>3, <1>4, <1>5, <1>6, Zenon
  DEF Vaults!TypeOK, VaultFlags, Creation, VaultTransfer

-----------------------------------------------------------------------------
(* The Smart Transfer Hub.                                                 *)

HubTransfer == [rail : Hub!Rail, cents : HubCents]

HubTypes ==
    /\ step \in 1..3
    /\ recipientRouting \in Hub!Routing \cup {Nothing}
    /\ selectedRail \in Hub!Rail
    /\ hubAmount \in HubCents
    /\ sending \in HubTransfer \cup {Nothing}
    /\ completedTx \in HubTransfer \cup {Nothing}
    /\ made = Nothing \/ (made.transfer \in HubTransfer /\ made.moved \in Nat)

(* A receipt stands only while nothing is being sent, so that no step can  *)
(* make another transfer behind it.                                        *)
HubReceipt ==
    step = 3 => sending = Nothing /\ made # Nothing /\ made.transfer = completedTx

(* The last lookup under way is that of the number entered; when there is  *)
(* none, its institution is displayed.                                     *)
HubLookups ==
    /\ hubLookups \in Seq(Valid) /\ Len(hubLookups) <= MaxLookups
    /\ institution \in Valid \cup {Nothing}
    /\ recipientRouting \in Valid =>
           IF hubLookups = <<>> THEN institution = recipientRouting
                                ELSE hubLookups[Len(hubLookups)] = recipientRouting

HubInv == HubTypes /\ HubReceipt /\ HubLookups

(* The hub starts without a number and without a transfer.                 *)
LEMMA HubInit == Hub!Init => HubInv
<1> SUFFICES ASSUME Hub!Init PROVE HubInv
  OBVIOUS
<1>1. HubTypes
  BY HubConstants DEF HubConstants, Hub!Init, HubTypes, Hub!Rail
<1>2. HubReceipt
  BY DEF Hub!Init, HubReceipt
<1>3. HubLookups
  BY HubConstants DEF HubConstants, Hub!Init, HubLookups
<1>4. QED
  BY <1>1, <1>2, <1>3 DEF HubInv

(* What the backend may have done when the call has ended.                 *)
LEMMA HubSettles ==
    ASSUME NEW ending \in {"data", "error", "network"}, Hub!Settle(ending), sending \in HubTransfer
    PROVE  /\ UNCHANGED made \/ made' = Hub!Made(sending)
           /\ ending = "data" => made' = Hub!Made(sending)
           /\ Hub!Made(sending) # Nothing /\ Hub!Made(sending).transfer = sending
           /\ Hub!Made(sending).moved \in Nat
<1>1. /\ UNCHANGED made \/ made' = Hub!Made(sending)
  BY DEF Hub!Settle
<1>2. ending = "data" => made' = Hub!Made(sending)
  BY HubConstants DEF HubConstants, Hub!Settle, Hub!Contract!Effects
<1>3. sending.cents \in Nat
  BY HubConstants DEF HubConstants, HubTransfer
<1>4. sending.cents \div 100 \in Nat
  BY <1>3
<1>5. Hub!Made(sending) \in [transfer : HubTransfer, moved : Nat]
  BY <1>4 DEF Hub!Made
<1>6. Hub!Made(sending) # Nothing
  BY <1>5, HubConstants DEF HubConstants, HubTransfer
<1>7. Hub!Made(sending).transfer = sending /\ Hub!Made(sending).moved \in Nat
  BY <1>4 DEF Hub!Made
<1>8. QED
  BY <1>1, <1>2, <1>6, <1>7

(* The hub's types.                                                        *)
LEMMA HubTypesStep == 
    HubTypes /\ HubLookups /\ (Hub!Next \/ UNCHANGED hubVars) => HubTypes'
<1> SUFFICES ASSUME HubTypes, HubLookups, Hub!Next \/ UNCHANGED hubVars PROVE HubTypes'
  OBVIOUS
<1>1. CASE Hub!TypeRecipient \/ Hub!HandleSelectQuickRecipient
  <2>1. /\ UNCHANGED <<hubAmount, sending, completedTx, made>> /\ step' \in {step, 2}
    BY <1>1 DEF Hub!TypeRecipient, Hub!HandleSelectQuickRecipient, Hub!submission
  <2>2. recipientRouting' \in Hub!Routing
    BY <1>1, HubConstants DEF HubConstants, Hub!TypeRecipient, Hub!HandleSelectQuickRecipient,
       Hub!LookUp, Hub!Routing
  <2>3. selectedRail' \in Hub!Rail
    BY <1>1, HubConstants DEF HubConstants, Hub!TypeRecipient, Hub!HandleSelectQuickRecipient, HubTypes
  <2>4. QED
    BY <2>1, <2>2, <2>3 DEF HubTypes
<1>2. CASE Hub!LookupAnswered
  <2>1. PICK i \in 1..Len(hubLookups) :
            selectedRail' \in {selectedRail} \cup ({Directory[hubLookups[i]]} \ {Nothing})
    BY <1>2 DEF Hub!LookupAnswered
  <2>2. UNCHANGED <<step, recipientRouting, hubAmount, sending, completedTx, made>>
    BY <1>2 DEF Hub!LookupAnswered, Hub!submission
  <2>3. hubLookups[i] \in Valid
    BY DEF HubLookups
  <2>4. selectedRail' \in Hub!Rail
    BY <2>1, <2>3, HubConstants DEF HubConstants, HubTypes
  <2>5. QED
    BY <2>2, <2>4 DEF HubTypes
<1>3. CASE Hub!HandleExecuteTransfer
  BY <1>3 DEF Hub!HandleExecuteTransfer, Hub!form, Hub!directory, Hub!Entered, HubTypes, HubTransfer
<1>4. CASE Hub!TransferDone \/ Hub!TransferFailed
  <2>1. /\ sending # Nothing /\ sending' = Nothing /\ step' \in {step, 3}
        /\ completedTx' \in {completedTx, sending}
        /\ UNCHANGED <<recipientRouting, selectedRail, hubAmount>>
        /\ \E ending \in {"data", "error", "network"} : Hub!Settle(ending)
    BY <1>4 DEF Hub!TransferDone, Hub!TransferFailed, Hub!form, Hub!directory
  <2>2. sending \in HubTransfer
    BY <2>1 DEF HubTypes
  <2>3. /\ UNCHANGED made \/ made' = Hub!Made(sending)
        /\ Hub!Made(sending).transfer = sending /\ Hub!Made(sending).moved \in Nat
    BY <2>1, <2>2, HubSettles
  <2>4. made' = Nothing \/ (made'.transfer \in HubTransfer /\ made'.moved \in Nat)
    <3>1. CASE UNCHANGED made
      BY <3>1 DEF HubTypes
    <3>2. CASE made' = Hub!Made(sending)
      BY <2>2, <2>3, <3>2
    <3>3. QED
      BY <2>3, <3>1, <3>2
  <2>5. step' \in 1..3 /\ completedTx' \in HubTransfer \cup {Nothing}
    BY <2>1, <2>2 DEF HubTypes
  <2>6. QED
    BY <2>1, <2>4, <2>5 DEF HubTypes
<1>5. CASE Hub!Proceed \/ Hub!Back \/ Hub!ChooseAmount \/ Hub!ChooseRail \/ Hub!SendAnother
           \/ UNCHANGED hubVars
  BY <1>5, HubConstants
  DEF HubConstants, HubTypes, hubVars, Hub!Proceed, Hub!Back, Hub!ChooseAmount, Hub!ChooseRail,
      Hub!SendAnother, Hub!submission, Hub!directory
<1>6. QED
  BY <1>1, <1>2, <1>3, <1>4, <1>5 DEF Hub!Next

(* Nobody leaves the receipt but for a new transfer.                       *)
LEMMA HubReceiptStep ==
    HubTypes /\ HubReceipt /\ (Hub!Next \/ UNCHANGED hubVars) => HubReceipt'
<1> SUFFICES ASSUME HubTypes, HubReceipt, Hub!Next \/ UNCHANGED hubVars PROVE HubReceipt'
  OBVIOUS
<1>1. CASE Hub!TransferDone
  <2>1. /\ sending # Nothing /\ sending' = Nothing /\ completedTx' = sending
        /\ Hub!Settle("data")
    BY <1>1 DEF Hub!TransferDone
  <2>2. sending \in HubTransfer
    BY <2>1 DEF HubTypes
  <2>3. made' = Hub!Made(sending) /\ Hub!Made(sending) # Nothing
        /\ Hub!Made(sending).transfer = sending
    BY <2>1, <2>2, HubSettles
  <2>4. QED
    BY <2>1, <2>3 DEF HubReceipt
<1>2. CASE Hub!TransferFailed
  <2>1. sending # Nothing /\ UNCHANGED step
    BY <1>2 DEF Hub!TransferFailed, Hub!form
  <2>2. QED
    BY <2>1 DEF HubReceipt
<1>3. CASE Hub!LookupAnswered \/ UNCHANGED hubVars
  <2>1. UNCHANGED <<step, sending, completedTx, made>>
    BY <1>3 DEF hubVars, Hub!LookupAnswered, Hub!submission
  <2>2. QED
    BY <2>1 DEF HubReceipt
<1>4. CASE \/ Hub!TypeRecipient \/ Hub!HandleSelectQuickRecipient \/ Hub!Proceed \/ Hub!Back
           \/ Hub!ChooseAmount \/ Hub!ChooseRail \/ Hub!HandleExecuteTransfer \/ Hub!SendAnother
  <2>1. step' # 3
    BY <1>4 DEF Hub!TypeRecipient, Hub!HandleSelectQuickRecipient, Hub!Proceed, Hub!Back,
       Hub!ChooseAmount, Hub!ChooseRail, Hub!HandleExecuteTransfer, Hub!SendAnother, Hub!form
  <2>2. QED
    BY <2>1 DEF HubReceipt
<1>5. QED
  BY <1>1, <1>2, <1>3, <1>4 DEF Hub!Next

(* A changed number is looked up behind the others, or has no institution. *)
LEMMA HubLooksUp ==
    ASSUME HubLookups, NEW r \in Hub!Routing, Hub!LookUp(r)
    PROVE  HubLookups'
<1>0. /\ hubLookups \in Seq(Valid) /\ Len(hubLookups) \in Nat /\ Len(hubLookups) <= MaxLookups
      /\ institution \in Valid \cup {Nothing} /\ MaxLookups \in Nat
  BY HubConstants DEF HubConstants, HubLookups
<1>1. CASE r = recipientRouting
  BY <1>1 DEF Hub!LookUp, HubLookups
<1>2. CASE r # recipientRouting /\ r \in Valid
  <2>1. /\ Len(hubLookups) < MaxLookups /\ hubLookups' = Append(hubLookups, r)
        /\ UNCHANGED institution /\ recipientRouting' = r
    BY <1>2 DEF Hub!LookUp
  <2>2. /\ Append(hubLookups, r) \in Seq(Valid)
        /\ Len(Append(hubLookups, r)) = Len(hubLookups) + 1
        /\ Append(hubLookups, r)[Len(hubLookups) + 1] = r
    BY <1>0, <1>2, Appended
  <2>3. hubLookups' # <<>> /\ hubLookups'[Len(hubLookups')] = r /\ Len(hubLookups') <= MaxLookups
    BY <1>0, <2>1, <2>2
  <2>4. QED
    BY <1>0, <2>1, <2>2, <2>3 DEF HubLookups
<1>3. CASE r # recipientRouting /\ r \notin Valid
  <2>1. recipientRouting' \notin Valid /\ institution' = Nothing /\ UNCHANGED hubLookups
    BY <1>3 DEF Hub!LookUp
  <2>2. QED
    BY <1>0, <2>1 DEF HubLookups
<1>4. QED
  BY <1>1, <1>2, <1>3

(* The answers come in order: the last one leaves its institution.         *)
LEMMA HubLookupsStep ==
    HubLookups /\ (Hub!Next \/ UNCHANGED hubVars) => HubLookups'
<1> SUFFICES ASSUME HubLookups, Hub!Next \/ UNCHANGED hubVars PROVE HubLookups'
  OBVIOUS
<1>1. CASE Hub!TypeRecipient
  <2>1. PICK q \in Hub!Routing : Hub!LookUp(q)
    BY <1>1 DEF Hub!TypeRecipient
  <2>2. QED
    BY <2>1, HubLooksUp
<1>2. CASE Hub!HandleSelectQuickRecipient
  <2>1. PICK p \in Suggested : Hub!LookUp(p.routing)
    BY <1>2 DEF Hub!HandleSelectQuickRecipient
  <2>2. p.routing \in Hub!Routing
    BY HubConstants DEF HubConstants, Hub!Routing
  <2>3. QED
    BY <2>1, <2>2, HubLooksUp
<1>3. CASE Hub!LookupAnswered
  <2>1. /\ 1 \in 1..Len(hubLookups) /\ hubLookups' = Hub!RemoveAt(hubLookups, 1)
        /\ institution' = hubLookups[1] /\ UNCHANGED recipientRouting
    BY <1>3 DEF Hub!LookupAnswered
  <2>2. /\ hubLookups \in Seq(Valid) /\ Len(hubLookups) \in Nat /\ Len(hubLookups) >= 1
        /\ Len(hubLookups) <= MaxLookups /\ MaxLookups \in Nat /\ hubLookups[1] \in Valid
    BY <2>1, HubConstants DEF HubConstants, HubLookups
  <2>3. /\ hubLookups' \in Seq(Valid) /\ Len(hubLookups') = Len(hubLookups) - 1
        /\ \A j \in 1..(Len(hubLookups) - 1) :
              hubLookups'[j] = IF j < 1 THEN hubLookups[j] ELSE hubLookups[j + 1]
    BY <2>1, <2>2, Removed DEF Hub!RemoveAt
  <2>4. ASSUME recipientRouting' \in Valid
        PROVE  IF hubLookups' = <<>> THEN institution' = recipientRouting'
                                     ELSE hubLookups'[Len(hubLookups')] = recipientRouting'
    <3>1. hubLookups[Len(hubLookups)] = recipientRouting
      BY <2>1, <2>2, <2>4 DEF HubLookups
    <3>2. CASE Len(hubLookups) = 1
      BY <2>1, <2>3, <3>1, <3>2
    <3>3. CASE Len(hubLookups) > 1
      <4>1. /\ Len(hubLookups) - 1 \in 1..(Len(hubLookups) - 1) /\ ~(Len(hubLookups) - 1 < 1)
            /\ (Len(hubLookups) - 1) + 1 = Len(hubLookups)
        BY <2>2, <3>3
      <4>2. hubLookups'[Len(hubLookups) - 1] = hubLookups[Len(hubLookups)]
        BY <2>3, <4>1
      <4>3. hubLookups' # <<>>
        BY <2>3, <3>3
      <4>4. QED
        BY <2>1, <2>3, <3>1, <4>2, <4>3
    <3>4. QED
      BY <2>2, <3>2, <3>3
  <2>5. Len(hubLookups') <= MaxLookups
    BY <2>2, <2>3
  <2>6. QED
    BY <2>1, <2>2, <2>3, <2>4, <2>5 DEF HubLookups
<1>4. CASE \/ Hub!Proceed \/ Hub!Back \/ Hub!ChooseAmount \/ Hub!ChooseRail
           \/ Hub!HandleExecuteTransfer \/ Hub!TransferDone \/ Hub!TransferFailed
           \/ Hub!SendAnother \/ UNCHANGED hubVars
  <2>1. UNCHANGED <<recipientRouting, hubLookups, institution>>
    BY <1>4 DEF hubVars, Hub!Proceed, Hub!Back, Hub!ChooseAmount, Hub!ChooseRail,
       Hub!HandleExecuteTransfer, Hub!TransferDone, Hub!TransferFailed, Hub!SendAnother,
       Hub!form, Hub!directory
  <2>2. QED
    BY <2>1 DEF HubLookups
<1>5. QED
  BY <1>1, <1>2, <1>3, <1>4 DEF Hub!Next

(* Together.                                                               *)
LEMMA HubStep == HubInv /\ (Hub!Next \/ UNCHANGED hubVars) => HubInv'
  BY HubTypesStep, HubReceiptStep, HubLookupsStep DEF HubInv

(* What the hub shows its customer.                                        *)
LEMMA HubFacts == HubInv => Hub!ReceiptIsBacked /\ Hub!LastLookupWins
  BY DEF HubInv, HubReceipt, HubLookups, Hub!ReceiptIsBacked, Hub!LastLookupWins

(* The types of the hub.                                                   *)
LEMMA HubTypeOK == HubInv => Hub!TypeOK
  BY DEF HubInv, HubTypes, HubLookups, HubTransfer, Hub!TypeOK, Hub!Transfer


-----------------------------------------------------------------------------
(* The refreshes of the Transfer Center.                                   *)

Refresh == [silent : BOOLEAN, read : Int]

(* Of refreshes f, with version s shown and version n in ClickHouse: what  *)
(* was found is not older than what is shown, nor than what an earlier one *)
(* found, and no refresh was read before an earlier one.                   *)
InStep(f, s, n) ==
    /\ f \in Seq(Refresh) /\ s \in Nat /\ n \in Nat /\ s <= n
    /\ \A i \in DOMAIN f : f[i].read \in {-1, -2} \/ (s <= f[i].read /\ f[i].read <= n)
    /\ \A i, j \in DOMAIN f :
           i < j /\ f[j].read # -1 =>
              f[i].read # -1 /\ (f[j].read # -2 => f[i].read = -2 \/ f[i].read <= f[j].read)

(* ClickHouse catches up.                                                  *)
LEMMA RefreshesLater ==
    ASSUME NEW f, NEW s, NEW n, InStep(f, s, n) PROVE InStep(f, s, n + 1)
<1>1. /\ f \in Seq(Refresh) /\ s \in Nat /\ n \in Nat /\ s <= n
      /\ \A i \in DOMAIN f : f[i].read \in {-1, -2} \/ (s <= f[i].read /\ f[i].read <= n)
  BY DEF InStep
<1>2. \A i \in DOMAIN f : f[i].read \in Int
  <2>1. \A i \in DOMAIN f : f[i] \in Refresh
    BY <1>1
  <2>2. QED
    BY <2>1 DEF Refresh
<1>3. \A i \in DOMAIN f : f[i].read \in {-1, -2} \/ (s <= f[i].read /\ f[i].read <= n + 1)
  BY <1>1, <1>2
<1>4. QED
  BY <1>1, <1>3 DEF InStep

(* A refresh begins.                                                       *)
LEMMA RefreshBegins ==
    ASSUME NEW f, NEW s, NEW n, InStep(f, s, n), NEW silent \in BOOLEAN
    PROVE  InStep(Append(f, [silent |-> silent, read |-> -1]), s, n)
<1> DEFINE new == [silent |-> silent, read |-> -1]
           g == Append(f, new)
<1>1. /\ f \in Seq(Refresh) /\ s \in Nat /\ n \in Nat /\ s <= n
      /\ \A i \in DOMAIN f : f[i].read \in {-1, -2} \/ (s <= f[i].read /\ f[i].read <= n)
      /\ \A i, j \in DOMAIN f :
             i < j /\ f[j].read # -1 =>
                f[i].read # -1 /\ (f[j].read # -2 => f[i].read = -2 \/ f[i].read <= f[j].read)
  BY DEF InStep
<1>2. new \in Refresh /\ new.read = -1
  BY DEF Refresh
<1> HIDE DEF new
<1>3. /\ g \in Seq(Refresh) /\ DOMAIN g = DOMAIN f \cup {Len(f) + 1}
      /\ g[Len(f) + 1] = new /\ \A j \in DOMAIN f : g[j] = f[j]
      /\ DOMAIN f = 1..Len(f) /\ Len(f) \in Nat
  BY <1>1, <1>2, Appended, Places
<1> HIDE DEF g
<1>4. \A i \in DOMAIN g : g[i].read \in {-1, -2} \/ (s <= g[i].read /\ g[i].read <= n)
  BY <1>1, <1>2, <1>3
<1>5. ASSUME NEW i \in DOMAIN g, NEW j \in DOMAIN g, i < j, g[j].read # -1
      PROVE  g[i].read # -1 /\ (g[j].read # -2 => g[i].read = -2 \/ g[i].read <= g[j].read)
  <2>1. j \in DOMAIN f
    BY <1>2, <1>3, <1>5
  <2>2. i \in DOMAIN f
    BY <1>3, <1>5, <2>1
  <2>3. QED
    BY <1>1, <1>3, <1>5, <2>1, <2>2
<1>6. QED
  BY <1>1, <1>3, <1>4, <1>5 DEF InStep, g, new

(* The next one is answered, with what is found.                           *)
RefreshRead(f, i, v) == [f EXCEPT ![i].read = v]

(* A refresh that reads after those before it keeps the refreshes in       *)
(* order.                                                                  *)
LEMMA RefreshIsRead ==
    ASSUME NEW f, NEW s, NEW n, InStep(f, s, n), NEW i \in DOMAIN f, f[i].read = -1,
           \A j \in 1..(i - 1) : f[j].read # -1, NEW v \in {n, -2}
    PROVE  InStep(RefreshRead(f, i, v), s, n)
<1> DEFINE new == [f[i] EXCEPT !.read = v]
           g == RefreshRead(f, i, v)
<1>1. /\ f \in Seq(Refresh) /\ s \in Nat /\ n \in Nat /\ s <= n
      /\ \A k \in DOMAIN f : f[k].read \in {-1, -2} \/ (s <= f[k].read /\ f[k].read <= n)
      /\ \A k, j \in DOMAIN f :
             k < j /\ f[j].read # -1 =>
                f[k].read # -1 /\ (f[j].read # -2 => f[k].read = -2 \/ f[k].read <= f[j].read)
  BY DEF InStep
<1>2. f[i] \in Refresh
  BY <1>1
<1>3. new \in Refresh /\ new.read = v /\ g = [f EXCEPT ![i] = new]
  BY <1>1, <1>2 DEF Refresh, RefreshRead
<1> HIDE DEF new, g
<1>4. /\ g \in Seq(Refresh) /\ DOMAIN g = DOMAIN f
      /\ g[i] = new /\ \A j \in DOMAIN f : j # i => g[j] = f[j]
      /\ DOMAIN f = 1..Len(f) /\ Len(f) \in Nat
  BY <1>1, <1>3, Replaced, Places
<1>5. \A k \in DOMAIN g : g[k].read \in {-1, -2} \/ (s <= g[k].read /\ g[k].read <= n)
  BY <1>1, <1>3, <1>4
<1>6. ASSUME NEW k \in DOMAIN g, NEW j \in DOMAIN g, k < j, g[j].read # -1
      PROVE  g[k].read # -1 /\ (g[j].read # -2 => g[k].read = -2 \/ g[k].read <= g[j].read)
  <2>1. k \in 1..Len(f) /\ j \in 1..Len(f) /\ i \in 1..Len(f)
    BY <1>4
  <2>2. CASE j = i
    <3>1. k \in 1..(i - 1) /\ k # i
      BY <1>6, <2>1, <2>2
    <3>2. f[k].read # -1 /\ g[k] = f[k]
      BY <1>4, <3>1
    <3>3. QED
      BY <1>1, <1>3, <1>4, <2>2, <3>2
  <2>3. CASE j # i
    <3>1. g[j] = f[j] /\ f[j].read # -1
      BY <1>4, <1>6, <2>3
    <3>2. k # i
      BY <1>1, <1>4, <1>6, <3>1
    <3>3. QED
      BY <1>1, <1>4, <1>6, <3>1, <3>2
  <2>4. QED
    BY <2>2, <2>3
<1>7. QED
  BY <1>1, <1>4, <1>5, <1>6 DEF InStep, g

(* The first one that was read is done, and may be shown: nothing, when    *)
(* ClickHouse failed it.                                                   *)
TableOf(v) == IF v = -2 THEN 0 ELSE v

LEMMA RefreshIsDone ==
    ASSUME NEW f, NEW s, NEW n, InStep(f, s, n), 1 \in DOMAIN f, f[1].read # -1,
           NEW t \in {s, TableOf(f[1].read)}
    PROVE  /\ InStep(SubSeq(f, 1, 1 - 1) \o SubSeq(f, 1 + 1, Len(f)), t, n)
           /\ t >= s \/ (t = 0 /\ f[1].read = -2)
<1> DEFINE g == SubSeq(f, 1, 1 - 1) \o SubSeq(f, 1 + 1, Len(f))
<1>1. /\ f \in Seq(Refresh) /\ s \in Nat /\ n \in Nat /\ s <= n
      /\ \A k \in DOMAIN f : f[k].read \in {-1, -2} \/ (s <= f[k].read /\ f[k].read <= n)
      /\ \A k, j \in DOMAIN f :
             k < j /\ f[j].read # -1 =>
                f[k].read # -1 /\ (f[j].read # -2 => f[k].read = -2 \/ f[k].read <= f[j].read)
  BY DEF InStep
<1>2. /\ DOMAIN f = 1..Len(f) /\ Len(f) \in Nat /\ 1 \in 1..Len(f)
      /\ \A k \in DOMAIN f : f[k].read \in Int
  <2>1. \A k \in DOMAIN f : f[k] \in Refresh
    BY <1>1
  <2>2. \A k \in DOMAIN f : f[k].read \in Int
    BY <2>1 DEF Refresh
  <2>3. DOMAIN f = 1..Len(f) /\ Len(f) \in Nat
    BY <1>1, Places
  <2>4. QED
    BY <2>2, <2>3
<1>3. /\ g \in Seq(Refresh) /\ Len(g) = Len(f) - 1
      /\ \A j \in 1..(Len(f) - 1) : g[j] = IF j < 1 THEN f[j] ELSE f[j + 1]
  BY <1>1, <1>2, Removed
<1> HIDE DEF g
<1>4. DOMAIN g = 1..(Len(f) - 1)
  BY <1>3, Places
<1>5. \A j \in DOMAIN g : j + 1 \in DOMAIN f /\ 1 < j + 1 /\ g[j] = f[j + 1]
  BY <1>2, <1>3, <1>4
<1>6. /\ t \in Nat /\ t <= n /\ (f[1].read # -2 => t <= f[1].read)
      /\ s <= t \/ (t = 0 /\ f[1].read = -2)
      /\ t = 0 \/ t = s \/ f[1].read # -2
  BY <1>1, <1>2 DEF TableOf
<1>7. \A j \in DOMAIN g : g[j].read \in {-1, -2} \/ (t <= g[j].read /\ g[j].read <= n)
  <2>1. ASSUME NEW j \in DOMAIN g, g[j].read # -1, g[j].read # -2
        PROVE  t <= g[j].read /\ g[j].read <= n
    <3>1. j + 1 \in DOMAIN f /\ 1 \in DOMAIN f /\ 1 < j + 1 /\ g[j] = f[j + 1]
      BY <1>2, <1>5
    <3>2. /\ f[1].read = -2 \/ f[1].read <= f[j + 1].read
          /\ s <= f[j + 1].read /\ f[j + 1].read <= n
      BY <1>1, <2>1, <3>1
    <3>3. f[1].read \in Int /\ f[j + 1].read \in Int /\ s \in Nat
      BY <1>1, <1>2, <3>1
    <3>4. QED
      BY <1>6, <3>1, <3>2, <3>3
  <2>2. QED
    BY <2>1
<1>8. ASSUME NEW k \in DOMAIN g, NEW j \in DOMAIN g, k < j, g[j].read # -1
      PROVE  g[k].read # -1 /\ (g[j].read # -2 => g[k].read = -2 \/ g[k].read <= g[j].read)
  <2>1. k + 1 \in DOMAIN f /\ j + 1 \in DOMAIN f /\ g[k] = f[k + 1] /\ g[j] = f[j + 1]
    BY <1>5
  <2>2. k + 1 < j + 1
    BY <1>2, <1>4, <1>8
  <2>3. QED
    BY <1>1, <1>8, <2>1, <2>2
<1>9. InStep(g, t, n)
  BY <1>1, <1>3, <1>6, <1>7, <1>8 DEF InStep
<1>10. QED
  BY <1>6, <1>9, <1>1 DEF g

(* What a step does to the refreshes.                                      *)
Refreshed ==
    \/ UNCHANGED <<fetches, sendShown, indexed>>
    \/ indexed' = indexed + 1 /\ UNCHANGED <<fetches, sendShown>>
    \/ /\ \E silent \in BOOLEAN :
             fetches' = Append(fetches, [silent |-> silent, read |-> -1])
       /\ UNCHANGED <<sendShown, indexed>>
    \/ /\ \E i \in DOMAIN fetches :
             /\ fetches[i].read = -1 /\ \A j \in 1..(i - 1) : fetches[j].read # -1
             /\ \E v \in {indexed, -2} : fetches' = RefreshRead(fetches, i, v)
       /\ UNCHANGED <<sendShown, indexed>>
    \/ /\ 1 \in DOMAIN fetches /\ fetches[1].read # -1
       /\ fetches' = SubSeq(fetches, 1, 1 - 1) \o SubSeq(fetches, 1 + 1, Len(fetches))
       /\ sendShown' \in {sendShown, TableOf(fetches[1].read)} /\ UNCHANGED indexed

(* It keeps them in step, and shows nothing older but the empty list of a  *)
(* refresh that ClickHouse failed.                                         *)
NotOlder ==
    \/ sendShown' >= sendShown
    \/ /\ sendShown' = 0 /\ 1 \in DOMAIN fetches /\ fetches[1].read = -2
       /\ fetches' = SubSeq(fetches, 1, 1 - 1) \o SubSeq(fetches, 1 + 1, Len(fetches))

LEMMA RefreshesStep ==
    InStep(fetches, sendShown, indexed) /\ Refreshed =>
        InStep(fetches, sendShown, indexed)' /\ NotOlder
<1> SUFFICES ASSUME InStep(fetches, sendShown, indexed), Refreshed
             PROVE  InStep(fetches', sendShown', indexed') /\ NotOlder
  BY DEF InStep
<1>0. sendShown \in Nat
  BY DEF InStep
<1>1. CASE UNCHANGED <<fetches, sendShown, indexed>>
  BY <1>0, <1>1 DEF NotOlder
<1>2. CASE indexed' = indexed + 1 /\ UNCHANGED <<fetches, sendShown>>
  BY <1>0, <1>2, RefreshesLater DEF NotOlder
<1>3. ASSUME NEW silent \in BOOLEAN, UNCHANGED <<sendShown, indexed>>,
             fetches' = Append(fetches, [silent |-> silent, read |-> -1])
      PROVE  InStep(fetches', sendShown', indexed') /\ NotOlder
  BY <1>0, <1>3, RefreshBegins DEF NotOlder
<1>4. ASSUME NEW i \in DOMAIN fetches, UNCHANGED <<sendShown, indexed>>,
             fetches[i].read = -1, \A j \in 1..(i - 1) : fetches[j].read # -1,
             NEW v \in {indexed, -2}, fetches' = RefreshRead(fetches, i, v)
      PROVE  InStep(fetches', sendShown', indexed') /\ NotOlder
  BY <1>0, <1>4, RefreshIsRead DEF NotOlder
<1>5. CASE /\ 1 \in DOMAIN fetches /\ fetches[1].read # -1
           /\ fetches' = SubSeq(fetches, 1, 1 - 1) \o SubSeq(fetches, 1 + 1, Len(fetches))
           /\ sendShown' \in {sendShown, TableOf(fetches[1].read)} /\ UNCHANGED indexed
  BY <1>5, RefreshIsDone DEF NotOlder
<1>6. QED
  BY <1>1, <1>2, <1>3, <1>4, <1>5 DEF Refreshed

(* The Transfer Center with transfers ...                                  *)
LEMMA SendRefreshes == Send!Next \/ UNCHANGED sendVars => Refreshed
<1> SUFFICES ASSUME Send!Next \/ UNCHANGED sendVars PROVE Refreshed
  OBVIOUS
<1>1. CASE Send!FetchRead
  <2>1. PICK i \in DOMAIN fetches :
            /\ fetches[i].read = -1
            /\ \A j \in 1..(i - 1) : fetches[j].read # -1
            /\ \E v \in {indexed, -2} : fetches' = [fetches EXCEPT ![i].read = v]
            /\ UNCHANGED <<sendShown, indexed>>
    BY <1>1 DEF Send!FetchRead, Send!Found, Send!Emptied, Send!Unanswered, Send!backend
  <2>2. \E v \in {indexed, -2} : fetches' = RefreshRead(fetches, i, v)
    BY <2>1 DEF RefreshRead
  <2>3. QED
    BY <2>1, <2>2 DEF Refreshed
<1>2. CASE Send!FetchDone
  <2>1. PICK i \in DOMAIN fetches, ok \in BOOLEAN :
            /\ i = 1 /\ fetches[i].read # -1
            /\ fetches' = Send!RemoveAt(fetches, i)
            /\ sendShown' = Send!ShownAfter(fetches[i], ok)
            /\ UNCHANGED indexed
    BY <1>2 DEF Send!FetchDone, Send!Unanswered, Send!backend
  <2>2. fetches' = SubSeq(fetches, 1, 1 - 1) \o SubSeq(fetches, 1 + 1, Len(fetches))
    BY <2>1 DEF Send!RemoveAt
  <2>3. sendShown' \in {sendShown, TableOf(fetches[1].read)}
    BY <2>1 DEF Send!ShownAfter, Send!Rows, Send!Emptied, TableOf
  <2>4. QED
    BY <2>1, <2>2, <2>3 DEF Refreshed
<1>3. ASSUME NEW silent \in BOOLEAN, Send!FetchData(silent), UNCHANGED <<sendShown, indexed>>
      PROVE  Refreshed
  BY <1>3 DEF Send!FetchData, Send!Unanswered, Refreshed
<1>4. CASE Send!PollFires
  BY <1>3, <1>4 DEF Send!PollFires, Send!backend
<1>5. CASE Send!RefreshClicked
  BY <1>3, <1>5 DEF Send!RefreshClicked, Send!backend
<1>6. CASE Send!Cancelled
  BY <1>3, <1>6 DEF Send!Cancelled
<1>7. CASE Send!Index
  BY <1>7 DEF Send!Index, Send!refresh, Refreshed
<1>8. CASE \/ Send!ClearFires \/ Send!ChooseTab \/ Send!OnPay \/ Send!TypeField
           \/ Send!HandleSubmit \/ Send!SubmitDone \/ Send!SubmitFailed \/ UNCHANGED sendVars
  <2>1. UNCHANGED <<fetches, sendShown, indexed>>
    BY <1>8 DEF sendVars, Send!ClearFires, Send!ChooseTab, Send!OnPay,
       Send!TypeField, Send!HandleSubmit, Send!SubmitDone,
       Send!SubmitFailed, Send!backend, Send!refresh
  <2>2. QED
    BY <2>1 DEF Refreshed
<1>9. QED
  BY <1>1, <1>2, <1>4, <1>5, <1>6, <1>7, <1>8 DEF Send!Next

(* ... and with refreshes that fail.                                       *)
LEMMA TwiceRefreshes == SendTwice!Next \/ UNCHANGED sendVars => Refreshed
<1> SUFFICES ASSUME SendTwice!Next \/ UNCHANGED sendVars PROVE Refreshed
  OBVIOUS
<1>1. CASE SendTwice!FetchRead
  <2>1. PICK i \in DOMAIN fetches :
            /\ fetches[i].read = -1
            /\ \A j \in 1..(i - 1) : fetches[j].read # -1
            /\ \E v \in {indexed, -2} : fetches' = [fetches EXCEPT ![i].read = v]
            /\ UNCHANGED <<sendShown, indexed>>
    BY <1>1 DEF SendTwice!FetchRead, SendTwice!Found, SendTwice!Emptied, SendTwice!Unanswered, SendTwice!backend
  <2>2. \E v \in {indexed, -2} : fetches' = RefreshRead(fetches, i, v)
    BY <2>1 DEF RefreshRead
  <2>3. QED
    BY <2>1, <2>2 DEF Refreshed
<1>2. CASE SendTwice!FetchDone
  <2>1. PICK i \in DOMAIN fetches, ok \in BOOLEAN :
            /\ i = 1 /\ fetches[i].read # -1
            /\ fetches' = SendTwice!RemoveAt(fetches, i)
            /\ sendShown' = SendTwice!ShownAfter(fetches[i], ok)
            /\ UNCHANGED indexed
    BY <1>2 DEF SendTwice!FetchDone, SendTwice!Unanswered, SendTwice!backend
  <2>2. fetches' = SubSeq(fetches, 1, 1 - 1) \o SubSeq(fetches, 1 + 1, Len(fetches))
    BY <2>1 DEF SendTwice!RemoveAt
  <2>3. sendShown' \in {sendShown, TableOf(fetches[1].read)}
    BY <2>1 DEF SendTwice!ShownAfter, SendTwice!Rows, SendTwice!Emptied, TableOf
  <2>4. QED
    BY <2>1, <2>2, <2>3 DEF Refreshed
<1>3. ASSUME NEW silent \in BOOLEAN, SendTwice!FetchData(silent), UNCHANGED <<sendShown, indexed>>
      PROVE  Refreshed
  BY <1>3 DEF SendTwice!FetchData, SendTwice!Unanswered, Refreshed
<1>4. CASE SendTwice!PollFires
  BY <1>3, <1>4 DEF SendTwice!PollFires, SendTwice!backend
<1>5. CASE SendTwice!RefreshClicked
  BY <1>3, <1>5 DEF SendTwice!RefreshClicked, SendTwice!backend
<1>6. CASE SendTwice!Cancelled
  BY <1>3, <1>6 DEF SendTwice!Cancelled
<1>7. CASE SendTwice!Index
  BY <1>7 DEF SendTwice!Index, SendTwice!refresh, Refreshed
<1>8. CASE \/ SendTwice!ClearFires \/ SendTwice!ChooseTab \/ SendTwice!OnPay \/ SendTwice!TypeField
           \/ SendTwice!HandleSubmit \/ SendTwice!SubmitDone \/ SendTwice!SubmitFailed \/ UNCHANGED sendVars
  <2>1. UNCHANGED <<fetches, sendShown, indexed>>
    BY <1>8 DEF sendVars, SendTwice!ClearFires, SendTwice!ChooseTab, SendTwice!OnPay,
       SendTwice!TypeField, SendTwice!HandleSubmit, SendTwice!SubmitDone,
       SendTwice!SubmitFailed, SendTwice!backend, SendTwice!refresh
  <2>2. QED
    BY <2>1 DEF Refreshed
<1>9. QED
  BY <1>1, <1>2, <1>4, <1>5, <1>6, <1>7, <1>8 DEF SendTwice!Next

-----------------------------------------------------------------------------
(* The form of the Transfer Center.                                        *)

SendCall == [tab : Send!Tab, mounted : BOOLEAN]

Mounted(c) == {i \in DOMAIN c : c[i].mounted}

(* One submission of the form on display is under way at most: until then  *)
(* its entry has had no success.  After a success the form is incomplete.  *)
SendForm ==
    /\ sendCalls \in Seq(SendCall)
    /\ \A i, j \in Mounted(sendCalls) : i = j
    /\ Mounted(sendCalls) # {} => submitting /\ sendWins = 0
    /\ sendWins \in {0, 1}
    /\ sendWins = 1 => ~({"recipient", "amount"} \subseteq filled)

Unmounted(c) == [i \in DOMAIN c |-> [c[i] EXCEPT !.mounted = FALSE]]

(* A form that is gone has no submission.                                  *)
LEMMA NoneMounted ==
    ASSUME NEW c \in Seq(SendCall)
    PROVE  Unmounted(c) \in Seq(SendCall) /\ Mounted(Unmounted(c)) = {}
<1>1. DOMAIN c = 1..Len(c) /\ Len(c) \in Nat /\ \A i \in DOMAIN c : c[i] \in SendCall
  BY Places
<1>2. ASSUME NEW i \in DOMAIN c
      PROVE  [c[i] EXCEPT !.mounted = FALSE] \in SendCall
             /\ ~([c[i] EXCEPT !.mounted = FALSE].mounted)
  <2>1. c[i] \in SendCall
    BY <1>1
  <2>2. QED
    BY <2>1 DEF SendCall
<1>3. Unmounted(c) \in [1..Len(c) -> SendCall]
  BY <1>1, <1>2 DEF Unmounted
<1>4. Unmounted(c) \in Seq(SendCall)
  BY <1>1, <1>3
<1>5. Mounted(Unmounted(c)) = {}
  BY <1>2 DEF Mounted, Unmounted
<1>6. QED
  BY <1>4, <1>5

Without(c, i) == SubSeq(c, 1, i - 1) \o SubSeq(c, i + 1, Len(c))

(* A submission that ends leaves the others as they were.                  *)
LEMMA CallEnds ==
    ASSUME NEW c \in Seq(SendCall), NEW i \in DOMAIN c, \A k, j \in Mounted(c) : k = j
    PROVE  /\ Without(c, i) \in Seq(SendCall)
           /\ \A k, j \in Mounted(Without(c, i)) : k = j
           /\ i \in Mounted(c) => Mounted(Without(c, i)) = {}
           /\ Mounted(Without(c, i)) # {} => Mounted(c) # {}
<1> DEFINE d == Without(c, i)
<1>1. DOMAIN c = 1..Len(c) /\ Len(c) \in Nat /\ i \in 1..Len(c)
  BY Places
<1>2. /\ d \in Seq(SendCall) /\ Len(d) = Len(c) - 1
      /\ \A j \in 1..(Len(c) - 1) : d[j] = IF j < i THEN c[j] ELSE c[j + 1]
  BY <1>1, Removed DEF Without
<1> HIDE DEF d
<1>3. DOMAIN d = 1..(Len(c) - 1)
  BY <1>2, Places
<1> DEFINE from(j) == IF j < i THEN j ELSE j + 1
<1>4. \A j \in Mounted(d) : from(j) \in Mounted(c) /\ from(j) # i /\ j \in Nat
  <2>1. ASSUME NEW j \in Mounted(d) PROVE from(j) \in Mounted(c) /\ from(j) # i /\ j \in Nat
    <3>1. j \in 1..(Len(c) - 1) /\ d[j].mounted
      BY <1>3 DEF Mounted
    <3>2. CASE j < i
      <4>1. j \in DOMAIN c /\ d[j] = c[j]
        BY <1>1, <1>2, <3>1, <3>2
      <4>2. QED
        BY <1>1, <3>1, <3>2, <4>1 DEF Mounted
    <3>3. CASE ~(j < i)
      <4>1. j + 1 \in DOMAIN c /\ d[j] = c[j + 1] /\ j + 1 # i
        BY <1>1, <1>2, <3>1, <3>3
      <4>2. QED
        BY <1>1, <3>1, <3>3, <4>1 DEF Mounted
    <3>4. QED
      BY <3>2, <3>3
  <2>2. QED
    BY <2>1
<1>5. ASSUME NEW k \in Mounted(d), NEW j \in Mounted(d) PROVE k = j
  <2>1. from(k) = from(j) /\ k \in Nat /\ j \in Nat
    BY <1>4
  <2>2. QED
    BY <1>1, <2>1
<1>6. ASSUME i \in Mounted(c) PROVE Mounted(d) = {}
  <2>1. ASSUME NEW j \in Mounted(d) PROVE FALSE
    <3>1. from(j) \in Mounted(c) /\ from(j) # i
      BY <1>4
    <3>2. QED
      BY <1>6, <3>1
  <2>2. QED
    BY <2>1
<1>7. Mounted(d) # {} => Mounted(c) # {}
  BY <1>4
<1>8. QED
  BY <1>2, <1>5, <1>6, <1>7 DEF d

(* A submission of the form on display.                                    *)
LEMMA CallBegins ==
    ASSUME NEW c \in Seq(SendCall), Mounted(c) = {}, NEW tab \in Send!Tab
    PROVE  /\ Append(c, [tab |-> tab, mounted |-> TRUE]) \in Seq(SendCall)
           /\ \A k, j \in Mounted(Append(c, [tab |-> tab, mounted |-> TRUE])) : k = j
<1> DEFINE new == [tab |-> tab, mounted |-> TRUE]
           d == Append(c, new)
<1>1. new \in SendCall
  BY DEF SendCall
<1> HIDE DEF new
<1>2. /\ d \in Seq(SendCall) /\ DOMAIN d = DOMAIN c \cup {Len(c) + 1}
      /\ \A j \in DOMAIN c : d[j] = c[j]
  BY <1>1, Appended
<1> HIDE DEF d
<1>3. \A k \in Mounted(d) : k = Len(c) + 1
  BY <1>2 DEF Mounted
<1>4. QED
  BY <1>2, <1>3 DEF d, new

(* The form is empty in the beginning.                                     *)
LEMMA SendFormInit == Send!Init => SendForm
<1> SUFFICES ASSUME Send!Init PROVE SendForm
  OBVIOUS
<1>1. sendCalls = <<>> /\ sendWins = 0
  BY DEF Send!Init
<1>2. Mounted(sendCalls) = {}
  BY <1>1 DEF Mounted
<1>3. QED
  BY <1>1, <1>2 DEF SendForm

(* Whatever is entered, submitted or changed while calls are under way.    *)
LEMMA SendFormStep ==
    SendForm /\ activeTab \in Send!Tab /\ (Send!Next \/ UNCHANGED sendVars) => SendForm'
<1> SUFFICES ASSUME SendForm, activeTab \in Send!Tab, Send!Next \/ UNCHANGED sendVars
             PROVE  SendForm'
  OBVIOUS
<1>0. /\ sendCalls \in Seq(SendCall) /\ sendWins \in {0, 1}
      /\ \A i, j \in Mounted(sendCalls) : i = j
  BY DEF SendForm
<1>1. CASE UNCHANGED <<filled, submitting, sendCalls, sendWins>>
  BY <1>1 DEF SendForm
<1>2. ASSUME sendCalls' = Unmounted(sendCalls), sendWins' = 0 PROVE SendForm'
  <2>1. sendCalls' \in Seq(SendCall) /\ Mounted(sendCalls') = {}
    BY <1>0, <1>2, NoneMounted
  <2>2. QED
    BY <1>2, <2>1 DEF SendForm
<1>3. CASE Send!Gate
  <2>1. \/ sendCalls' = Unmounted(sendCalls) /\ sendWins' = 0
        \/ UNCHANGED <<filled, submitting, sendCalls, sendWins>>
    BY <1>3 DEF Send!Gate, Send!form, Unmounted
  <2>2. QED
    BY <1>1, <1>2, <2>1
<1>4. CASE Send!ChooseTab \/ Send!OnPay
  BY <1>2, <1>4 DEF Send!ChooseTab, Send!OnPay, Unmounted
<1>5. CASE Send!TypeField
  <2>1. sendWins' = 0 /\ UNCHANGED <<submitting, sendCalls>>
    BY <1>5 DEF Send!TypeField
  <2>2. QED
    BY <1>0, <2>1 DEF SendForm
<1>6. CASE Send!HandleSubmit
  <2>1. /\ ~submitting /\ submitting' /\ {"recipient", "amount"} \subseteq filled
        /\ sendCalls' = Append(sendCalls, [tab |-> activeTab, mounted |-> TRUE])
        /\ UNCHANGED <<filled, sendWins>>
    BY <1>6 DEF Send!HandleSubmit
  <2>2. sendWins = 0 /\ Mounted(sendCalls) = {}
    BY <2>1 DEF SendForm
  <2>3. sendCalls' \in Seq(SendCall) /\ \A k, j \in Mounted(sendCalls') : k = j
    BY <1>0, <2>1, <2>2, CallBegins
  <2>4. QED
    BY <2>1, <2>2, <2>3 DEF SendForm
<1>7. CASE Send!SubmitDone
  <2>1. PICK i \in DOMAIN sendCalls :
            /\ sendCalls' = Send!RemoveAt(sendCalls, i)
            /\ IF sendCalls[i].mounted
               THEN /\ filled' = filled \ Send!Cleared(sendCalls[i].tab)
                    /\ sendWins' = sendWins + 1
               ELSE UNCHANGED <<filled, submitting, sendWins>>
    BY <1>7 DEF Send!SubmitDone
  <2>2. sendCalls' = Without(sendCalls, i)
    BY <2>1 DEF Send!RemoveAt, Without
  <2>3. /\ sendCalls' \in Seq(SendCall)
        /\ \A k, j \in Mounted(sendCalls') : k = j
        /\ i \in Mounted(sendCalls) => Mounted(sendCalls') = {}
        /\ Mounted(sendCalls') # {} => Mounted(sendCalls) # {}
    BY <1>0, <2>2, CallEnds
  <2>4. CASE i \in Mounted(sendCalls)
    <3>1. /\ filled' = filled \ Send!Cleared(sendCalls[i].tab) /\ sendWins' = sendWins + 1
      BY <2>1, <2>4 DEF Mounted
    <3>2. sendWins = 0
      BY <2>4 DEF SendForm
    <3>3. "recipient" \notin filled'
      BY <3>1, SendConstants DEF SendConstants, Send!Cleared
    <3>4. QED
      BY <2>3, <2>4, <3>1, <3>2, <3>3 DEF SendForm
  <2>5. CASE i \notin Mounted(sendCalls)
    <3>1. UNCHANGED <<filled, submitting, sendWins>>
      BY <2>1, <2>5 DEF Mounted
    <3>2. QED
      BY <2>3, <3>1 DEF SendForm
  <2>6. QED
    BY <2>4, <2>5
<1>8. CASE Send!SubmitFailed
  <2>1. PICK i \in DOMAIN sendCalls :
            /\ sendCalls' = Send!RemoveAt(sendCalls, i)
            /\ submitting' = (submitting /\ ~sendCalls[i].mounted)
            /\ UNCHANGED <<filled, sendWins>>
    BY <1>8 DEF Send!SubmitFailed
  <2>2. sendCalls' = Without(sendCalls, i)
    BY <2>1 DEF Send!RemoveAt, Without
  <2>3. /\ sendCalls' \in Seq(SendCall)
        /\ \A k, j \in Mounted(sendCalls') : k = j
        /\ i \in Mounted(sendCalls) => Mounted(sendCalls') = {}
        /\ Mounted(sendCalls') # {} => Mounted(sendCalls) # {}
    BY <1>0, <2>2, CallEnds
  <2>4. Mounted(sendCalls') # {} => submitting' /\ sendWins' = 0
    <3>1. ASSUME Mounted(sendCalls') # {} PROVE submitting /\ ~sendCalls[i].mounted /\ sendWins = 0
      BY <2>3, <3>1 DEF SendForm, Mounted
    <3>2. QED
      BY <2>1, <3>1
  <2>5. QED
    BY <2>1, <2>3, <2>4 DEF SendForm
<1>9. CASE Send!FetchDone \/ Send!RefreshClicked
  BY <1>3, <1>9 DEF Send!FetchDone, Send!RefreshClicked
<1>10. CASE \/ Send!FetchRead \/ Send!PollFires \/ Send!Index \/ Send!ClearFires
            \/ Send!Cancelled \/ UNCHANGED sendVars
  BY <1>1, <1>10
  DEF sendVars, Send!form, Send!FetchRead, Send!PollFires, Send!Index, Send!ClearFires, Send!Cancelled
<1>11. QED
  BY <1>4, <1>5, <1>6, <1>7, <1>8, <1>9, <1>10 DEF Send!Next

(* The rest of the page.                                                   *)
SendTypes ==
    /\ activeTab \in Send!Tab /\ filled \subseteq Field
    /\ version \in Nat /\ indexed \in Nat /\ indexed <= version
    /\ submitted \in 0..MaxTransfers
    /\ polls \in Nat /\ clears \in Nat
    /\ notification \in {"none", "success", "error"}

SendFlags == submitting \in BOOLEAN /\ sendLoading \in BOOLEAN /\ known \in BOOLEAN

(* The page begins with one refresh, of nothing.                           *)
LEMMA SendInit ==
    Send!Init => SendForm /\ SendTypes /\ SendFlags /\ InStep(fetches, sendShown, indexed)
<1> SUFFICES ASSUME Send!Init
             PROVE  SendForm /\ SendTypes /\ SendFlags /\ InStep(fetches, sendShown, indexed)
  OBVIOUS
<1>1. SendTypes
  BY SendConstants DEF SendConstants, SendTypes, Send!Init
<1>2. SendFlags
  BY Zenon DEF SendFlags, Send!Init
<1>3. InStep(fetches, sendShown, indexed)
  <2>1. /\ fetches = <<[silent |-> FALSE, read |-> -1]>> /\ sendShown = 0 /\ indexed = 0
    BY DEF Send!Init, Send!Unanswered
  <2>2. fetches \in Seq(Refresh) /\ \A i \in DOMAIN fetches : i = 1 /\ fetches[i].read = -1
    BY <2>1 DEF Refresh
  <2>3. QED
    BY <2>1, <2>2 DEF InStep
<1>4. QED
  BY <1>1, <1>2, <1>3, SendFormInit

(* Its counters only count.                                                *)
LEMMA SendTypesStep == SendTypes /\ (Send!Next \/ UNCHANGED sendVars) => SendTypes'
<1> SUFFICES ASSUME SendTypes, Send!Next \/ UNCHANGED sendVars PROVE SendTypes'
  OBVIOUS
<1>0. MaxTransfers \in Nat
  BY SendConstants DEF SendConstants
<1>1. activeTab' \in Send!Tab /\ filled' \subseteq Field
  <2>1. activeTab' \in Send!Tab \/ UNCHANGED activeTab
    BY DEF Send!Next, sendVars, Send!FetchRead, Send!FetchDone, Send!PollFires, Send!RefreshClicked,
       Send!Index, Send!ClearFires, Send!ChooseTab, Send!OnPay, Send!TypeField, Send!HandleSubmit,
       Send!SubmitDone, Send!SubmitFailed, Send!Cancelled, Send!Gate, Send!form, Send!Tab
  <2>2. filled' \subseteq filled \cup Field
    BY DEF Send!Next, sendVars, Send!FetchRead, Send!FetchDone, Send!PollFires, Send!RefreshClicked,
       Send!Index, Send!ClearFires, Send!ChooseTab, Send!OnPay, Send!TypeField, Send!HandleSubmit,
       Send!SubmitDone, Send!SubmitFailed, Send!Cancelled, Send!Gate, Send!form
  <2>3. QED
    BY <2>1, <2>2 DEF SendTypes
<1>2. version' \in Nat /\ indexed' \in Nat /\ indexed' <= version'
  <2>1. CASE Send!Index
    BY <2>1 DEF Send!Index, SendTypes
  <2>2. CASE Send!SubmitDone \/ Send!SubmitFailed \/ Send!Cancelled
    <3>1. /\ UNCHANGED indexed
          /\ version' = version + 1 \/ \E ending \in {"data", "error", "network"} : Send!Carried(ending)
      BY <2>2, Zenon DEF Send!SubmitDone, Send!SubmitFailed, Send!Cancelled
    <3>2. ASSUME NEW ending, Send!Carried(ending) PROVE version' \in {version, version + 1}
      BY <3>2 DEF Send!Carried, SendTypes
    <3>3. QED
      BY <3>1, <3>2 DEF SendTypes
  <2>3. CASE \/ Send!FetchRead \/ Send!FetchDone \/ Send!PollFires \/ Send!RefreshClicked
             \/ Send!ClearFires \/ Send!ChooseTab \/ Send!OnPay \/ Send!TypeField
             \/ Send!HandleSubmit \/ UNCHANGED sendVars
    BY <2>3 DEF SendTypes, sendVars, Send!backend, Send!FetchRead, Send!FetchDone, Send!PollFires,
       Send!RefreshClicked, Send!ClearFires, Send!ChooseTab, Send!OnPay, Send!TypeField,
       Send!HandleSubmit
  <2>4. QED
    BY <2>1, <2>2, <2>3 DEF Send!Next
<1>3. submitted' \in 0..MaxTransfers
  <2>1. UNCHANGED submitted \/ (submitted < MaxTransfers /\ submitted' = submitted + 1)
    BY DEF Send!Next, sendVars, Send!backend, Send!FetchRead, Send!FetchDone, Send!PollFires,
       Send!RefreshClicked, Send!Index, Send!ClearFires, Send!ChooseTab, Send!OnPay, Send!TypeField,
       Send!HandleSubmit, Send!SubmitDone, Send!SubmitFailed, Send!Cancelled
  <2>2. QED
    BY <1>0, <2>1 DEF SendTypes
<1>4. polls' \in Nat /\ clears' \in Nat /\ notification' \in {"none", "success", "error"}
  <2>1. /\ polls' \in {polls, polls + 3} \/ (polls > 0 /\ polls' = polls - 1)
        /\ clears' \in {clears, clears + 1} \/ (clears > 0 /\ clears' = clears - 1)
        /\ notification' \in {notification, "none", "success", "error"}
    BY DEF Send!Next, sendVars, Send!refresh, Send!toast, Send!Notify, Send!HandleTransferSuccess,
       Send!FetchRead, Send!FetchDone, Send!PollFires, Send!RefreshClicked, Send!Index,
       Send!ClearFires, Send!ChooseTab, Send!OnPay, Send!TypeField, Send!HandleSubmit,
       Send!SubmitDone, Send!SubmitFailed, Send!Cancelled
  <2>2. QED
    BY <2>1 DEF SendTypes
<1>5. QED
  BY <1>1, <1>2, <1>3, <1>4 DEF SendTypes

(* Its flags.                                                              *)
LEMMA SendFlagsStep ==
    SendFlags /\ (Send!Next \/ UNCHANGED sendVars) => SendFlags'
<1> SUFFICES ASSUME SendFlags, Send!Next \/ UNCHANGED sendVars PROVE SendFlags'
  OBVIOUS
<1>1. \/ UNCHANGED submitting \/ submitting' = FALSE \/ submitting' = TRUE
      \/ \E i \in DOMAIN sendCalls : submitting' = (submitting /\ ~sendCalls[i].mounted)
  BY DEF Send!Next, sendVars, Send!form, Send!FetchRead, Send!FetchDone, Send!PollFires,
     Send!RefreshClicked, Send!Index, Send!ClearFires, Send!ChooseTab, Send!OnPay, Send!TypeField,
     Send!HandleSubmit, Send!SubmitDone, Send!SubmitFailed, Send!Cancelled, Send!Gate
<1>2. \/ UNCHANGED sendLoading \/ sendLoading' = FALSE
      \/ \E silent \in BOOLEAN : sendLoading' = (sendLoading \/ ~silent)
  BY DEF Send!Next, sendVars, Send!refresh, Send!FetchRead, Send!FetchDone, Send!PollFires,
     Send!RefreshClicked, Send!Index, Send!ClearFires, Send!ChooseTab, Send!OnPay, Send!TypeField,
     Send!HandleSubmit, Send!SubmitDone, Send!SubmitFailed, Send!Cancelled, Send!FetchData,
     Send!Finished
<1>3. UNCHANGED known \/ \E ok \in BOOLEAN : known' = (known \/ ok)
  BY DEF Send!Next, sendVars, Send!refresh, Send!FetchRead, Send!FetchDone, Send!PollFires,
     Send!RefreshClicked, Send!Index, Send!ClearFires, Send!ChooseTab, Send!OnPay, Send!TypeField,
     Send!HandleSubmit, Send!SubmitDone, Send!SubmitFailed, Send!Cancelled
<1>4. submitting' \in BOOLEAN
  BY <1>1, Zenon DEF SendFlags
<1>5. sendLoading' \in BOOLEAN
  BY <1>2, Zenon DEF SendFlags
<1>6. known' \in BOOLEAN
  BY <1>3, Zenon DEF SendFlags
<1>7. QED
  BY <1>4, <1>5, <1>6 DEF SendFlags

(* The types of the Transfer Center.                                       *)
LEMMA SendTypeOK ==
    SendForm /\ SendTypes /\ SendFlags /\ InStep(fetches, sendShown, indexed) => Send!TypeOK
<1> SUFFICES ASSUME SendForm, SendTypes, SendFlags, InStep(fetches, sendShown, indexed)
             PROVE  Send!TypeOK
  OBVIOUS
<1>1. \A c \in Send!ToSet(sendCalls) : c \in SendCall
  <2>1. \A i \in DOMAIN sendCalls : sendCalls[i] \in SendCall
    BY DEF SendForm
  <2>2. QED
    BY <2>1 DEF Send!ToSet
<1>2. \A f \in Send!ToSet(fetches) : f.silent \in BOOLEAN /\ f.read \in {-1, -2} \cup 0..version
  <2>1. ASSUME NEW i \in DOMAIN fetches
        PROVE  fetches[i] \in Refresh /\ fetches[i].read \in {-1, -2} \cup 0..version
    <3>1. fetches[i] \in Refresh
      BY DEF InStep
    <3>2. fetches[i].read \in Int
      BY <3>1 DEF Refresh
    <3>3. fetches[i].read \in {-1, -2} \/ (sendShown <= fetches[i].read /\ fetches[i].read <= indexed)
      BY DEF InStep
    <3>4. sendShown \in Nat /\ indexed \in Nat /\ version \in Nat /\ indexed <= version
      BY DEF InStep, SendTypes
    <3>5. QED
      BY <3>1, <3>2, <3>3, <3>4
  <2>2. ASSUME NEW f \in Send!ToSet(fetches) PROVE f \in Refresh /\ f.read \in {-1, -2} \cup 0..version
    <3>1. PICK i \in DOMAIN fetches : f = fetches[i]
      BY DEF Send!ToSet
    <3>2. QED
      BY <2>1, <3>1
  <2>3. QED
    BY <2>2, Zenon DEF Refresh
<1>3. sendShown \in 0..version /\ indexed \in 0..version /\ sendWins \in Nat
  BY DEF InStep, SendTypes, SendForm
<1>4. QED
  BY <1>1, <1>2, <1>3, Zenon
  DEF Send!TypeOK, Send!Unanswered, Send!Emptied, SendTypes, SendFlags, SendCall

-----------------------------------------------------------------------------
(* The visits.                                                             *)

VaultInv == VaultAccounts /\ VaultTold /\ VaultCreations /\ VaultFlags

(* The parts of the vault's invariant rest on one another.                 *)
LEMMA VaultStep == VaultInv /\ (Vaults!Next \/ UNCHANGED vaultVars) => VaultInv'
<1> SUFFICES ASSUME VaultInv, Vaults!Next \/ UNCHANGED vaultVars PROVE VaultInv'
  OBVIOUS
<1>1. mode \in Vaults!Mode
  BY DEF VaultInv, VaultFlags
<1>2. QED
  BY <1>1, AccountsStep, ToldStep, CreationsStep, VaultFlagsStep DEF VaultInv

SendInv ==
    SendForm /\ SendTypes /\ SendFlags /\ InStep(fetches, sendShown, indexed)

(* So do those of the Transfer Center.                                     *)
LEMMA SendStep == SendInv /\ (Send!Next \/ UNCHANGED sendVars) => SendInv'
<1> SUFFICES ASSUME SendInv, Send!Next \/ UNCHANGED sendVars PROVE SendInv'
  OBVIOUS
<1>1. activeTab \in Send!Tab
  BY DEF SendInv, SendTypes
<1>2. Refreshed
  BY SendRefreshes
<1>3. QED
  BY <1>1, <1>2, RefreshesStep, SendFormStep, SendTypesStep, SendFlagsStep DEF SendInv

(* What a screen of the payments tells the customer has happened: the hub, *)
(* the Transfer Center, the transfers between accounts, the vault and the  *)
(* Federal Reserve tab report nothing of which the backend knows nothing,  *)
(* and nothing twice, whatever is pressed, lost, retried or overtaken      *)
(* while they wait.                                                        *)
THEOREM ClaimsHold == VisitSpec => []ClaimsAreBacked
<1> DEFINE I ==
        /\ At("hub") => HubInv
        /\ At("send") => SendInv
        /\ At("between") => BetweenInv
        /\ At("vaults") => VaultInv
        /\ At("fed") => FedInv
        /\ At("lookup") => FedLookup!BankOrWarning
<1>1. VisitInit => I
  <2>1. FedLookup!Init => FedLookup!BankOrWarning
    BY DEF FedLookup!Init, FedLookup!BankOrWarning
  <2>2. QED
    BY <2>1, HubInit, SendInit, BetweenInit, VaultInit, FedInit DEF VisitInit, At, SendInv, VaultInv
<1>2. I /\ [VisitNext]_visitVars => I'
  <2> SUFFICES ASSUME I, [VisitNext]_visitVars PROVE I'
    OBVIOUS
  <2>1. At("hub")' => HubInv'
    BY HubStep DEF VisitNext, visitVars, At
  <2>2. At("send")' => SendInv'
    BY SendStep DEF VisitNext, visitVars, At
  <2>3. At("between")' => BetweenInv'
    BY BetweenStep DEF VisitNext, visitVars, At
  <2>4. At("vaults")' => VaultInv'
    BY VaultStep DEF VisitNext, visitVars, At
  <2>5. At("fed")' => FedInv'
    BY FedStep DEF VisitNext, visitVars, At
  <2>6. At("lookup")' => FedLookup!BankOrWarning'
    BY LookupStep DEF VisitNext, visitVars, At
  <2>7. QED
    BY <2>1, <2>2, <2>3, <2>4, <2>5, <2>6
<1>3. I => ClaimsAreBacked
  <2>1. SendInv => Send!OneSuccessPerEntry
    BY DEF SendInv, SendForm, Send!OneSuccessPerEntry
  <2>2. FedInv => Fed!BookedIsSettled /\ Fed!AnnouncedIsSettled
    BY DEF FedInv, BankKnows, Fed!BookedIsSettled, Fed!Settled
  <2>3. QED
    BY <2>1, <2>2, HubFacts, BetweenFacts, VaultFacts DEF ClaimsAreBacked, VaultInv
<1>4. QED
  BY <1>1, <1>2, <1>3, PTL DEF VisitSpec

(* Between a customer's own accounts money is neither made nor lost, a     *)
(* form never names one account twice, and the vault moves the customer's  *)
(* money only.  The master account shows every transfer the gateway has    *)
(* settled until two of them meet between its read and its write           *)
(* (fedwire.py); and, met or not, as long as the bank sends wires and ACH  *)
(* entries only, the balance recorded keeps to the daylight overdraft.     *)
THEOREM MoneyIsKept ==
    ASSUME Overdraft \in Int, Reserve >= -Overdraft
    PROVE  VisitSpec => []MoneyKept
<1> DEFINE I ==
        /\ At("between") => BetweenInv
        /\ At("vaults") => VaultInv
        /\ At("fed") => FedInv /\ FedBooks /\ ("fednow" \notin UsedRails => Headroom)
<1>1. VisitInit => I
  <2>1. Fed!Init => Headroom
    BY DEF Fed!Init, Headroom
  <2>2. QED
    BY <2>1, BetweenInit, VaultInit, FedInit, FedBooksInit DEF VisitInit, At, VaultInv
<1>2. I /\ [VisitNext]_visitVars => I'
  <2> SUFFICES ASSUME I, [VisitNext]_visitVars PROVE I'
    OBVIOUS
  <2>1. At("between")' => BetweenInv'
    BY BetweenStep DEF VisitNext, visitVars, At
  <2>2. At("vaults")' => VaultInv'
    BY VaultStep DEF VisitNext, visitVars, At
  <2>3. At("fed")' => FedInv' /\ FedBooks'
    BY FedStep, FedBooksStep DEF VisitNext, visitVars, At
  <2>4. "fednow" \notin UsedRails => UsedRails \subseteq {"wire", "ach"}
    BY FedConstants DEF FedConstants, Fed!Rail
  <2>5. At("fed")' => ("fednow" \notin UsedRails => Headroom')
    BY <2>4, HeadroomStep DEF VisitNext, visitVars, At
  <2>6. QED
    BY <2>1, <2>2, <2>3, <2>5
<1>3. I => MoneyKept
  BY BetweenFacts, VaultFacts DEF MoneyKept, VaultInv, FedBooks, Headroom, Fed!OverdraftKept
<1>4. QED
  BY <1>1, <1>2, <1>3, PTL DEF VisitSpec

(* With answers in the order of the requests the tables of the Transfer    *)
(* Center show less than before only when they show nothing, and the       *)
(* refresh just done is one that ClickHouse failed: its endpoint answers   *)
(* such a request with an empty list and status 200 (dashboard.py).        *)
(* Neither refreshes that overlap, nor those whose request fails, nor a    *)
(* ClickHouse that catches up meanwhile do it (send/page.tsx, fetchData).  *)
THEOREM TablesNeverGoBack == VisitSpec => NeverGoesBack
<1> DEFINE I == At("refreshing") => InStep(fetches, sendShown, indexed)
<1>1. VisitInit => I
  <2>1. SendTwice!Init => InStep(fetches, sendShown, indexed)
    <3> SUFFICES ASSUME SendTwice!Init PROVE InStep(fetches, sendShown, indexed)
      OBVIOUS
    <3>1. /\ fetches = <<[silent |-> FALSE, read |-> -1]>> /\ sendShown = 0 /\ indexed = 0
      BY DEF SendTwice!Init, SendTwice!Unanswered
    <3>2. fetches \in Seq(Refresh) /\ \A i \in DOMAIN fetches : i = 1 /\ fetches[i].read = -1
      BY <3>1 DEF Refresh
    <3>3. QED
      BY <3>1, <3>2 DEF InStep
  <2>2. QED
    BY <2>1 DEF VisitInit, At
<1> DEFINE Backwards ==
        At("refreshing") /\ sendShown' < sendShown =>
            /\ sendShown' = 0
            /\ \E i \in DOMAIN fetches :
                  /\ fetches[i].read = SendTwice!Emptied
                  /\ fetches' = SendTwice!RemoveAt(fetches, i)
<1>2. ASSUME I, [VisitNext]_visitVars PROVE I' /\ Backwards
  <2>1. CASE At("refreshing")
    <3>1. SendTwice!Next \/ UNCHANGED sendVars
      BY <1>2, <2>1 DEF VisitNext, visitVars, At
    <3>2. InStep(fetches, sendShown, indexed)' /\ NotOlder
      BY <1>2, <2>1, <3>1, TwiceRefreshes, RefreshesStep
    <3>3. sendShown \in Nat /\ sendShown' \in Nat
      BY <1>2, <2>1, <3>2 DEF InStep
    <3>4. ASSUME sendShown' >= sendShown PROVE Backwards
      BY <3>3, <3>4
    <3>5. ASSUME sendShown' = 0, 1 \in DOMAIN fetches, fetches[1].read = -2,
                 fetches' = SubSeq(fetches, 1, 1 - 1) \o SubSeq(fetches, 1 + 1, Len(fetches))
          PROVE  Backwards
      <4>1. fetches' = SendTwice!RemoveAt(fetches, 1) /\ fetches[1].read = SendTwice!Emptied
        BY <3>5 DEF SendTwice!Emptied, SendTwice!RemoveAt
      <4>2. QED
        BY <3>5, <4>1
    <3>6. Backwards
      BY <3>2, <3>4, <3>5 DEF NotOlder
    <3>7. QED
      BY <3>2, <3>6
  <2>2. CASE ~At("refreshing")
    <3>1. ~At("refreshing")'
      BY <1>2, <2>2 DEF VisitNext, visitVars, At
    <3>2. QED
      BY <2>2, <3>1
  <2>3. QED
    BY <2>1, <2>2
<1>3. I /\ [VisitNext]_visitVars => [Backwards]_visitVars
  BY <1>2
<1>4. I /\ [VisitNext]_visitVars => I'
  BY <1>2
<1>5. QED
  BY <1>1, <1>3, <1>4, PTL DEF VisitSpec, NeverGoesBack

(* The API client and every screen keep their types.                       *)
THEOREM TypesHold == VisitSpec => []TypesOK
<1> DEFINE I ==
        /\ IInv
        /\ At("hub") => HubInv
        /\ At("send") => SendInv
        /\ At("between") => BetweenInv /\ BetweenFlags
        /\ At("vaults") => VaultInv
        /\ At("fed") => FedInv /\ FedBooks /\ FedFlags /\ FedForm
<1>1. VisitInit => I
  BY InitInv, HubInit, SendInit, BetweenInit, VaultInit, FedInit, FedBooksInit, FedFormInit
     DEF VisitInit, At, SendInv, VaultInv
<1>2. I /\ [VisitNext]_visitVars => I'
  <2> SUFFICES ASSUME I, [VisitNext]_visitVars PROVE I'
    OBVIOUS
  <2>1. IInv'
    <3>1. [Next]_vars
      BY DEF VisitNext, visitVars, At
    <3>2. QED
      BY <3>1, NextInv
  <2>2. At("hub")' => HubInv'
    BY HubStep DEF VisitNext, visitVars, At
  <2>3. At("send")' => SendInv'
    BY SendStep DEF VisitNext, visitVars, At
  <2>4. At("between")' => BetweenInv' /\ BetweenFlags'
    BY BetweenStep, BetweenFlagsStep DEF VisitNext, visitVars, At
  <2>5. At("vaults")' => VaultInv'
    BY VaultStep DEF VisitNext, visitVars, At
  <2>6. At("fed")' => FedInv' /\ FedBooks' /\ FedFlags' /\ FedForm'
    BY FedStep, FedBooksStep, FedFormStep DEF VisitNext, visitVars, At, FedInv
  <2>7. QED
    BY <2>1, <2>2, <2>3, <2>4, <2>5, <2>6
<1>3. I => TypesOK
  <2>1. IInv => TypeOK
    BY DEF IInv
  <2>2. QED
    BY <2>1, HubTypeOK, SendTypeOK, BetweenTypeOK, VaultTypeOK, FedTypeOK
    DEF TypesOK, SendInv, VaultInv, FedInv
<1>4. QED
  BY <1>1, <1>2, <1>3, PTL DEF VisitSpec
=============================================================================
