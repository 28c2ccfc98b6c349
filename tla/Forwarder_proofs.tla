-------------------------- MODULE Forwarder_proofs ---------------------------
(* What the spool promises for any number of processes, writers, records,    *)
(* process deaths and lost replies.                                          *)
EXTENDS Forwarder, FiniteSetTheorems, TLAPS

USE ForwarderAssumption DEF ForwarderAssumption

-----------------------------------------------------------------------------
(* The type invariant.                                                       *)

LEMMA InitTypeOK == Init => TypeOK
<1>1. <<>> \in Seq(1..MaxRecords)
  OBVIOUS
<1> QED
  BY <1>1 DEF Init, TypeOK

\* A failed attempt doubles the timeout, up to its cap.
LEMMA BackoffTyped ==
    ASSUME TypeOK, NEW p \in Processes, Backoff(p)
    PROVE  /\ backoff' \in [Processes -> 1..MaxBackoff]
           /\ pc' = [pc EXCEPT ![p] = "wait"]
<1>1. Doubled(backoff[p]) \in 1..MaxBackoff
  BY DEF TypeOK, Doubled
<1> QED
  BY <1>1 DEF TypeOK, Backoff, Go

\* A record is received as a whole: the sink's sequence grows by its target.
LEMMA SinkGrows ==
    ASSUME TypeOK, NEW p \in Processes, pc[p] = "post"
    PROVE  Append(sink, target[p]) \in Seq(1..MaxRecords)
<1>1. target[p] \in 1..MaxRecords
  BY DEF TypeOK
<1> QED
  BY <1>1 DEF TypeOK

LEMMA NextTypeOK == TypeOK /\ [Next]_vars => TypeOK'
<1> SUFFICES ASSUME TypeOK, [Next]_vars PROVE TypeOK'
  OBVIOUS
<1> USE DEF TypeOK, spool, writing, sending, Go
<1>1. CASE \E w \in Writers : Choose(w)
  BY <1>1, SMTT(40) DEF Choose
<1>2. CASE \E w \in Writers : Publish(w)
  BY <1>2, ZenonT(40) DEF Publish
<1>3. CASE \E w \in Writers : Wake(w)
  BY <1>3 DEF Wake
<1>4. CASE \E p \in Processes : Wait(p)
  BY <1>4 DEF Wait
<1>5. CASE \E p \in Processes : Clear(p)
  BY <1>5 DEF Clear
<1>6. CASE \E p \in Processes : ListNothing(p) \/ ListOldest(p)
  <2> PICK p \in Processes : ListNothing(p) \/ ListOldest(p)
    BY <1>6
  <2>1. CASE ListNothing(p)
    BY <2>1 DEF ListNothing
  <2>2. CASE ListOldest(p)
    <3>1. PICK oldest \in 1..names : target' = [target EXCEPT ![p] = oldest]
      BY <2>2 DEF ListOldest
    <3> QED
      BY <2>2, <3>1 DEF ListOldest
  <2> QED
    BY <2>1, <2>2
<1>7. CASE \E p \in Processes : Read(p)
  BY <1>7 DEF Read
<1>8. CASE \E p \in Processes : Accepted(p)
  BY <1>8, SinkGrows DEF Accepted
<1>9. CASE \E p \in Processes : Rejected(p)
  BY <1>9, BackoffTyped DEF Rejected
<1>10. CASE \E p \in Processes : ReplyLost(p)
  <2> PICK p \in Processes : ReplyLost(p)
    BY <1>10
  <2>1. sink' \in Seq(1..MaxRecords) /\ lost' \in 0..MaxLost
    BY SinkGrows DEF ReplyLost
  <2> QED
    BY <2>1, BackoffTyped DEF ReplyLost
<1>11. CASE \E p \in Processes : Unlink(p)
  <2> PICK p \in Processes : Unlink(p)
    BY <1>11
  <2>1. /\ files' \subseteq 1..names
        /\ pc' \in [Processes -> {"off", "wait", "clear", "list", "read", "post", "unlink", "dead"}]
    BY DEF Unlink
  <2>2. \A q \in Processes : pc'[q] \in {"read", "post", "unlink"} => target[q] \in 1..names
    BY DEF Unlink
  <2>3. /\ wake' \in [Processes -> BOOLEAN]
        /\ backoff' \in [Processes -> 1..MaxBackoff]
    BY DEF Unlink
  <2> QED
    BY <2>1, <2>2, <2>3 DEF Unlink
<1>12. CASE \E p \in Processes : Start(p)
  BY <1>12 DEF Start
<1>13. CASE \E p \in Processes : Exit(p)
  BY <1>13 DEF Exit
<1>14. CASE UNCHANGED vars
  BY <1>14 DEF vars
<1> QED
  BY <1>1, <1>2, <1>3, <1>4, <1>5, <1>6, <1>7, <1>8, <1>9, <1>10, <1>11,
     <1>12, <1>13, <1>14 DEF Next, Attempt

\* Every state of every instance has the type (the class Forwarder's fields,
\* the spool and the statement each of its threads is at).
THEOREM TypeCorrect == Spec => []TypeOK
<1> QED
  BY InitTypeOK, NextTypeOK, PTL DEF Spec

-----------------------------------------------------------------------------
(* No record is dropped.                                                     *)

\* A sender that is about to remove a file has its 2xx; what a writer has
\* named is published or is not yet.
Delivered ==
    /\ TypeOK
    /\ NothingLost
    /\ \A p \in Processes : pc[p] = "unlink" => target[p] \in Received

\* The sink never forgets: a reply appends, and nothing else changes it.
LEMMA ReceivedGrows ==
    ASSUME TypeOK, NEW p \in Processes, pc[p] = "post",
           sink' = Append(sink, target[p])
    PROVE  Received' = Received \cup {target[p]}
<1>1. target[p] \in 1..MaxRecords
  BY DEF TypeOK
<1>2. /\ DOMAIN sink = 1..Len(sink) /\ DOMAIN sink' = 1..(Len(sink) + 1)
      /\ Len(sink) \in Nat
      /\ \A i \in 1..Len(sink) : sink'[i] = sink[i]
      /\ sink'[Len(sink) + 1] = target[p]
  BY <1>1 DEF TypeOK
<1>3. \A i \in 1..(Len(sink) + 1) : i \in 1..Len(sink) \/ i = Len(sink) + 1
  BY <1>2
<1> QED
  BY <1>2, <1>3 DEF Received

LEMMA NextDelivered == Delivered /\ [Next]_vars => Delivered'
<1> SUFFICES ASSUME Delivered, [Next]_vars PROVE Delivered'
  OBVIOUS
<1>1. TypeOK /\ TypeOK'
  BY NextTypeOK DEF Delivered
<1> USE DEF Delivered, NothingLost, spool, writing, sending, Go
<1>2. CASE \E w \in Writers : Choose(w) \/ Wake(w)
  <2>1. UNCHANGED <<files, sink, published, pc, target>>
    BY <1>2 DEF Choose, Wake
  <2> QED
    BY <1>1, <2>1 DEF Received
<1>3. CASE \E w \in Writers : Publish(w)
  BY <1>1, <1>3 DEF Publish, Received, TypeOK
<1>4. CASE \E p \in Processes : Attempt(p)
  <2> PICK p \in Processes : Attempt(p)
    BY <1>4
  <2>1. /\ UNCHANGED spool
        /\ pc[p] # "unlink" /\ pc'[p] # "unlink"
        /\ \A q \in Processes \ {p} : pc'[q] = pc[q] /\ target'[q] = target[q]
    <3>1. UNCHANGED spool /\ pc[p] \in {"wait", "clear", "list", "read"}
      BY DEF Attempt, Wait, Clear, ListNothing, ListOldest, Read
    <3>2. \E label \in {"clear", "list", "wait", "read", "post", "dead"} :
             pc' = [pc EXCEPT ![p] = label]
      BY DEF Attempt, Wait, Clear, ListNothing, ListOldest, Read
    <3>3. \A q \in Processes \ {p} : target'[q] = target[q]
      <4>1. CASE ListOldest(p)
        BY <1>1, <4>1 DEF ListOldest, TypeOK
      <4>2. CASE ~ListOldest(p)
        BY <4>2 DEF Attempt, Wait, Clear, ListNothing, Read
      <4> QED
        BY <4>1, <4>2
    <3> QED
      BY <1>1, <3>1, <3>2, <3>3 DEF TypeOK
  <2> QED
    BY <1>1, <2>1 DEF Received
<1>5. CASE \E p \in Processes : Accepted(p)
  <2> PICK p \in Processes : Accepted(p)
    BY <1>5
  <2>1. Received' = Received \cup {target[p]}
    BY <1>1, ReceivedGrows DEF Accepted
  <2>2. \A q \in Processes \ {p} : pc'[q] = pc[q]
    BY <1>1 DEF Accepted, TypeOK
  <2> QED
    BY <1>1, <2>1, <2>2 DEF Accepted
<1>6. CASE \E p \in Processes : Rejected(p)
  <2> PICK p \in Processes : Rejected(p)
    BY <1>6
  <2>1. /\ pc'[p] # "unlink"
        /\ \A q \in Processes \ {p} : pc'[q] = pc[q]
    BY <1>1 DEF Rejected, Backoff, TypeOK
  <2> QED
    BY <1>1, <2>1 DEF Rejected, Received
<1>7. CASE \E p \in Processes : ReplyLost(p)
  <2> PICK p \in Processes : ReplyLost(p)
    BY <1>7
  <2>1. Received' = Received \cup {target[p]}
    BY <1>1, ReceivedGrows DEF ReplyLost
  <2>2. /\ pc'[p] # "unlink"
        /\ \A q \in Processes \ {p} : pc'[q] = pc[q]
    BY <1>1 DEF ReplyLost, Backoff, TypeOK
  <2> QED
    BY <1>1, <2>1, <2>2 DEF ReplyLost
<1>8. CASE \E p \in Processes : Unlink(p)
  <2> PICK p \in Processes : Unlink(p)
    BY <1>8
  <2>1. target[p] \in Received
    BY DEF Unlink
  <2>2. /\ pc'[p] # "unlink"
        /\ \A q \in Processes \ {p} : pc'[q] = pc[q]
    BY <1>1 DEF Unlink, TypeOK
  <2> QED
    BY <1>1, <2>1, <2>2 DEF Unlink, Received
<1>9. CASE \E p \in Processes : Start(p) \/ Exit(p)
  <2> PICK p \in Processes : Start(p) \/ Exit(p)
    BY <1>9
  <2>1. /\ UNCHANGED <<spool, target>>
        /\ pc'[p] # "unlink"
        /\ \A q \in Processes \ {p} : pc'[q] = pc[q]
    <3>1. CASE Start(p)
      BY <1>1, <3>1 DEF Start, TypeOK
    <3>2. CASE Exit(p)
      BY <1>1, <3>2 DEF Exit, TypeOK
    <3> QED
      BY <3>1, <3>2
  <2> QED
    BY <1>1, <2>1 DEF Received
<1>10. CASE UNCHANGED vars
  BY <1>1, <1>10 DEF vars, Received
<1> QED
  BY <1>2, <1>3, <1>4, <1>5, <1>6, <1>7, <1>8, <1>9, <1>10 DEF Next

\* "Never drop a record": whoever sends, ends or is refused, a published
\* record is in the spool or has been received by the sink (Forwarder._send).
THEOREM NeverDrops == Spec => []NothingLost
<1>1. Init => Delivered
  BY InitTypeOK DEF Init, Delivered, NothingLost
<1>2. Delivered => NothingLost
  BY DEF Delivered
<1> QED
  BY <1>1, <1>2, NextDelivered, PTL DEF Spec

-----------------------------------------------------------------------------
(* No wake-up is lost, where one supervised process enqueues.                *)

\* Until a process ends, the supervised one has enqueued nothing before its
\* sender starts.
Prompt(s) ==
    /\ TypeOK
    /\ SleepsOnlyWithoutWork
    /\ exits = 0 /\ pc[s] = "off" =>
          files = {} /\ \A w \in Writers : stage[w] = "idle"

\* What SleepsOnlyWithoutWork asks of one process.
Sleepless(s) ==
    exits = 0 /\ pc[s] = "wait" /\ ~wake[s] /\ backoff[s] = 1
       => \A n \in files : \E w \in Writers : stage[w] = "wake" /\ name[w] = n

LEMMA NextPrompt ==
    ASSUME NEW s \in Processes, Supervised = {s}, \A w \in Writers : Home[w] = s,
           Prompt(s), [Next]_vars
    PROVE  Prompt(s)'
<1>1. TypeOK /\ TypeOK'
  BY NextTypeOK DEF Prompt
<1>2. Sleepless(s)
  BY DEF Prompt, Sleepless, SleepsOnlyWithoutWork
<1>3. exits = 0 /\ pc[s] = "off" =>
         files = {} /\ \A w \in Writers : stage[w] = "idle"
  BY DEF Prompt
<1>4. ASSUME Sleepless(s)',
             exits' = 0 /\ pc'[s] = "off" =>
                files' = {} /\ \A w \in Writers : stage'[w] = "idle"
      PROVE  Prompt(s)'
  BY <1>1, <1>4 DEF Prompt, Sleepless, SleepsOnlyWithoutWork
<1> USE DEF Sleepless, spool, writing, sending, Go
<1>5. CASE \E w \in Writers : Choose(w)
  <2> PICK w \in Writers : Choose(w)
    BY <1>5
  <2>1. /\ pc[s] # "off" /\ stage[w] = "idle"
        /\ UNCHANGED <<files, pc, wake, backoff, exits>>
        /\ \A v \in Writers \ {w} : stage'[v] = stage[v] /\ name'[v] = name[v]
    BY <1>1 DEF Choose, Running, TypeOK
  <2> QED
    BY <1>2, <1>4, <2>1
<1>6. CASE \E w \in Writers : Publish(w)
  <2> PICK w \in Writers : Publish(w)
    BY <1>6
  <2>1. /\ stage[w] = "publish" /\ stage'[w] = "wake"
        /\ files' = files \cup {name[w]}
        /\ UNCHANGED <<name, pc, wake, backoff, exits>>
        /\ \A v \in Writers \ {w} : stage'[v] = stage[v]
    BY <1>1 DEF Publish, TypeOK
  <2> QED
    BY <1>2, <1>3, <1>4, <2>1
<1>7. CASE \E w \in Writers : Wake(w)
  <2> PICK w \in Writers : Wake(w)
    BY <1>7
  <2>1. /\ stage[w] = "wake" /\ wake'[s]
        /\ UNCHANGED <<files, pc, exits>>
    BY <1>1 DEF Wake, TypeOK
  <2> QED
    BY <1>3, <1>4, <2>1
<1>8. ASSUME UNCHANGED <<stage, name>>, files' \subseteq files,
             exits' = 0 => exits = 0,
             pc'[s] = pc[s], wake'[s] = wake[s], backoff'[s] = backoff[s]
      PROVE  Prompt(s)'
  BY <1>2, <1>3, <1>4, <1>8
<1>9. ASSUME UNCHANGED <<stage, name>>, pc'[s] # "off",
             pc'[s] = "wait" => wake'[s] \/ backoff'[s] # 1 \/ files' = {}
      PROVE  Prompt(s)'
  BY <1>4, <1>9
<1>10. CASE \E p \in Processes : Attempt(p)
  <2> PICK p \in Processes : Attempt(p)
    BY <1>10
  <2>1. UNCHANGED <<stage, name, files, exits>>
    BY DEF Attempt, Wait, Clear, ListNothing, ListOldest, Read
  <2>2. CASE p = s
    <3>1. pc'[s] # "off"
      BY <1>1, <2>2 DEF Attempt, Wait, Clear, ListNothing, ListOldest, Read, TypeOK
    <3>2. pc'[s] = "wait" => files' = {}
      BY <1>1, <2>2 DEF Attempt, Wait, Clear, ListNothing, ListOldest, Read, TypeOK
    <3> QED
      BY <1>9, <2>1, <3>1, <3>2
  <2>3. CASE p # s
    <3>1. pc'[s] = pc[s] /\ wake'[s] = wake[s] /\ backoff'[s] = backoff[s]
      BY <1>1, <2>3, SMTT(40) DEF Attempt, Wait, Clear, ListNothing, ListOldest, Read, TypeOK
    <3> QED
      BY <1>8, <2>1, <3>1
  <2> QED
    BY <2>2, <2>3
<1>11. CASE \E p \in Processes : Accepted(p) \/ Rejected(p) \/ ReplyLost(p) \/ Unlink(p)
  <2> PICK p \in Processes : Accepted(p) \/ Rejected(p) \/ ReplyLost(p) \/ Unlink(p)
    BY <1>11
  <2>1. UNCHANGED <<stage, name, exits>> /\ files' \subseteq files
    BY DEF Accepted, Rejected, ReplyLost, Unlink, Backoff
  <2>2. CASE p = s
    <3>1. pc'[s] # "off" /\ (pc'[s] = "wait" => wake'[s] \/ backoff'[s] # 1)
      <4>1. CASE Accepted(p)
        BY <1>1, <2>2, <4>1 DEF Accepted, TypeOK
      <4>2. CASE Rejected(p) \/ ReplyLost(p)
        <5>1. Backoff(p)
          BY <4>2 DEF Rejected, ReplyLost
        <5>2. backoff[s] \in Nat /\ MaxBackoff \in Nat \ {0, 1}
          BY <1>1, SMTT(40) DEF TypeOK
        <5>3. Doubled(backoff[s]) # 1
          BY <5>2 DEF Doubled
        <5> QED
          BY <1>1, <2>2, <5>1, <5>3 DEF Backoff, TypeOK
      <4>3. CASE Unlink(p)
        BY <1>1, <2>2, <4>3 DEF Unlink, TypeOK
      <4> QED
        BY <4>1, <4>2, <4>3
    <3> QED
      BY <1>9, <2>1, <3>1
  <2>3. CASE p # s
    <3>1. pc'[s] = pc[s] /\ wake'[s] = wake[s] /\ backoff'[s] = backoff[s]
      <4>1. CASE Accepted(p)
        BY <1>1, <2>3, <4>1 DEF Accepted, TypeOK
      <4>2. CASE Rejected(p) \/ ReplyLost(p)
        <5>1. Backoff(p) /\ UNCHANGED wake
          BY <4>2 DEF Rejected, ReplyLost
        <5> QED
          BY <1>1, <2>3, <5>1 DEF Backoff, TypeOK
      <4>3. CASE Unlink(p)
        BY <1>1, <2>3, <4>3, ZenonT(40) DEF Unlink, TypeOK
      <4> QED
        BY <4>1, <4>2, <4>3
    <3> QED
      BY <1>8, <2>1, <3>1
  <2> QED
    BY <2>2, <2>3
<1>12. CASE \E p \in Processes : Start(p)
  <2> PICK p \in Processes : Start(p)
    BY <1>12
  <2>1. UNCHANGED <<stage, name, files, exits>>
    BY DEF Start
  <2>2. CASE p = s
    <3>1. pc[s] = "off" /\ pc'[s] = "wait"
      BY <1>1, <2>2 DEF Start, TypeOK
    <3> QED
      BY <1>3, <1>4, <2>1, <3>1
  <2>3. CASE p # s
    <3>1. pc'[s] = pc[s] /\ wake'[s] = wake[s] /\ backoff'[s] = backoff[s]
      BY <1>1, <2>3 DEF Start, TypeOK
    <3> QED
      BY <1>8, <2>1, <3>1
  <2> QED
    BY <2>2, <2>3
<1>13. CASE \E p \in Processes : Exit(p)
  <2>1. exits' # 0
    BY <1>1, <1>13 DEF Exit, TypeOK
  <2> QED
    BY <1>4, <2>1
<1>14. CASE UNCHANGED vars
  <2>1. UNCHANGED <<stage, name, files, pc, wake, backoff, exits>>
    BY <1>14 DEF vars
  <2> QED
    BY <1>2, <1>3, <1>4, <2>1
<1> QED
  BY <1>5, <1>6, <1>7, <1>10, <1>11, <1>12, <1>13, <1>14 DEF Next

\* _run clears _wake before it lists the spool, so a sender whose last attempt
\* did not fail never sleeps on a published file whose writer has set _wake.
THEOREM NoLostWakeUp ==
    ASSUME NEW s \in Processes, Supervised = {s}, \A w \in Writers : Home[w] = s
    PROVE  Spec => []SleepsOnlyWithoutWork
<1>1. Init => Prompt(s)
  BY InitTypeOK DEF Init, Prompt, SleepsOnlyWithoutWork
<1>2. Prompt(s) /\ [Next]_vars => Prompt(s)'
  BY NextPrompt
<1>3. Prompt(s) => SleepsOnlyWithoutWork
  BY DEF Prompt
<1> QED
  BY <1>1, <1>2, <1>3, PTL DEF Spec

-----------------------------------------------------------------------------
(* How often a record is sent.                                               *)

\* The senders that are at a statement with n as their target.
At(label, n) == {p \in Processes : pc[p] = label /\ target[p] = n}

\* A name is published once, and only a published one is sent.
NamesAreFresh ==
    /\ files \subseteq published /\ Received \subseteq published
    /\ \A p \in Processes : pc[p] \in {"read", "post", "unlink"} => target[p] \in published
    /\ \A w \in Writers : stage[w] = "publish" => name[w] \notin published
    /\ \A v, w \in Writers : stage[v] = "publish" /\ stage[w] = "publish" /\ name[v] = name[w] => v = w

\* While the file of n is in the spool, every copy is of a reply that was lost,
\* of a process that ended, or of a sender about to remove the file.  Once it
\* is gone, at most the senders that had read it still post it.
CopiesAreDue ==
    \A n \in 1..MaxRecords :
        IF n \in files
        THEN Copies(n) <= lost + exits + Cardinality(At("unlink", n))
        ELSE Copies(n) + Cardinality(At("post", n)) <= lost + exits + Cardinality(Processes)

Sparing == TypeOK /\ NamesAreFresh /\ CopiesAreDue

LEMMA CopiesGrow ==
    ASSUME TypeOK, NEW p \in Processes, pc[p] = "post", sink' = Append(sink, target[p]), NEW n
    PROVE  Copies(n) \in Nat /\ Copies(n)' = Copies(n) + (IF n = target[p] THEN 1 ELSE 0)
<1> DEFINE places == {i \in DOMAIN sink : sink[i] = n}
           after == {i \in DOMAIN sink' : sink'[i] = n}
<1>1. target[p] \in 1..MaxRecords
  BY DEF TypeOK
<1>2. /\ DOMAIN sink = 1..Len(sink) /\ DOMAIN sink' = 1..(Len(sink) + 1)
      /\ Len(sink) \in Nat
      /\ \A i \in 1..Len(sink) : sink'[i] = sink[i]
      /\ sink'[Len(sink) + 1] = target[p]
  BY <1>1 DEF TypeOK
<1>3. IsFiniteSet(places) /\ Len(sink) + 1 \notin places
  <2>1. places \subseteq 1..Len(sink) /\ IsFiniteSet(1..Len(sink))
    BY <1>2, FS_Interval
  <2> QED BY <1>2, <2>1, FS_Subset
<1>4. after = IF n = target[p] THEN places \cup {Len(sink) + 1} ELSE places
  BY <1>2
<1>5. Copies(n) = Cardinality(places) /\ Copies(n)' = Cardinality(after)
  BY DEF Copies
<1> HIDE DEF places, after
<1>6. Cardinality(places) \in Nat /\ Cardinality(places \cup {Len(sink) + 1}) = Cardinality(places) + 1
  BY <1>3, FS_AddElement, FS_CardinalityType
<1> QED BY <1>4, <1>5, <1>6

\* Copies are counted in naturals, and so are senders.
LEMMA CountsAreNat ==
    ASSUME TypeOK, NEW n, NEW label
    PROVE  /\ Copies(n) \in Nat /\ Cardinality(Processes) \in Nat
           /\ IsFiniteSet(At(label, n)) /\ Cardinality(At(label, n)) \in Nat
           /\ Cardinality(At(label, n)) <= Cardinality(Processes)
<1>1. Len(sink) \in Nat /\ DOMAIN sink = 1..Len(sink)
  BY DEF TypeOK
<1>2. Copies(n) \in Nat
  <2>1. {i \in DOMAIN sink : sink[i] = n} \subseteq 1..Len(sink) /\ IsFiniteSet(1..Len(sink))
    BY <1>1, FS_Interval
  <2> QED BY <2>1, FS_Subset, FS_CardinalityType DEF Copies
<1>3. At(label, n) \subseteq Processes /\ IsFiniteSet(Processes)
  BY DEF At
<1> QED BY <1>2, <1>3, FS_Subset, FS_CardinalityType

\* One sender moves: the others are counted as before.
LEMMA OneMoves ==
    ASSUME TypeOK, TypeOK', NEW p \in Processes, NEW label, NEW n,
           \A q \in Processes \ {p} : pc'[q] = pc[q] /\ target'[q] = target[q]
    PROVE  Cardinality(At(label, n)') + (IF p \in At(label, n) THEN 1 ELSE 0)
              = Cardinality(At(label, n)) + (IF p \in At(label, n)' THEN 1 ELSE 0)
<1> DEFINE before == At(label, n)
           after == At(label, n)'
<1>1. IsFiniteSet(before) /\ IsFiniteSet(after)
  <2>1. IsFiniteSet(Processes) /\ before \subseteq Processes /\ after \subseteq Processes
    BY DEF At
  <2> QED BY <2>1, FS_Subset
<1>2. before \ {p} = after \ {p}
  BY DEF At
<1>3. Cardinality(before) \in Nat /\ Cardinality(after) \in Nat
  BY <1>1, FS_CardinalityType
<1> HIDE DEF before, after
<1>4. Cardinality(before \ {p}) = IF p \in before THEN Cardinality(before) - 1 ELSE Cardinality(before)
  BY <1>1, FS_RemoveElement
<1>5. Cardinality(after \ {p}) = IF p \in after THEN Cardinality(after) - 1 ELSE Cardinality(after)
  BY <1>1, FS_RemoveElement
<1>6. Cardinality(after) + (IF p \in before THEN 1 ELSE 0)
         = Cardinality(before) + (IF p \in after THEN 1 ELSE 0)
  BY <1>2, <1>3, <1>4, <1>5
<1> QED BY <1>6 DEF before, after

\* No sender removes n and posts it at once.
LEMMA RemovingOrPosting ==
    ASSUME TypeOK, NEW n
    PROVE  Cardinality(At("unlink", n)) + Cardinality(At("post", n)) <= Cardinality(Processes)
<1>1. IsFiniteSet(Processes) /\ IsFiniteSet(At("unlink", n)) /\ IsFiniteSet(At("post", n))
  BY CountsAreNat
<1>2. At("unlink", n) \cap At("post", n) = {}
  BY DEF At
<1>3. At("unlink", n) \cup At("post", n) \subseteq Processes
  BY DEF At
<1>4. Cardinality(At("unlink", n) \cup At("post", n))
         = Cardinality(At("unlink", n)) + Cardinality(At("post", n))
  <2> DEFINE removing == At("unlink", n)
             posting == At("post", n)
  <2>1. Cardinality(removing) \in Nat /\ Cardinality(posting) \in Nat
    BY CountsAreNat
  <2>2. IsFiniteSet(removing) /\ IsFiniteSet(posting) /\ removing \cap posting = {}
    BY <1>1, <1>2
  <2> HIDE DEF removing, posting
  <2>3. Cardinality(removing \cup posting)
           = Cardinality(removing) + Cardinality(posting) - Cardinality(removing \cap posting)
    BY <2>2, FS_Union
  <2>4. Cardinality(removing \cup posting) = Cardinality(removing) + Cardinality(posting)
    <3>1. Cardinality(removing \cap posting) = 0
      BY <2>2, FS_EmptySet
    <3> QED BY <2>1, <2>3, <3>1
  <2> QED BY <2>4 DEF removing, posting
<1> QED BY <1>1, <1>3, <1>4, FS_Subset

LEMMA NextNames == TypeOK /\ TypeOK' /\ NamesAreFresh /\ [Next]_vars => NamesAreFresh'
<1> SUFFICES ASSUME TypeOK, TypeOK', NamesAreFresh, [Next]_vars PROVE NamesAreFresh'
  OBVIOUS
<1> USE DEF spool, writing, sending, Go
<1>1. ASSUME NEW w \in Writers, Choose(w) PROVE NamesAreFresh'
  <2>1. /\ UNCHANGED <<files, sink, published, pc, target>>
        /\ stage' = [stage EXCEPT ![w] = "publish"] /\ name' = [name EXCEPT ![w] = names + 1]
    BY <1>1 DEF Choose
  <2>2. names \in Nat /\ published \subseteq 1..names /\ \A v \in Writers : name[v] \in 0..names
    BY DEF TypeOK
  <2>3. names + 1 \notin published /\ \A v \in Writers : name[v] # names + 1
    BY <2>2
  <2>4. /\ stage'[w] = "publish" /\ name'[w] = names + 1
        /\ \A v \in Writers \ {w} : stage'[v] = stage[v] /\ name'[v] = name[v]
    BY <2>1 DEF TypeOK
  <2> QED BY <2>1, <2>3, <2>4 DEF NamesAreFresh, Received
<1>2. ASSUME NEW w \in Writers, Publish(w) PROVE NamesAreFresh'
  <2>1. /\ UNCHANGED <<sink, pc, target, name>>
        /\ files' = files \cup {name[w]} /\ published' = published \cup {name[w]}
        /\ stage[w] = "publish" /\ stage'[w] = "wake"
        /\ \A v \in Writers \ {w} : stage'[v] = stage[v]
    BY <1>2 DEF Publish, TypeOK
  <2> QED BY <2>1 DEF NamesAreFresh, Received
<1>3. ASSUME UNCHANGED <<published, name>>,
             \A v \in Writers : stage'[v] = "publish" => stage[v] = "publish",
             files' \subseteq files,
             Received' \subseteq Received \cup {target[q] : q \in {r \in Processes : pc[r] = "post"}},
             \A q \in Processes : pc'[q] \in {"read", "post", "unlink"} =>
                 target'[q] \in files \/ (pc[q] \in {"read", "post", "unlink"} /\ target'[q] = target[q])
      PROVE  NamesAreFresh'
  BY <1>3 DEF NamesAreFresh
<1>4. ASSUME NEW p \in Processes, Accepted(p) \/ ReplyLost(p) PROVE NamesAreFresh'
  <2>1. Received' = Received \cup {target[p]} /\ pc[p] = "post"
    BY <1>4, ReceivedGrows DEF Accepted, ReplyLost
  <2>2. UNCHANGED <<files, published, name, stage, target>>
    BY <1>4 DEF Accepted, ReplyLost
  <2>3. \A q \in Processes \ {p} : pc'[q] = pc[q]
    BY <1>4 DEF Accepted, ReplyLost, Backoff, TypeOK
  <2> QED BY <1>3, <2>1, <2>2, <2>3
<1>5. ASSUME NEW p \in Processes, Rejected(p) \/ Unlink(p) \/ Start(p) \/ Exit(p) PROVE NamesAreFresh'
  <2>1. UNCHANGED <<sink, published, name, target>> /\ files' \subseteq files
    BY <1>5 DEF Rejected, Backoff, Unlink, Start, Exit
  <2>2. \A q \in Processes : pc'[q] = pc[q] \/ pc'[q] \in {"wait", "off"}
    <3>1. pc' = [pc EXCEPT ![p] = "wait"] \/ pc' = [pc EXCEPT ![p] = "off"]
      BY <1>5 DEF Rejected, Backoff, Unlink, Start, Exit
    <3> QED BY <3>1 DEF TypeOK
  <2>3. \A v \in Writers : stage'[v] = "publish" => stage[v] = "publish"
    <3>1. stage' = stage \/ stage' = [w \in Writers |-> IF Home[w] = p THEN "idle" ELSE stage[w]]
      BY <1>5 DEF Rejected, Unlink, Start, Exit
    <3> QED BY <3>1
  <2> QED BY <1>3, <2>1, <2>2, <2>3 DEF Received
<1>6. ASSUME NEW p \in Processes, Attempt(p) PROVE NamesAreFresh'
  <2>1. UNCHANGED <<files, sink, published, name, stage>>
    BY <1>6 DEF Attempt, Wait, Clear, ListNothing, ListOldest, Read
  <2>2. ASSUME NEW q \in Processes, pc'[q] \in {"read", "post", "unlink"}
        PROVE  target'[q] \in files \/ (pc[q] \in {"read", "post", "unlink"} /\ target'[q] = target[q])
    <3>1. CASE ListOldest(p)
      <4>1. PICK oldest \in files : target' = [target EXCEPT ![p] = oldest]
        BY <3>1 DEF ListOldest
      <4> QED BY <2>2, <3>1, <4>1 DEF ListOldest, TypeOK
    <3>2. CASE Read(p)
      BY <2>2, <3>2 DEF Read, TypeOK
    <3>3. CASE Wait(p) \/ Clear(p) \/ ListNothing(p)
      <4>1. target' = target /\ \E label \in {"clear", "list", "wait"} : pc' = [pc EXCEPT ![p] = label]
        BY <3>3 DEF Wait, Clear, ListNothing
      <4> QED BY <2>2, <4>1 DEF TypeOK
    <3> QED BY <1>6, <3>1, <3>2, <3>3 DEF Attempt
  <2> QED BY <1>3, <2>1, <2>2 DEF Received
<1>7. ASSUME NEW w \in Writers, Wake(w) PROVE NamesAreFresh'
  <2>1. UNCHANGED <<files, sink, published, name, pc, target>>
    BY <1>7 DEF Wake
  <2>2. \A v \in Writers : stage'[v] = "publish" => stage[v] = "publish"
    BY <1>7 DEF Wake, TypeOK
  <2> QED BY <1>3, <2>1, <2>2 DEF Received
<1>8. CASE UNCHANGED vars
  BY <1>8 DEF vars, NamesAreFresh, Received
<1> QED BY <1>1, <1>2, <1>4, <1>5, <1>6, <1>7, <1>8 DEF Next

\* A step that sends nothing, ends no process and touches no sender that is
\* posting or removing.
LEMMA QuietStep ==
    ASSUME Sparing, TypeOK', UNCHANGED <<sink, files, lost, exits>>,
           \A label \in {"post", "unlink"} : \A n \in 1..MaxRecords :
               (label = "post" /\ n \in files) \/ Cardinality(At(label, n)') = Cardinality(At(label, n))
    PROVE  CopiesAreDue'
<1> SUFFICES ASSUME NEW n \in 1..MaxRecords
             PROVE  IF n \in files'
                    THEN Copies(n)' <= lost' + exits' + Cardinality(At("unlink", n)')
                    ELSE Copies(n)' + Cardinality(At("post", n)') <= lost' + exits' + Cardinality(Processes)
  BY DEF CopiesAreDue
<1>1. Copies(n)' = Copies(n)
  BY DEF Copies
<1> QED BY <1>1 DEF Sparing, CopiesAreDue

LEMMA NextCopies == Sparing /\ TypeOK' /\ [Next]_vars => CopiesAreDue'
<1> SUFFICES ASSUME Sparing, TypeOK', [Next]_vars PROVE CopiesAreDue'
  OBVIOUS
<1>0. TypeOK /\ NamesAreFresh /\ CopiesAreDue /\ lost \in Nat /\ exits \in Nat
  BY DEF Sparing, TypeOK
<1> USE DEF spool, writing, sending, Go
<1>1. ASSUME NEW w \in Writers, Choose(w) \/ Wake(w) PROVE CopiesAreDue'
  <2>1. UNCHANGED <<sink, files, lost, exits, pc, target>>
    BY <1>1 DEF Choose, Wake
  <2>2. \A label \in {"post", "unlink"} : \A n \in 1..MaxRecords :
            Cardinality(At(label, n)') = Cardinality(At(label, n))
    <3>1. ASSUME NEW label, NEW n PROVE At(label, n)' = At(label, n)
      BY <2>1 DEF At
    <3> QED BY <3>1
  <2> QED BY <2>1, <2>2, QuietStep
<1>2. ASSUME NEW w \in Writers, Publish(w) PROVE CopiesAreDue'
  <2>1. /\ UNCHANGED <<sink, lost, exits, pc, target>> /\ files' = files \cup {name[w]}
        /\ name[w] \notin published
    BY <1>0, <1>2 DEF Publish, NamesAreFresh
  <2> SUFFICES ASSUME NEW n \in 1..MaxRecords
               PROVE  IF n \in files'
                      THEN Copies(n)' <= lost' + exits' + Cardinality(At("unlink", n)')
                      ELSE Copies(n)' + Cardinality(At("post", n)') <= lost' + exits' + Cardinality(Processes)
    BY DEF CopiesAreDue
  <2>2. At("unlink", n)' = At("unlink", n) /\ At("post", n)' = At("post", n) /\ Copies(n)' = Copies(n)
    BY <2>1 DEF At, Copies
  <2>3. CASE n = name[w]
    <3>1. {i \in DOMAIN sink : sink[i] = n} = {}
      BY <1>0, <2>1, <2>3 DEF NamesAreFresh, Received
    <3>2. Copies(n) = 0
      BY <3>1, FS_EmptySet DEF Copies
    <3> QED BY <1>0, <2>1, <2>2, <2>3, <3>2, CountsAreNat
  <2>4. CASE n # name[w]
    BY <1>0, <2>1, <2>2, <2>4 DEF CopiesAreDue
  <2> QED BY <2>3, <2>4
<1>3. ASSUME NEW p \in Processes, Attempt(p) PROVE CopiesAreDue'
  <2>1. UNCHANGED <<sink, files, lost, exits>>
    BY <1>3 DEF Attempt, Wait, Clear, ListNothing, ListOldest, Read
  <2>2. pc[p] \notin {"post", "unlink"} /\ pc'[p] # "unlink"
    BY <1>0, <1>3 DEF Attempt, Wait, Clear, ListNothing, ListOldest, Read, TypeOK
  <2>3. pc'[p] = "post" => target'[p] \in files
    BY <1>0, <1>3 DEF Attempt, Wait, Clear, ListNothing, ListOldest, Read, TypeOK
  <2>4. \A q \in Processes \ {p} : pc'[q] = pc[q] /\ target'[q] = target[q]
    BY <1>0, <1>3, SMTT(40) DEF Attempt, Wait, Clear, ListNothing, ListOldest, Read, TypeOK
  <2>5. ASSUME NEW label \in {"post", "unlink"}, NEW n \in 1..MaxRecords, ~(label = "post" /\ n \in files)
        PROVE  Cardinality(At(label, n)') = Cardinality(At(label, n))
    <3>1. At(label, n)' = At(label, n)
      BY <2>2, <2>3, <2>4, <2>5 DEF At
    <3> QED BY <3>1
  <2> QED BY <2>1, <2>5, QuietStep
<1>4. ASSUME NEW p \in Processes, NEW n \in 1..MaxRecords,
             \A q \in Processes \ {p} : pc'[q] = pc[q] /\ target'[q] = target[q]
      PROVE  \A label \in {"post", "unlink"} :
                 /\ Cardinality(At(label, n)) \in Nat /\ Cardinality(At(label, n)') \in Nat
                 /\ Cardinality(At(label, n)')
                       = Cardinality(At(label, n))
                         + (IF pc'[p] = label /\ target'[p] = n THEN 1 ELSE 0)
                         - (IF pc[p] = label /\ target[p] = n THEN 1 ELSE 0)
  <2> TAKE label \in {"post", "unlink"}
  <2>1. Cardinality(At(label, n)) \in Nat
    BY <1>0, CountsAreNat
  <2>2. Cardinality(At(label, n)') \in Nat
    <3>1. IsFiniteSet(Processes) /\ At(label, n)' \subseteq Processes
      BY DEF At
    <3> QED BY <3>1, FS_Subset, FS_CardinalityType
  <2>3. Cardinality(At(label, n)') + (IF p \in At(label, n) THEN 1 ELSE 0)
           = Cardinality(At(label, n)) + (IF p \in At(label, n)' THEN 1 ELSE 0)
    BY <1>0, <1>4, OneMoves
  <2>4. /\ p \in At(label, n) <=> pc[p] = label /\ target[p] = n
        /\ p \in At(label, n)' <=> pc'[p] = label /\ target'[p] = n
    BY DEF At
  <2> QED BY <2>1, <2>2, <2>3, <2>4
<1>5. ASSUME NEW p \in Processes,
             Accepted(p) \/ Rejected(p) \/ ReplyLost(p) \/ Unlink(p) \/ Start(p) \/ Exit(p)
      PROVE  CopiesAreDue'
  <2>1. \A q \in Processes \ {p} : pc'[q] = pc[q] /\ target'[q] = target[q]
    BY <1>0, <1>5 DEF Accepted, Rejected, ReplyLost, Backoff, Unlink, Start, Exit, TypeOK
  <2>2. target'[p] = target[p]
    BY <1>5 DEF Accepted, Rejected, ReplyLost, Unlink, Start, Exit
  <2> SUFFICES ASSUME NEW n \in 1..MaxRecords
               PROVE  IF n \in files'
                      THEN Copies(n)' <= lost' + exits' + Cardinality(At("unlink", n)')
                      ELSE Copies(n)' + Cardinality(At("post", n)') <= lost' + exits' + Cardinality(Processes)
    BY DEF CopiesAreDue
  <2>3. PICK a \in Nat, b \in Nat, c \in Nat, d \in Nat :
           /\ a = Cardinality(At("post", n)) /\ b = Cardinality(At("unlink", n))
           /\ c = Cardinality(At("post", n)') /\ d = Cardinality(At("unlink", n)')
    BY <1>4, <2>1
  <2>4. /\ c = a + (IF pc'[p] = "post" /\ target[p] = n THEN 1 ELSE 0)
                 - (IF pc[p] = "post" /\ target[p] = n THEN 1 ELSE 0)
        /\ d = b + (IF pc'[p] = "unlink" /\ target[p] = n THEN 1 ELSE 0)
                 - (IF pc[p] = "unlink" /\ target[p] = n THEN 1 ELSE 0)
    BY <1>4, <2>1, <2>2, <2>3
  <2>5. PICK k \in Nat, m \in Nat : k = Copies(n) /\ m = Cardinality(Processes)
    BY <1>0, CountsAreNat
  <2>6. IF n \in files THEN k <= lost + exits + b ELSE k + a <= lost + exits + m
    BY <1>0, <2>3, <2>5 DEF CopiesAreDue
  <2>7. b + a <= m
    BY <1>0, <2>3, <2>5, RemovingOrPosting
  <2>8. CASE Accepted(p)
    <3>1. /\ pc[p] = "post" /\ pc'[p] = "unlink" /\ UNCHANGED <<files, lost, exits>>
          /\ sink' = Append(sink, target[p])
      BY <1>0, <2>8 DEF Accepted, TypeOK
    <3>2. Copies(n)' = k + (IF n = target[p] THEN 1 ELSE 0)
      BY <1>0, <2>5, <3>1, CopiesGrow
    <3>3. IF n = target[p] THEN c = a - 1 /\ d = b + 1 /\ Copies(n)' = k + 1
                           ELSE c = a /\ d = b /\ Copies(n)' = k
      BY <2>4, <3>1, <3>2
    <3>4. Copies(n)' + c <= k + a /\ Copies(n)' - d <= k - b /\ Copies(n)' \in Nat
      BY <2>5, <3>3
    <3>5. IF n \in files' THEN Copies(n)' <= lost' + exits' + d
                          ELSE Copies(n)' + c <= lost' + exits' + m
      <4>1. files' = files /\ lost' = lost /\ exits' = exits
        BY <3>1
      <4>2. CASE n \in files
        BY <1>0, <2>6, <3>4, <4>1, <4>2
      <4>3. CASE n \notin files
        BY <1>0, <2>6, <3>4, <4>1, <4>3
      <4> QED BY <4>2, <4>3
    <3> QED BY <2>3, <2>5, <3>5
  <2>9. CASE ReplyLost(p)
    <3>1. /\ pc[p] = "post" /\ pc'[p] = "wait" /\ UNCHANGED <<files, exits>> /\ lost' = lost + 1
          /\ sink' = Append(sink, target[p])
      BY <1>0, <2>9 DEF ReplyLost, Backoff, TypeOK
    <3>2. Copies(n)' = k + (IF n = target[p] THEN 1 ELSE 0)
      BY <1>0, <2>5, <3>1, CopiesGrow
    <3>3. IF n = target[p] THEN c = a - 1 /\ d = b /\ Copies(n)' = k + 1
                           ELSE c = a /\ d = b /\ Copies(n)' = k
      BY <2>4, <3>1, <3>2
    <3>4. Copies(n)' + c <= k + a + 1 /\ Copies(n)' <= k + 1 /\ d = b
      BY <3>3
    <3>5. Copies(n)' \in Nat
      BY <2>5, <3>3
    <3>6. IF n \in files' THEN Copies(n)' <= lost' + exits' + d
                          ELSE Copies(n)' + c <= lost' + exits' + m
      BY <1>0, <2>6, <3>1, <3>4, <3>5
    <3> QED BY <2>3, <2>5, <3>6
  <2>10. CASE Rejected(p)
    <3>1. pc[p] = "post" /\ pc'[p] = "wait" /\ UNCHANGED <<files, exits, lost, sink>>
      BY <1>0, <2>10 DEF Rejected, Backoff, TypeOK
    <3>2. Copies(n)' = k
      BY <2>5, <3>1 DEF Copies
    <3> QED BY <1>0, <2>3, <2>4, <2>5, <2>6, <3>1, <3>2
  <2>11. CASE Unlink(p)
    <3>1. pc[p] = "unlink" /\ pc'[p] = "wait" /\ UNCHANGED <<exits, lost, sink>> /\ files' = files \ {target[p]}
      BY <1>0, <2>11 DEF Unlink, TypeOK
    <3>2. Copies(n)' = k
      BY <2>5, <3>1 DEF Copies
    <3>3. c = a /\ (n # target[p] => d = b)
      BY <2>4, <3>1
    <3> QED BY <1>0, <2>3, <2>5, <2>6, <2>7, <3>1, <3>2, <3>3
  <2>12. CASE Start(p)
    <3>1. pc[p] = "off" /\ pc'[p] = "wait" /\ UNCHANGED <<files, exits, lost, sink>>
      BY <1>0, <2>12 DEF Start, TypeOK
    <3>2. Copies(n)' = k
      BY <2>5, <3>1 DEF Copies
    <3> QED BY <1>0, <2>3, <2>4, <2>5, <2>6, <3>1, <3>2
  <2>13. CASE Exit(p)
    <3>1. pc'[p] = "off" /\ UNCHANGED <<files, lost, sink>> /\ exits' = exits + 1
      BY <1>0, <2>13 DEF Exit, TypeOK
    <3>2. Copies(n)' = k
      BY <2>5, <3>1 DEF Copies
    <3> QED BY <1>0, <2>3, <2>4, <2>5, <2>6, <3>1, <3>2
  <2> QED BY <1>5, <2>8, <2>9, <2>10, <2>11, <2>12, <2>13
<1>6. CASE UNCHANGED vars
  <2>1. UNCHANGED <<sink, files, lost, exits, pc, target>>
    BY <1>6 DEF vars
  <2>2. \A label \in {"post", "unlink"} : \A n \in 1..MaxRecords :
            Cardinality(At(label, n)') = Cardinality(At(label, n))
    <3>1. ASSUME NEW label, NEW n PROVE At(label, n)' = At(label, n)
      BY <2>1 DEF At
    <3> QED BY <3>1
  <2> QED BY <2>1, <2>2, QuietStep
<1> QED BY <1>1, <1>2, <1>3, <1>5, <1>6 DEF Next

\* A record reaches the sink more than once only for a reply that was lost, a
\* process that ended, or another process that sends the same spool, whatever
\* their number and whatever is refused (audit.py:276-309).
THEOREM SendsFewCopies == Spec => []FewCopies
<1>1. Init => Sparing
  <2> SUFFICES ASSUME Init PROVE Sparing
    OBVIOUS
  <2>1. TypeOK /\ NamesAreFresh
    BY InitTypeOK DEF Init, NamesAreFresh, Received
  <2>2. ASSUME NEW n \in 1..MaxRecords
        PROVE  n \notin files /\ Copies(n) + Cardinality(At("post", n)) <= lost + exits + Cardinality(Processes)
    <3>1. {i \in DOMAIN sink : sink[i] = n} = {} /\ At("post", n) = {} /\ n \notin files
      BY DEF Init, At
    <3>2. Copies(n) = 0 /\ Cardinality(At("post", n)) = 0 /\ lost = 0 /\ exits = 0
      BY <3>1, FS_EmptySet DEF Copies, Init
    <3> QED BY <2>1, <3>1, <3>2, CountsAreNat
  <2> QED BY <2>1, <2>2 DEF Sparing, CopiesAreDue
<1>2. Sparing /\ [Next]_vars => Sparing'
  <2> SUFFICES ASSUME Sparing, [Next]_vars PROVE Sparing'
    OBVIOUS
  <2>1. TypeOK'
    BY NextTypeOK DEF Sparing
  <2>2. NamesAreFresh'
    BY <2>1, NextNames DEF Sparing
  <2> QED BY <2>1, <2>2, NextCopies DEF Sparing
<1>3. Sparing => FewCopies
  <2> SUFFICES ASSUME Sparing, NEW n \in Received
               PROVE  Copies(n) <= Cardinality(Processes) + lost + exits
    BY DEF FewCopies
  <2>1. n \in 1..MaxRecords /\ TypeOK /\ lost \in Nat /\ exits \in Nat
    BY DEF Sparing, TypeOK, Received
  <2>2. /\ Copies(n) \in Nat /\ Cardinality(Processes) \in Nat
        /\ Cardinality(At("post", n)) \in Nat
        /\ Cardinality(At("unlink", n)) \in Nat /\ Cardinality(At("unlink", n)) <= Cardinality(Processes)
    BY <2>1, CountsAreNat
  <2> QED BY <2>1, <2>2 DEF Sparing, CopiesAreDue
<1> QED
  BY <1>1, <1>2, <1>3, PTL DEF Spec
=============================================================================
