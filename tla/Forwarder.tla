----------------------------- MODULE Forwarder -----------------------------
(***************************************************************************)
(* The spool of audit.py (class Forwarder): enqueue publishes a record as a *)
(* file, and the sender thread of every process that built a Forwarder on   *)
(* that directory posts the oldest file to the sink and removes it on a 2xx.*)
(*                                                                          *)
(* Such a process is the server, whose worker threads enqueue, and the      *)
(* review CLI's export command, which builds the service and with it a      *)
(* second sender (review_cli.py:145, server.py:72-74) but enqueues nothing. *)
(* A record is the name of its file: the n-th clock reading of enqueue, so  *)
(* that the order of names is the order of sorted(glob("*.json")).          *)
(***************************************************************************)
EXTENDS Naturals, Sequences, FiniteSets

CONSTANTS
    Processes,    \* processes with a Forwarder
    Writers,      \* threads that call enqueue
    Home,         \* Home[w]: the process of thread w
    Supervised,   \* the processes that are started again when they end
    MaxBackoff,   \* the longest timeout of a wait, in seconds
    MaxRecords,   \* bound: calls of enqueue
    MaxExits,     \* bound: processes that end or are killed
    MaxLost       \* bound: replies of the sink that do not arrive

ASSUME ForwarderAssumption ==
    /\ IsFiniteSet(Processes)
    /\ Home \in [Writers -> Processes]
    /\ Supervised \subseteq Processes
    /\ MaxBackoff \in Nat \ {0, 1}
    /\ MaxRecords \in Nat /\ MaxExits \in Nat /\ MaxLost \in Nat

VARIABLES
    files,      \* the *.json files of spool_dir
    sink,       \* what the sink received, in order
    published,  \* every name ever published (history)
    names,      \* clock readings of enqueue so far
    stage,      \* stage[w]: the statement of enqueue w is about to execute
    name,       \* name[w]: the name w chose
    pc,         \* pc[p]: the statement p's sender is about to execute
    target,     \* target[p]: files[0] of the last listing
    wake,       \* wake[p]: _wake is set
    backoff,    \* backoff[p]: seconds
    exits, lost \* how many so far

spool == <<files, sink, published>>
writing == <<names, stage, name>>
sending == <<pc, target, wake, backoff>>
vars == <<spool, writing, sending, exits, lost>>

Running == {p \in Processes : pc[p] # "off"}
Received == {sink[i] : i \in DOMAIN sink}

Doubled(b) == IF 2 * b < MaxBackoff THEN 2 * b ELSE MaxBackoff

Go(p, label) == pc' = [pc EXCEPT ![p] = label]

-----------------------------------------------------------------------------
(* enqueue.                                                                 *)

\* Lines 260 to 262: the name is chosen and the temporary file written.
Choose(w) ==
    /\ stage[w] = "idle"
    /\ Home[w] \in Running
    /\ names < MaxRecords
    /\ names' = names + 1
    /\ name' = [name EXCEPT ![w] = names + 1]
    /\ stage' = [stage EXCEPT ![w] = "publish"]
    /\ UNCHANGED <<spool, sending, exits, lost>>

Publish(w) ==
    /\ stage[w] = "publish"
    /\ files' = files \cup {name[w]}
    /\ published' = published \cup {name[w]}
    /\ stage' = [stage EXCEPT ![w] = "wake"]
    /\ UNCHANGED <<sink, names, name, sending, exits, lost>>

Wake(w) ==
    /\ stage[w] = "wake"
    /\ wake' = [wake EXCEPT ![Home[w]] = TRUE]
    /\ stage' = [stage EXCEPT ![w] = "idle"]
    /\ UNCHANGED <<spool, names, name, pc, target, backoff, exits, lost>>

-----------------------------------------------------------------------------
(* The sender thread: _run and _send.                                       *)

\* wait returns, woken or after backoff seconds.
Wait(p) ==
    /\ pc[p] = "wait"
    /\ Go(p, "clear")
    /\ UNCHANGED <<spool, writing, target, wake, backoff, exits, lost>>

Clear(p) ==
    /\ pc[p] = "clear"
    /\ wake' = [wake EXCEPT ![p] = FALSE]
    /\ Go(p, "list")
    /\ UNCHANGED <<spool, writing, target, backoff, exits, lost>>

\* The spool is empty.
ListNothing(p) ==
    /\ pc[p] = "list"
    /\ files = {}
    /\ backoff' = [backoff EXCEPT ![p] = 1]
    /\ Go(p, "wait")
    /\ UNCHANGED <<spool, writing, target, wake, exits, lost>>

ListOldest(p) ==
    /\ pc[p] = "list"
    /\ \E oldest \in files :
          /\ \A n \in files : oldest <= n
          /\ target' = [target EXCEPT ![p] = oldest]
    /\ Go(p, "read")
    /\ UNCHANGED <<spool, writing, wake, backoff, exits, lost>>

\* read_bytes raises FileNotFoundError when another sender has removed the
\* file; _send only catches httpx.HTTPError, so the thread ends.
Read(p) ==
    /\ pc[p] = "read"
    /\ Go(p, IF target[p] \in files THEN "post" ELSE "dead")
    /\ UNCHANGED <<spool, writing, target, wake, backoff, exits, lost>>

Accepted(p) ==
    /\ pc[p] = "post"
    /\ sink' = Append(sink, target[p])
    /\ Go(p, "unlink")
    /\ UNCHANGED <<files, published, writing, target, wake, backoff, exits, lost>>

Backoff(p) ==
    /\ backoff' = [backoff EXCEPT ![p] = Doubled(@)]
    /\ Go(p, "wait")

MutantDropRejected(p) ==
    /\ pc[p] = "post"
    /\ Go(p, "unlink")
    /\ UNCHANGED <<spool, writing, target, wake, backoff, exits, lost>>

\* The sink is unreachable or answers with another status.
Rejected(p) ==
    /\ pc[p] = "post"
    /\ Backoff(p)
    /\ UNCHANGED <<spool, writing, target, wake, exits, lost>>

\* The sink takes the record and the reply does not arrive in time.
ReplyLost(p) ==
    /\ pc[p] = "post"
    /\ lost < MaxLost
    /\ lost' = lost + 1
    /\ sink' = Append(sink, target[p])
    /\ Backoff(p)
    /\ UNCHANGED <<files, published, writing, target, wake, exits>>

MutantKeepFile(p) ==
    /\ pc[p] = "unlink"
    /\ backoff' = [backoff EXCEPT ![p] = 1]
    /\ wake' = [wake EXCEPT ![p] = TRUE]
    /\ Go(p, "wait")
    /\ UNCHANGED <<spool, writing, target, exits, lost>>

MutantKeepSleeping(p) ==
    /\ pc[p] = "unlink"
    /\ files' = files \ {target[p]}
    /\ backoff' = [backoff EXCEPT ![p] = 1]
    /\ Go(p, "wait")
    /\ UNCHANGED <<sink, published, writing, target, wake, exits, lost>>

\* A 2xx: the file is removed and the loop keeps draining.
Unlink(p) ==
    /\ pc[p] = "unlink"
    /\ files' = files \ {target[p]}
    /\ backoff' = [backoff EXCEPT ![p] = 1]
    /\ wake' = [wake EXCEPT ![p] = TRUE]
    /\ Go(p, "wait")
    /\ UNCHANGED <<sink, published, writing, target, exits, lost>>

-----------------------------------------------------------------------------
\* A process builds its Forwarder and starts the sender thread.
Start(p) ==
    /\ pc[p] = "off"
    /\ exits < MaxExits \/ p \in Supervised
    /\ wake' = [wake EXCEPT ![p] = FALSE]
    /\ backoff' = [backoff EXCEPT ![p] = 1]
    /\ Go(p, "wait")
    /\ UNCHANGED <<spool, writing, target, exits, lost>>

\* A process ends, at any statement of its threads: the sender is a daemon.
Exit(p) ==
    /\ p \in Running
    /\ exits < MaxExits
    /\ exits' = exits + 1
    /\ Go(p, "off")
    /\ stage' = [w \in Writers |-> IF Home[w] = p THEN "idle" ELSE stage[w]]
    /\ UNCHANGED <<spool, names, name, target, wake, backoff, lost>>

Init ==
    /\ files = {} /\ sink = <<>> /\ published = {}
    /\ names = 0
    /\ stage = [w \in Writers |-> "idle"]
    /\ name = [w \in Writers |-> 0]
    /\ pc = [p \in Processes |-> "off"]
    /\ target = [p \in Processes |-> 0]
    /\ wake = [p \in Processes |-> FALSE]
    /\ backoff = [p \in Processes |-> 1]
    /\ exits = 0 /\ lost = 0

Attempt(p) ==
    Wait(p) \/ Clear(p) \/ ListNothing(p) \/ ListOldest(p) \/ Read(p)

Next ==
    \/ \E w \in Writers : Choose(w) \/ Publish(w) \/ Wake(w)
    \/ \E p \in Processes :
          \/ Attempt(p) \/ Accepted(p) \/ Rejected(p) \/ ReplyLost(p) \/ Unlink(p)
          \/ Start(p) \/ Exit(p)

Spec == Init /\ [][Next]_vars

\* The threads and the supervisor go on, and a sink that is asked again and
\* again eventually answers with a 2xx.
FairSpec ==
    /\ Spec
    /\ \A w \in Writers : WF_vars(Publish(w)) /\ WF_vars(Wake(w))
    /\ \A p \in Processes : /\ WF_vars(Attempt(p)) /\ WF_vars(Unlink(p))
                            /\ SF_vars(Accepted(p))
    /\ \A p \in Supervised : WF_vars(Start(p))

-----------------------------------------------------------------------------
(* Properties.                                                              *)

\* The type invariant. A sender that is past its listing has a target.
TypeOK ==
    /\ files \subseteq 1..names /\ published \subseteq 1..names
    /\ sink \in Seq(1..MaxRecords)
    /\ names \in 0..MaxRecords
    /\ stage \in [Writers -> {"idle", "publish", "wake"}]
    /\ name \in [Writers -> 0..names]
    /\ \A w \in Writers : stage[w] # "idle" => name[w] \in 1..names
    /\ pc \in [Processes -> {"off", "wait", "clear", "list", "read", "post", "unlink", "dead"}]
    /\ target \in [Processes -> 0..names]
    /\ \A p \in Processes : pc[p] \in {"read", "post", "unlink"} => target[p] \in 1..names
    /\ wake \in [Processes -> BOOLEAN]
    /\ backoff \in [Processes -> 1..MaxBackoff]
    /\ exits \in 0..MaxExits /\ lost \in 0..MaxLost

\* "Never drop a record" (audit.py:237): a file leaves the spool only after
\* the sink has it, whatever ends, is refused, is lost or is sent twice.
NothingLost == published \subseteq files \cup Received

\* No lost wake-up: the sender clears _wake before it lists the spool, so
\* until a restart it never sleeps out a timeout on a file it has not tried,
\* unless the thread that published the file is about to wake it.
SleepsOnlyWithoutWork ==
    \A p \in Supervised :
       exits = 0 /\ pc[p] = "wait" /\ ~wake[p] /\ backoff[p] = 1
          => \A n \in files : \E w \in Writers : stage[w] = "wake" /\ name[w] = n

\* The spool is the retry queue: every published record reaches the sink
\* (audit.py:236-237).
EveryRecordDelivered ==
    \A n \in 1..MaxRecords : n \in published ~> n \in Received

\* Only the death of a sender thread, of a file another sender removed, can
\* keep a published record from the sink (audit.py:285).
DeliveredUnlessSenderDied ==
    \A n \in 1..MaxRecords :
       n \in published ~> n \in Received \/ \E p \in Processes : pc[p] = "dead"

\* A record is sent more than once only for a reply that was lost, a process
\* that ended, or another sender of the same spool.
Copies(n) == Cardinality({i \in DOMAIN sink : sink[i] = n})
FewCopies == \A n \in Received : Copies(n) <= Cardinality(Processes) + lost + exits
=============================================================================
