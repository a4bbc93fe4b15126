-------------------------- MODULE ReportBuildProofs --------------------------
(***************************************************************************)
(* Proofs about ReportBuild, for every set of traces and spans, whichever  *)
(* are slow, profiled or the root, every answer of the backend, and every  *)
(* number of workers and retries.                                          *)
(***************************************************************************)
EXTENDS ReportBuild, SequenceFacts, FiniteSetTheorems, TLAPS

USE ReportBuildAssumption

JobType == [pc : Steps \cup Ends \cup {"absent", "queued"},
            merging : Seq(Span), adding : SUBSET Object, seen : Seq(Object),
            due : SUBSET Span, nodes : SUBSET Node, unvisited : SUBSET Node,
            claiming : SUBSET Node, storing : Seq(Object),
            after : Steps \cup Ends \cup {"absent"}]

\* A step of k makes its local variables j; no other task notices.
Becomes(k, j) == /\ j \in JobType /\ job' \in [Task -> JobType] /\ job'[k] = j
                 /\ \A q \in Task : q # k => job'[q] = job[q]

SameMerge(j, i) == j.merging = i.merging /\ j.adding = i.adding /\ j.seen = i.seen
SameVisit(j, i) == j.nodes = i.nodes /\ j.unvisited = i.unvisited /\ j.claiming = i.claiming
SameStore(j, i) == j.storing = i.storing /\ j.after = i.after

\* A task that stores is as good as where it goes when it has stored.
StoresNow(j) == j.pc \in {"store", "mark", "save"}
Stage(j) == IF StoresNow(j) THEN j.after ELSE j.pc

\* j has objects to store, and goes on at next.
WillStore(j, objects, next) ==
  /\ j.storing = objects
  /\ j.pc = IF objects = <<>> THEN next ELSE "store"
  /\ j.after = IF objects = <<>> THEN "absent" ELSE next

\* j is new but for its pc.
Fresh(j) == /\ j.merging = <<>> /\ j.adding = {} /\ j.seen = <<>>
            /\ j.nodes = {} /\ j.unvisited = {} /\ j.claiming = {}
            /\ j.storing = <<>> /\ j.after = "absent"

LEMMA TypeIs == TypeOK <=> /\ local \in BOOLEAN /\ missTop \in BOOLEAN
                           /\ cached \in [Traces -> Seq(Span)]
                           /\ relation \subseteq Node
                           /\ list \in [Traces -> Seq(Object)] /\ hasRoot \in [Traces -> BOOLEAN]
                           /\ sent \subseteq Object /\ stored \in [Object -> Nat]
                           /\ job \in [Task -> JobType]
                           /\ retryTimes \in [Task -> Nat]
                           /\ consumed \in [Traces -> SUBSET Span]
                           /\ related \in [Node -> Seq(Traces)]
                           /\ reports \in [Task -> Nat] /\ drops \in [Task -> Nat]
BY DEF TypeOK, JobType

LEMMA TaskIs == \A k \in Task : k[1] \in Traces /\ k[2] \in ReportType
BY DEF Task

LEMMA IdleFacts == Idle \in JobType /\ Fresh(Idle) /\ Idle.pc = "absent"
BY DEF Idle, JobType, Fresh

LEMMA BecomesFacts ==
  ASSUME TypeOK, NEW k \in Task, NEW j \in JobType, job' = [job EXCEPT ![k] = j]
  PROVE  Becomes(k, j)
BY TypeIs DEF Becomes

\* Idle at another place.
LEMMA LeaveFacts ==
  ASSUME TypeOK, NEW k \in Task, NEW there \in Ends \cup {"queued"}, Leave(k, there)
  PROVE  \E j : Becomes(k, j) /\ Fresh(j) /\ j.pc = there
<1> DEFINE j == [Idle EXCEPT !.pc = there]
<1>1. j \in JobType /\ Fresh(j) /\ j.pc = there
  BY IdleFacts DEF JobType, Fresh
<1>2. Becomes(k, j)
  BY <1>1, BecomesFacts DEF Leave
<1> QED
  BY <1>1, <1>2

LEMMA GotoFacts ==
  ASSUME TypeOK, NEW k \in Task, NEW there \in Steps \cup Ends, Goto(k, there)
  PROVE  \E j : /\ Becomes(k, j) /\ j.pc = there
                /\ SameMerge(j, job[k]) /\ SameVisit(j, job[k]) /\ SameStore(j, job[k])
<1> DEFINE j == [job[k] EXCEPT !.pc = there]
<1>1. job[k] \in JobType
  BY TypeIs
<1>2. /\ j \in JobType /\ j.pc = there
      /\ SameMerge(j, job[k]) /\ SameVisit(j, job[k]) /\ SameStore(j, job[k])
  BY <1>1 DEF JobType, SameMerge, SameVisit, SameStore
<1>3. Becomes(k, j)
  BY <1>2, BecomesFacts DEF Goto
<1> QED
  BY <1>2, <1>3

LEMMA StoreThenFacts ==
  ASSUME TypeOK, NEW k \in Task, NEW objects \in Seq(Object), NEW next \in Steps \cup Ends
  PROVE  /\ StoreThen(k, objects, next) \in JobType
         /\ WillStore(StoreThen(k, objects, next), objects, next)
         /\ SameMerge(StoreThen(k, objects, next), job[k])
         /\ SameVisit(StoreThen(k, objects, next), job[k])
<1>1. job[k] \in JobType
  BY TypeIs
<1>2. CASE objects = <<>>
  BY <1>1, <1>2 DEF JobType, StoreThen, WillStore, SameMerge, SameVisit, Steps
<1>3. CASE objects # <<>>
  BY <1>1, <1>3 DEF JobType, StoreThen, WillStore, SameMerge, SameVisit, Steps
<1> QED
  BY <1>2, <1>3

LEMMA StoreTracesFacts ==
  ASSUME TypeOK, NEW k \in Task, NEW objects \in Seq(Object), NEW next \in Steps \cup Ends,
         StoreTraces(k, objects, next)
  PROVE  \E j : /\ Becomes(k, j) /\ WillStore(j, objects, next)
                /\ SameMerge(j, job[k]) /\ SameVisit(j, job[k])
<1> DEFINE j == StoreThen(k, objects, next)
<1>1. /\ j \in JobType /\ WillStore(j, objects, next)
      /\ SameMerge(j, job[k]) /\ SameVisit(j, job[k])
  BY StoreThenFacts
<1>2. Becomes(k, j)
  BY <1>1, BecomesFacts DEF StoreTraces
<1> QED
  BY <1>1, <1>2

\* The next span of a merge, or the end of it.
Merges(j, i, spans) ==
  /\ SameVisit(j, i) /\ j.seen = <<>>
  /\ \/ /\ spans = <<>> /\ j.pc = "relation" /\ j.adding = {}
        /\ j.merging = i.merging /\ SameStore(j, i)
     \/ /\ spans # <<>>
        /\ \E new \in Object :
             /\ new.span = Head(spans) /\ j.merging = Tail(spans) /\ j.adding = {new}
             /\ \/ WillStore(j, <<new>>, "append")
                \/ WillStore(j, <<>>, "append")

LEMMA MergeFacts ==
  ASSUME TypeOK, NEW k \in Task, NEW spans \in Seq(Span), MergeThen(k, spans)
  PROVE  \E j : Becomes(k, j) /\ Merges(j, job[k], spans)
<1>0. job[k] \in JobType
  BY TypeIs
<1>1. CASE spans = <<>>
  <2> DEFINE j == [job[k] EXCEPT !.pc = "relation", !.adding = {}, !.seen = <<>>]
  <2>1. job' = [job EXCEPT ![k] = j]
    BY <1>1, TypeIs DEF MergeThen
  <2>2. /\ j \in JobType /\ j.pc = "relation" /\ j.adding = {} /\ j.seen = <<>>
        /\ j.merging = job[k].merging /\ SameVisit(j, job[k]) /\ SameStore(j, job[k])
    <3>1. <<>> \in Seq(Object) /\ {} \in SUBSET Object
      OBVIOUS
    <3>2. j \in JobType
      BY <1>0, <3>1 DEF JobType, Steps
    <3> QED
      BY <1>0, <3>2 DEF JobType, SameVisit, SameStore
  <2>3. Becomes(k, j)
    BY <2>1, <2>2, BecomesFacts
  <2> QED
    BY <1>1, <2>2, <2>3 DEF Merges
<1>2. CASE spans # <<>>
  <2> DEFINE new == [span |-> Head(spans), by |-> IF local THEN "consume" ELSE k[2]]
             due == IF new.span \in ProfiledSpan THEN <<new>> ELSE <<>>
             i == StoreThen(k, due, "append")
             j == [i EXCEPT !.merging = Tail(spans), !.adding = {new}, !.seen = <<>>]
  <2>1. Head(spans) \in Span /\ Tail(spans) \in Seq(Span)
    BY <1>2
  <2>2. new \in Object /\ new.span = Head(spans)
    BY <2>1, TaskIs DEF Object
  <2> HIDE DEF new
  <2>3. due \in Seq(Object)
    BY <2>2
  <2>4. i \in JobType /\ WillStore(i, due, "append") /\ SameVisit(i, job[k])
    BY <2>3, StoreThenFacts DEF Steps
  <2>5. job' = [job EXCEPT ![k] = j]
    BY <1>2 DEF MergeThen, new
  <2> HIDE DEF i
  <2>6. /\ j \in JobType /\ WillStore(j, due, "append") /\ SameVisit(j, job[k])
        /\ j.merging = Tail(spans) /\ j.adding = {new} /\ j.seen = <<>>
    <3>1. <<>> \in Seq(Object) /\ {new} \in SUBSET Object
      BY <2>2
    <3>2. j \in JobType
      BY <2>1, <2>4, <3>1 DEF JobType
    <3>3. /\ j.storing = i.storing /\ j.pc = i.pc /\ j.after = i.after
          /\ j.nodes = i.nodes /\ j.unvisited = i.unvisited /\ j.claiming = i.claiming
          /\ j.merging = Tail(spans) /\ j.adding = {new} /\ j.seen = <<>>
      BY <2>4 DEF JobType
    <3> HIDE DEF j, due
    <3> QED
      BY <2>4, <3>2, <3>3 DEF WillStore, SameVisit
  <2>7. Becomes(k, j)
    BY <2>5, <2>6, BecomesFacts
  <2> HIDE DEF j
  <2>8. due = <<new>> \/ due = <<>>
    OBVIOUS
  <2> QED
    BY <1>2, <2>2, <2>6, <2>7, <2>8 DEF Merges
<1> QED
  BY <1>1, <1>2

LEMMA NewSpansFacts ==
  ASSUME TypeOK, NEW k \in Task
  PROVE  /\ NewSpans(k) \in Seq(Span)
         /\ Range(NewSpans(k)) \subseteq Range(cached[k[1]]) \ SpansIn(list[k[1]])
         /\ IsInjective(cached[k[1]]) => IsInjective(NewSpans(k))
<1>1. cached[k[1]] \in Seq(Span)
  BY TypeIs, TaskIs
<1>2. NewSpans(k) = LeftOver(cached[k[1]], SpansIn(list[k[1]]))
  BY DEF NewSpans, LeftOver
<1> QED
  BY <1>1, <1>2, LeftOverFacts

-----------------------------------------------------------------------------
(* What each action makes of the local variables of its task.              *)

WellFormed(j) ==
  /\ j.after \in {"absent", "append", "relate", "build", "reported", "exhausted",
                  "write", "writeEntry"}
  /\ StoresNow(j) <=> j.storing # <<>>
  /\ StoresNow(j) <=> j.after # "absent"
  /\ Stage(j) \notin {"append", "add"} => j.adding = {} /\ j.merging = <<>>
  /\ j.claiming # {} => j.pc \in {"claim", "record"}
  /\ Stage(j) \notin {"relate", "claim", "record"} => j.unvisited = {}

JobInv == \A k \in Task : WellFormed(job[k])

LEMMA CountsUp ==
  ASSUME NEW f \in [Task -> Nat], NEW g, NEW k \in Task,
         g = f \/ g = [f EXCEPT ![k] = @ + 1]
  PROVE  g \in [Task -> Nat]
<1> HIDE DEF Task
<1> QED
  OBVIOUS

LEMMA FreshFacts ==
  ASSUME NEW j, Fresh(j), ~StoresNow(j)
  PROVE  WellFormed(j) /\ Stage(j) = j.pc
BY DEF Fresh, StoresNow, WellFormed, Stage

LEMMA WillStoreFacts ==
  ASSUME NEW j, NEW objects, NEW next, next \notin {"store", "mark", "save"}, WillStore(j, objects, next)
  PROVE  Stage(j) = next /\ (StoresNow(j) <=> objects # <<>>)
BY DEF WillStore, Stage, StoresNow

LEMMA BeginFacts ==
  ASSUME TypeOK, NEW k \in Task, Begin(k)
  PROVE  /\ job[k].pc = "queued"
         /\ \E j : /\ Becomes(k, j) /\ j.pc \in {"relation", "load"}
                   /\ SameMerge(j, job[k]) /\ SameVisit(j, job[k]) /\ SameStore(j, job[k])
<1>1. job[k].pc = "queued" /\ job[k] \in JobType
  BY TypeIs DEF Begin, At, pc
<1>2. CASE Goto(k, "relation")
  BY <1>1, <1>2, GotoFacts DEF Steps
<1>3. CASE job' = [job EXCEPT ![k].pc = "load", ![k].due = Range(cached[k[1]])]
  <2> DEFINE j == [job[k] EXCEPT !.pc = "load", !.due = Range(cached[k[1]])]
  <2>1. Range(cached[k[1]]) \subseteq Span
    BY TypeIs, TaskIs DEF Range
  <2>2. j \in JobType
    BY <1>1, <2>1 DEF JobType, Steps
  <2>3. /\ j.pc = "load" /\ SameMerge(j, job[k]) /\ SameVisit(j, job[k]) /\ SameStore(j, job[k])
    BY <1>1 DEF JobType, SameMerge, SameVisit, SameStore
  <2>4. job' = [job EXCEPT ![k] = j]
    BY <1>3, TypeIs
  <2>5. Becomes(k, j)
    BY <2>2, <2>4, BecomesFacts
  <2> QED
    BY <1>1, <2>3, <2>5
<1> QED
  BY <1>2, <1>3 DEF Begin

LEMMA LoadFacts ==
  ASSUME TypeOK, NEW k \in Task, Load(k)
  PROVE  job[k].pc = "load" /\ \E j : Becomes(k, j) /\ Merges(j, job[k], NewSpans(k))
BY NewSpansFacts, MergeFacts DEF Load, At, pc

LEMMA ReadListFacts ==
  ASSUME TypeOK, NEW k \in Task, ReadList(k)
  PROVE  /\ job[k].pc = "append"
         /\ \E j : /\ Becomes(k, j) /\ j.pc = "add" /\ j.seen = list[k[1]]
                   /\ j.merging = job[k].merging /\ j.adding = job[k].adding
                   /\ SameVisit(j, job[k]) /\ SameStore(j, job[k])
<1> DEFINE j == [job[k] EXCEPT !.pc = "add", !.seen = list[k[1]]]
<1>1. job[k] \in JobType /\ list[k[1]] \in Seq(Object)
  BY TypeIs, TaskIs
<1>2. j \in JobType
  BY <1>1 DEF JobType, Steps
<1>3. /\ j.pc = "add" /\ j.seen = list[k[1]]
      /\ j.merging = job[k].merging /\ j.adding = job[k].adding
      /\ SameVisit(j, job[k]) /\ SameStore(j, job[k])
  BY <1>1 DEF JobType, SameVisit, SameStore
<1>4. job[k].pc = "append" /\ job' = [job EXCEPT ![k] = j]
  BY TypeIs DEF ReadList, At, pc
<1>5. Becomes(k, j)
  BY <1>2, <1>4, BecomesFacts
<1> QED
  BY <1>3, <1>4, <1>5

LEMMA AddTraceFacts ==
  ASSUME TypeOK, NEW k \in Task, AddTrace(k)
  PROVE  /\ job[k].pc = "add"
         /\ \E j : Becomes(k, j) /\ Merges(j, job[k], job[k].merging)
<1>1. job[k].merging \in Seq(Span)
  BY TypeIs DEF JobType
<1> QED
  BY <1>1, MergeFacts DEF AddTrace, At, pc

\* The object a task is at, and what is left when it is stored.
LEMMA StoringFacts ==
  ASSUME TypeOK, JobInv, NEW k \in Task, StoresNow(job[k])
  PROVE  /\ job[k].storing \in Seq(Object) /\ job[k].storing # <<>>
         /\ Head(job[k].storing) \in Object /\ Tail(job[k].storing) \in Seq(Object)
         /\ Range(job[k].storing) = {Head(job[k].storing)} \cup Range(Tail(job[k].storing))
         /\ job[k].after \in {"append", "relate", "build", "reported", "exhausted",
                               "write", "writeEntry"}
         /\ Stage(job[k]) = job[k].after
<1>1. job[k].storing \in Seq(Object) /\ WellFormed(job[k])
  BY TypeIs DEF JobType, JobInv
<1>2. job[k].storing # <<>>
  BY <1>1 DEF WellFormed
<1>3. /\ Head(job[k].storing) \in Object /\ Tail(job[k].storing) \in Seq(Object)
      /\ Range(job[k].storing) = {Head(job[k].storing)} \cup Range(Tail(job[k].storing))
  BY <1>1, <1>2, TailFacts
<1> QED
  BY <1>1, <1>2, <1>3 DEF WellFormed, Stage

LEMMA CheckSentFacts ==
  ASSUME TypeOK, JobInv, NEW k \in Task, CheckSent(k)
  PROVE  /\ job[k].pc = "store" /\ StoresNow(job[k])
         /\ \E j : /\ Becomes(k, j) /\ SameMerge(j, job[k]) /\ SameVisit(j, job[k])
                   /\ \/ /\ Head(job[k].storing) \notin sent
                         /\ j.pc = "mark" /\ SameStore(j, job[k])
                      \/ /\ Head(job[k].storing) \in sent
                         /\ WillStore(j, Tail(job[k].storing), job[k].after)
<1>1. job[k].pc = "store" /\ StoresNow(job[k])
  BY DEF CheckSent, At, pc, StoresNow
<1>2. Tail(job[k].storing) \in Seq(Object) /\ job[k].after \in Steps \cup Ends
  BY <1>1, StoringFacts DEF Steps, Ends
<1>3. CASE Head(job[k].storing) \notin sent
  <2>1. Goto(k, "mark")
    BY <1>3 DEF CheckSent, Unsent
  <2> QED
    BY <1>1, <1>3, <2>1, GotoFacts DEF Steps
<1>4. CASE Head(job[k].storing) \in sent
  <2>1. StoreTraces(k, Tail(job[k].storing), job[k].after)
    BY <1>4 DEF CheckSent, Unsent
  <2> QED
    BY <1>1, <1>2, <1>4, <2>1, StoreTracesFacts
<1> QED
  BY <1>3, <1>4

LEMMA MarkSentFacts ==
  ASSUME TypeOK, JobInv, NEW k \in Task, MarkSent(k)
  PROVE  /\ job[k].pc = "mark" /\ StoresNow(job[k])
         /\ \E j : /\ Becomes(k, j) /\ j.pc = "save"
                   /\ SameMerge(j, job[k]) /\ SameVisit(j, job[k]) /\ SameStore(j, job[k])
<1>1. job[k].pc = "mark" /\ StoresNow(job[k])
  BY DEF MarkSent, At, pc, StoresNow
<1>2. Goto(k, "save") /\ "save" \in Steps
  BY DEF MarkSent, Steps
<1> QED
  BY <1>1, <1>2, GotoFacts

LEMMA SaveFacts ==
  ASSUME TypeOK, JobInv, NEW k \in Task, Save(k)
  PROVE  /\ job[k].pc = "save" /\ StoresNow(job[k])
         /\ \E j : /\ Becomes(k, j) /\ SameMerge(j, job[k]) /\ SameVisit(j, job[k])
                   /\ WillStore(j, Tail(job[k].storing), job[k].after)
<1>1. job[k].pc = "save" /\ StoresNow(job[k])
  BY DEF Save, At, pc, StoresNow
<1>2. Tail(job[k].storing) \in Seq(Object) /\ job[k].after \in Steps \cup Ends
  BY <1>1, StoringFacts DEF Steps, Ends
<1> QED
  BY <1>1, <1>2, StoreTracesFacts DEF Save

LEMMA TracesList == TypeOK => \A k \in Task : list[k[1]] \in Seq(Object)
BY TypeIs, TaskIs

\* k begins again, gives up with a drop report, or stores the trace and ends.
Fails(j, k) ==
  \/ j.pc = "queued" /\ Fresh(j) /\ drops' = drops
  \/ k[2] # "normal" /\ j.pc = "exhausted" /\ Fresh(j) /\ drops' = [drops EXCEPT ![k] = @ + 1]
  \/ /\ k[2] = "normal" /\ drops' = drops
     /\ WillStore(j, list[k[1]], "exhausted") /\ SameMerge(j, job[k]) /\ SameVisit(j, job[k])

LEMMA FailFacts ==
  ASSUME TypeOK, NEW k \in Task, Fail(k)
  PROVE  retryTimes' \in [Task -> Nat] /\ \E j : Becomes(k, j) /\ Fails(j, k)
<1>0. retryTimes' \in [Task -> Nat]
  BY TypeIs DEF Fail
<1>1. CASE Leave(k, "queued") /\ UNCHANGED drops
  BY <1>0, <1>1, LeaveFacts DEF Fails
<1>2. CASE k[2] # "normal" /\ Leave(k, "exhausted") /\ drops' = [drops EXCEPT ![k] = @ + 1]
  <2>1. "exhausted" \in Ends
    BY DEF Ends
  <2> QED
    BY <1>0, <1>2, <2>1, LeaveFacts DEF Fails
<1>3. CASE k[2] = "normal" /\ StoreTraces(k, list[k[1]], "exhausted") /\ UNCHANGED drops
  <2>1. list[k[1]] \in Seq(Object) /\ "exhausted" \in Ends
    BY TracesList DEF Ends
  <2> QED
    BY <1>0, <1>3, <2>1, StoreTracesFacts DEF Fails
<1> QED
  BY <1>1, <1>2, <1>3 DEF Fail

LEMMA NextNodeIs ==
  ASSUME NEW k \in Task, NEW rest
  PROVE  /\ NextNode(k, rest) \in Steps \cup Ends
         /\ rest # {} => NextNode(k, rest) = "relate"
         /\ rest = {} => NextNode(k, rest) = IF k[2] = "normal" THEN "reported" ELSE "build"
BY DEF NextNode, Steps, Ends

LEMMA StartRelationsFacts ==
  ASSUME TypeOK, NEW k \in Task, StartRelations(k)
  PROVE  /\ job[k].pc = "relation" /\ retryTimes' \in [Task -> Nat]
         /\ \E j : /\ Becomes(k, j)
                   /\ \/ Fails(j, k)
                      \/ /\ WillStore(j, list[k[1]], NextNode(k, {}))
                         /\ SameMerge(j, job[k]) /\ SameVisit(j, job[k]) /\ drops' = drops
                      \/ \E answer \in Answers :
                           /\ j.pc = NextNode(k, answer) /\ drops' = drops
                           /\ j.nodes = answer /\ j.unvisited = answer
                           /\ j.claiming = job[k].claiming
                           /\ SameMerge(j, job[k]) /\ SameStore(j, job[k])
<1>0. job[k].pc = "relation" /\ job[k] \in JobType
  BY TypeIs DEF StartRelations, At, pc
<1>1. CASE Fail(k)
  BY <1>0, <1>1, FailFacts
<1>2. CASE LookUpRoot(k)
  <2> DEFINE i == StoreThen(k, list[k[1]], NextNode(k, {}))
             j == [i EXCEPT !.due = {}]
  <2>1. /\ i \in JobType /\ WillStore(i, list[k[1]], NextNode(k, {}))
        /\ SameMerge(i, job[k]) /\ SameVisit(i, job[k])
    BY TracesList, NextNodeIs, StoreThenFacts
  <2>2. job' = [job EXCEPT ![k] = j] /\ UNCHANGED <<retryTimes, drops>>
    BY <1>2 DEF LookUpRoot
  <2> HIDE DEF i
  <2>3. j \in JobType
    BY <2>1 DEF JobType
  <2>4. /\ j.pc = i.pc /\ SameStore(j, i) /\ SameMerge(j, i) /\ SameVisit(j, i)
    BY <2>1 DEF JobType, SameMerge, SameVisit, SameStore
  <2>5. Becomes(k, j)
    BY <2>2, <2>3, BecomesFacts
  <2> HIDE DEF j
  <2>6. WillStore(j, list[k[1]], NextNode(k, {})) /\ SameMerge(j, job[k]) /\ SameVisit(j, job[k])
    BY <2>1, <2>4 DEF WillStore, SameMerge, SameVisit, SameStore
  <2>7. retryTimes' \in [Task -> Nat]
    BY <2>2, TypeIs
  <2> QED
    BY <1>0, <2>2, <2>5, <2>6, <2>7
<1>3. ASSUME NEW answer \in Answers, UNCHANGED <<retryTimes, drops>>,
             job' = [job EXCEPT ![k].pc = NextNode(k, answer), ![k].due = {},
                                ![k].nodes = answer, ![k].unvisited = answer]
      PROVE  \E j : /\ Becomes(k, j) /\ j.pc = NextNode(k, answer)
                    /\ j.nodes = answer /\ j.unvisited = answer
                    /\ j.claiming = job[k].claiming
                    /\ SameMerge(j, job[k]) /\ SameStore(j, job[k])
  <2> DEFINE j == [job[k] EXCEPT !.pc = NextNode(k, answer), !.due = {},
                                 !.nodes = answer, !.unvisited = answer]
  <2>1. answer \in SUBSET Node /\ NextNode(k, answer) \in Steps \cup Ends
    BY NextNodeIs
  <2>2. j \in JobType
    BY <1>0, <2>1 DEF JobType
  <2>3. /\ j.pc = NextNode(k, answer) /\ j.nodes = answer /\ j.unvisited = answer
        /\ j.claiming = job[k].claiming /\ SameMerge(j, job[k]) /\ SameStore(j, job[k])
    BY <1>0 DEF JobType, SameMerge, SameStore
  <2>4. job' = [job EXCEPT ![k] = j]
    BY <1>3, TypeIs
  <2>5. Becomes(k, j)
    BY <2>2, <2>4, BecomesFacts
  <2> QED
    BY <2>3, <2>5
<1>4. UNCHANGED retryTimes => retryTimes' \in [Task -> Nat]
  BY TypeIs
<1> QED
  BY <1>0, <1>1, <1>2, <1>3, <1>4 DEF StartRelations, QueryServices

LEMMA LookUpNodeFacts ==
  ASSUME TypeOK, NEW k \in Task, NEW n \in Node, LookUpNode(k, n)
  PROVE  /\ job[k].pc = "relate" /\ n \in job[k].unvisited
         /\ \E j : /\ Becomes(k, j) /\ SameMerge(j, job[k]) /\ SameStore(j, job[k])
                   /\ j.nodes = job[k].nodes /\ j.unvisited = job[k].unvisited \ {n}
                   /\ \/ /\ n \in relation /\ j.pc = NextNode(k, j.unvisited)
                         /\ j.claiming = job[k].claiming
                      \/ n \notin relation /\ j.pc = "claim" /\ j.claiming = {n}
<1>0. job[k].pc = "relate" /\ job[k] \in JobType /\ n \in job[k].unvisited
  BY TypeIs DEF LookUpNode, At, pc
<1> DEFINE rest == job[k].unvisited \ {n}
           h == [job[k] EXCEPT !.pc = NextNode(k, rest), !.unvisited = rest]
           j == [job[k] EXCEPT !.pc = "claim", !.unvisited = rest, !.claiming = {n}]
<1>1. rest \in SUBSET Node /\ NextNode(k, rest) \in Steps \cup Ends
  BY <1>0, NextNodeIs DEF JobType
<1>2. CASE n \in relation
  <2>1. h \in JobType
    BY <1>0, <1>1 DEF JobType
  <2>2. /\ h.pc = NextNode(k, rest) /\ h.unvisited = rest /\ h.nodes = job[k].nodes
        /\ h.claiming = job[k].claiming /\ SameMerge(h, job[k]) /\ SameStore(h, job[k])
    BY <1>0 DEF JobType, SameMerge, SameStore
  <2>3. job' = [job EXCEPT ![k] = h]
    BY <1>2, TypeIs DEF LookUpNode, Known
  <2>4. Becomes(k, h)
    BY <2>1, <2>3, BecomesFacts
  <2> QED
    BY <1>0, <1>2, <2>2, <2>4
<1>3. CASE n \notin relation
  <2>1. j \in JobType
    BY <1>0, <1>1 DEF JobType, Steps
  <2>2. /\ j.pc = "claim" /\ j.unvisited = rest /\ j.nodes = job[k].nodes
        /\ j.claiming = {n} /\ SameMerge(j, job[k]) /\ SameStore(j, job[k])
    BY <1>0 DEF JobType, SameMerge, SameStore
  <2>3. job' = [job EXCEPT ![k] = j]
    BY <1>3, TypeIs DEF LookUpNode, Known
  <2>4. Becomes(k, j)
    BY <2>1, <2>3, BecomesFacts
  <2> QED
    BY <1>0, <1>3, <2>2, <2>4
<1> QED
  BY <1>2, <1>3

LEMMA ClaimFacts ==
  ASSUME TypeOK, NEW k \in Task, Claim(k)
  PROVE  /\ job[k].pc = "claim"
         /\ \E j : /\ Becomes(k, j) /\ j.pc = "record"
                   /\ SameMerge(j, job[k]) /\ SameVisit(j, job[k]) /\ SameStore(j, job[k])
<1>1. job[k].pc = "claim"
  BY DEF Claim, At, pc
<1>2. Goto(k, "record") /\ "record" \in Steps
  BY DEF Claim, Steps
<1> QED
  BY <1>1, <1>2, GotoFacts

LEMMA StoreRelationFacts ==
  ASSUME TypeOK, NEW k \in Task, StoreRelation(k)
  PROVE  /\ job[k].pc = "record"
         /\ \E j : /\ Becomes(k, j) /\ WillStore(j, list[k[1]], NextNode(k, job[k].unvisited))
                   /\ SameMerge(j, job[k])
                   /\ j.nodes = job[k].nodes /\ j.unvisited = job[k].unvisited /\ j.claiming = {}
<1> DEFINE i == StoreThen(k, list[k[1]], NextNode(k, job[k].unvisited))
           j == [i EXCEPT !.claiming = {}]
<1>1. /\ i \in JobType /\ WillStore(i, list[k[1]], NextNode(k, job[k].unvisited))
      /\ SameMerge(i, job[k]) /\ SameVisit(i, job[k])
  BY TracesList, NextNodeIs, StoreThenFacts
<1>2. job' = [job EXCEPT ![k] = j] /\ job[k].pc = "record"
  BY DEF StoreRelation, ToStore, At, pc
<1> HIDE DEF i
<1>3. j \in JobType
  BY <1>1 DEF JobType
<1>4. /\ j.pc = i.pc /\ SameStore(j, i) /\ SameMerge(j, i)
      /\ j.nodes = i.nodes /\ j.unvisited = i.unvisited /\ j.claiming = {}
  BY <1>1 DEF JobType, SameMerge, SameStore
<1>5. Becomes(k, j)
  BY <1>2, <1>3, BecomesFacts
<1> HIDE DEF j
<1>6. /\ WillStore(j, list[k[1]], NextNode(k, job[k].unvisited))
      /\ SameMerge(j, job[k])
      /\ j.nodes = job[k].nodes /\ j.unvisited = job[k].unvisited /\ j.claiming = {}
  BY <1>1, <1>4 DEF WillStore, SameMerge, SameVisit, SameStore
<1> QED
  BY <1>2, <1>5, <1>6

LEMMA BuildSingleFacts ==
  ASSUME TypeOK, NEW k \in Task, BuildSingle(k)
  PROVE  /\ job[k].pc = "build" /\ hasRoot[k[1]] /\ retryTimes' \in [Task -> Nat]
         /\ \E j : /\ Becomes(k, j)
                   /\ \/ Fails(j, k)
                      \/ j.pc = "fatal" /\ Fresh(j) /\ drops' = [drops EXCEPT ![k] = @ + 1]
                      \/ /\ WillStore(j, list[k[1]], "write") /\ drops' = drops
                         /\ SameMerge(j, job[k]) /\ j.nodes = {}
                         /\ j.unvisited = job[k].unvisited /\ j.claiming = job[k].claiming
<1>0. job[k].pc = "build" /\ hasRoot[k[1]]
  BY DEF BuildSingle, At, pc
<1>1. UNCHANGED retryTimes => retryTimes' \in [Task -> Nat]
  BY TypeIs
<1>2. CASE Fail(k)
  BY <1>0, <1>2, FailFacts
<1>3. CASE Leave(k, "fatal") /\ drops' = [drops EXCEPT ![k] = @ + 1] /\ UNCHANGED retryTimes
  <2>1. "fatal" \in Ends
    BY DEF Ends
  <2> QED
    BY <1>0, <1>1, <1>3, <2>1, LeaveFacts
<1>4. CASE /\ job' = [job EXCEPT ![k] = [StoreThen(k, list[k[1]], "write") EXCEPT !.nodes = {}]]
           /\ UNCHANGED <<retryTimes, drops>>
  <2> DEFINE i == StoreThen(k, list[k[1]], "write")
             j == [i EXCEPT !.nodes = {}]
  <2>1. /\ i \in JobType /\ WillStore(i, list[k[1]], "write")
        /\ SameMerge(i, job[k]) /\ SameVisit(i, job[k])
    BY TracesList, StoreThenFacts DEF Steps
  <2>2. job' = [job EXCEPT ![k] = j]
    BY <1>4
  <2> HIDE DEF i
  <2>3. j \in JobType
    BY <2>1 DEF JobType
  <2>4. /\ j.pc = i.pc /\ SameStore(j, i) /\ SameMerge(j, i)
        /\ j.nodes = {} /\ j.unvisited = i.unvisited /\ j.claiming = i.claiming
    BY <2>1 DEF JobType, SameMerge, SameStore
  <2>5. Becomes(k, j)
    BY <2>2, <2>3, BecomesFacts
  <2> HIDE DEF j
  <2>6. /\ WillStore(j, list[k[1]], "write") /\ SameMerge(j, job[k]) /\ j.nodes = {}
        /\ j.unvisited = job[k].unvisited /\ j.claiming = job[k].claiming
    BY <2>1, <2>4 DEF WillStore, SameMerge, SameVisit, SameStore
  <2> QED
    BY <1>0, <1>1, <1>4, <2>5, <2>6
<1> QED
  BY <1>2, <1>3, <1>4 DEF BuildSingle

LEMMA BuildMultiFacts ==
  ASSUME TypeOK, NEW k \in Task, BuildMulti(k)
  PROVE  /\ job[k].pc = "build" /\ ~hasRoot[k[1]] /\ retryTimes' \in [Task -> Nat]
         /\ \E j : /\ Becomes(k, j)
                   /\ \/ Fails(j, k)
                      \/ j.pc = "entries" /\ Fresh(j) /\ drops' = drops
<1>0. job[k].pc = "build" /\ ~hasRoot[k[1]]
  BY DEF BuildMulti, At, pc
<1>1. UNCHANGED retryTimes => retryTimes' \in [Task -> Nat]
  BY TypeIs
<1>2. CASE Fail(k)
  BY <1>0, <1>2, FailFacts
<1>3. CASE Leave(k, "entries") /\ UNCHANGED <<retryTimes, drops>>
  <2> DEFINE j == [Idle EXCEPT !.pc = "entries"]
  <2>1. j \in JobType /\ Fresh(j) /\ j.pc = "entries"
    BY IdleFacts DEF JobType, Fresh, Steps
  <2>2. Becomes(k, j)
    BY <1>3, <2>1, BecomesFacts DEF Leave
  <2> QED
    BY <1>0, <1>1, <1>3, <2>1, <2>2
<1> QED
  BY <1>2, <1>3 DEF BuildMulti

LEMMA EntryFacts ==
  ASSUME TypeOK, NEW k \in Task, Entry(k)
  PROVE  /\ job[k].pc = "entries"
         /\ \E j : /\ Becomes(k, j) /\ SameMerge(j, job[k]) /\ SameVisit(j, job[k])
                   /\ \/ j.pc = "reported" /\ SameStore(j, job[k])
                      \/ WillStore(j, list[k[1]], "writeEntry")
<1>0. job[k].pc = "entries"
  BY DEF Entry, At, pc
<1>1. CASE Goto(k, "reported")
  BY <1>0, <1>1, GotoFacts DEF Ends
<1>2. CASE StoreTraces(k, list[k[1]], "writeEntry")
  BY <1>0, <1>2, TracesList, StoreTracesFacts DEF Steps
<1> QED
  BY <1>1, <1>2 DEF Entry

LEMMA WriteFacts ==
  ASSUME TypeOK, NEW k \in Task, Write(k)
  PROVE  /\ job[k].pc \in {"write", "writeEntry"}
         /\ \E j : /\ Becomes(k, j)
                   /\ j.pc = IF job[k].pc = "write" THEN "reported" ELSE "entries"
                   /\ SameMerge(j, job[k]) /\ SameVisit(j, job[k]) /\ SameStore(j, job[k])
<1>1. (IF pc(k) = "write" THEN "reported" ELSE "entries") \in Steps \cup Ends
  BY DEF Steps, Ends
<1> QED
  BY <1>1, GotoFacts DEF Write, pc

-----------------------------------------------------------------------------
(* Types, and which local variables belong together.                       *)

Typed == TypeOK /\ JobInv

LEMMA TypeNext ==
  /\ local' \in BOOLEAN /\ missTop' \in BOOLEAN
  /\ cached' \in [Traces -> Seq(Span)]
  /\ relation' \subseteq Node
  /\ list' \in [Traces -> Seq(Object)] /\ hasRoot' \in [Traces -> BOOLEAN]
  /\ sent' \subseteq Object /\ stored' \in [Object -> Nat]
  /\ job' \in [Task -> JobType]
  /\ retryTimes' \in [Task -> Nat]
  /\ consumed' \in [Traces -> SUBSET Span]
  /\ related' \in [Node -> Seq(Traces)]
  /\ reports' \in [Task -> Nat] /\ drops' \in [Task -> Nat]
  => TypeOK'
BY DEF TypeOK, JobType

LEMMA JobNext ==
  ASSUME JobInv, NEW k \in Task, NEW j, Becomes(k, j), WellFormed(j)
  PROVE  JobInv'
BY DEF JobInv, Becomes

LEMMA WillStoreFormed ==
  ASSUME NEW j, NEW objects, NEW next, WillStore(j, objects, next),
         next \in {"append", "relate", "build", "reported", "exhausted", "write", "writeEntry"},
         next # "append" => j.adding = {} /\ j.merging = <<>>,
         j.claiming = {}, next # "relate" => j.unvisited = {}
  PROVE  WellFormed(j) /\ Stage(j) = next
BY DEF WillStore, WellFormed, Stage, StoresNow

LEMMA FailsFormed ==
  ASSUME NEW k \in Task, NEW j, Fails(j, k), WellFormed(job[k]),
         job[k].pc \in {"relation", "build"}
  PROVE  /\ WellFormed(j)
         /\ \/ j.pc = "queued" /\ Stage(j) = "queued" /\ Fresh(j)
            \/ k[2] # "normal" /\ j.pc = "exhausted" /\ Stage(j) = "exhausted" /\ Fresh(j)
            \/ k[2] = "normal" /\ Stage(j) = "exhausted"
<1>1. CASE j.pc \in {"queued", "exhausted"} /\ Fresh(j)
  <2>1. ~StoresNow(j)
    BY <1>1 DEF StoresNow
  <2>2. WellFormed(j) /\ Stage(j) = j.pc
    BY <1>1, <2>1, FreshFacts
  <2>3. j.pc = "queued" \/ k[2] # "normal" \/ Stage(j) = "exhausted"
    BY <1>1, <2>2
  <2> QED
    BY <1>1, <2>2, <2>3
<1>2. CASE /\ k[2] = "normal"
           /\ WillStore(j, list[k[1]], "exhausted") /\ SameMerge(j, job[k]) /\ SameVisit(j, job[k])
  <2>1. Stage(job[k]) \in {"relation", "build"} /\ job[k].pc \notin {"claim", "record"}
    BY DEF Stage, StoresNow
  <2>2. j.adding = {} /\ j.merging = <<>> /\ j.claiming = {} /\ j.unvisited = {}
    BY <1>2, <2>1 DEF WellFormed, SameMerge, SameVisit
  <2> QED
    BY <1>2, <2>2, WillStoreFormed
<1> QED
  BY <1>1, <1>2 DEF Fails

LEMMA MergesFormed ==
  ASSUME NEW j, NEW i, NEW spans, Merges(j, i, spans), WellFormed(i), i.pc \in {"load", "add"},
         spans = <<>> => i.merging = <<>>
  PROVE  /\ WellFormed(j)
         /\ Stage(j) = IF spans = <<>> THEN "relation" ELSE "append"
         /\ spans = <<>> => j.pc = "relation"
<1>1. i.storing = <<>> /\ i.after = "absent" /\ i.claiming = {} /\ i.unvisited = {}
  BY DEF WellFormed, StoresNow, Stage
<1>2. j.claiming = {} /\ j.unvisited = {}
  BY <1>1 DEF Merges, SameVisit
<1>3. CASE spans = <<>>
  BY <1>1, <1>2, <1>3 DEF Merges, SameStore, WellFormed, StoresNow, Stage
<1>4. CASE spans # <<>>
  <2>1. PICK objects : WillStore(j, objects, "append")
    BY <1>4 DEF Merges
  <2> QED
    BY <1>2, <1>4, <2>1, WillStoreFormed
<1> QED
  BY <1>3, <1>4

\* Consume: the tasks that begin, and the others.
LEMMA ConsumeFacts ==
  ASSUME TypeOK, NEW t \in Traces, Consume(t)
  PROVE  /\ job' \in [Task -> JobType]
         /\ \A k \in Task : k[1] = t /\ k[2] \in Kinds(consumed'[t]) =>
                            job'[k].pc = "queued" /\ Fresh(job'[k])
         /\ \A k \in Task : ~(k[1] = t /\ k[2] \in Kinds(consumed'[t])) => job'[k] = job[k]
         /\ consumed' = [consumed EXCEPT ![t] = Range(cached[t])]
         /\ consumed'[t] = Range(cached[t]) /\ Range(cached[t]) \subseteq Span
         /\ consumed[t] = {} /\ Range(cached[t]) # {}
<1>1. Range(cached[t]) \subseteq Span
  BY TypeIs DEF Range
<1>2. /\ consumed' = [consumed EXCEPT ![t] = Range(cached[t])]
      /\ consumed[t] = {} /\ Range(cached[t]) # {}
      /\ job' = [k \in Task |-> IF k[1] = t /\ k[2] \in Kinds(Range(cached[t]))
                                 THEN [Idle EXCEPT !.pc = "queued"] ELSE job[k]]
  BY DEF Consume
<1>3. consumed'[t] = Range(cached[t])
  BY <1>2, TypeIs
<1>4. PICK j : j = [Idle EXCEPT !.pc = "queued"]
  OBVIOUS
<1>5. j \in JobType /\ j.pc = "queued" /\ Fresh(j)
  BY <1>4, IdleFacts DEF JobType, Fresh
<1> QED
  BY <1>1, <1>2, <1>3, <1>4, <1>5, TypeIs

LEMMA TypedInit == Init => Typed
<1> SUFFICES ASSUME Init PROVE Typed
  OBVIOUS
<1>1. \A k \in Task : job[k] = Idle
  BY DEF Init
<1>2. Idle \in JobType /\ WellFormed(Idle)
  BY IdleFacts, FreshFacts DEF StoresNow
<1>3. JobInv
  BY <1>1, <1>2 DEF JobInv
<1>4. local \in BOOLEAN /\ missTop \in BOOLEAN
  BY DEF Init
<1>5. TypeOK
  BY <1>2, <1>4, TypeIs DEF Init
<1> QED
  BY <1>3, <1>5 DEF Typed

LEMMA TypedStep == Typed /\ [Next]_vars => Typed'
<1> SUFFICES ASSUME Typed, [Next]_vars PROVE Typed'
  OBVIOUS
<1> USE DEF Typed, cacheVars, listVars, rowVars
<1>0. /\ local \in BOOLEAN /\ missTop \in BOOLEAN
      /\ cached \in [Traces -> Seq(Span)]
      /\ relation \subseteq Node
      /\ list \in [Traces -> Seq(Object)] /\ hasRoot \in [Traces -> BOOLEAN]
      /\ sent \subseteq Object /\ stored \in [Object -> Nat]
      /\ job \in [Task -> JobType]
      /\ retryTimes \in [Task -> Nat]
      /\ consumed \in [Traces -> SUBSET Span]
      /\ related \in [Node -> Seq(Traces)]
      /\ reports \in [Task -> Nat] /\ drops \in [Task -> Nat]
  BY TypeIs
<1>a. \A k \in Task : k[1] \in Traces /\ WellFormed(job[k])
  BY TaskIs DEF JobInv
<1>1. CASE UNCHANGED vars
  BY <1>1 DEF vars, TypeOK, JobInv
<1>2. ASSUME NEW s \in Span, Arrive(s) PROVE Typed'
  <2>1. cached' \in [Traces -> Seq(Span)]
    BY <1>0, <1>2 DEF Arrive
  <2>2. TypeOK'
    BY <1>0, <1>2, <2>1, TypeNext DEF Arrive
  <2> QED
    BY <1>2, <2>2 DEF Arrive, JobInv
<1>3. ASSUME NEW t \in Traces, Consume(t) PROVE Typed'
  <2>1. /\ job' \in [Task -> JobType] /\ consumed' \in [Traces -> SUBSET Span]
        /\ \A k \in Task : WellFormed(job'[k])
    <3>1. \A k \in Task : job'[k].pc = "queued" /\ Fresh(job'[k]) => WellFormed(job'[k])
      BY FreshFacts DEF StoresNow
    <3>2. job' \in [Task -> JobType]
      BY <1>3, ConsumeFacts
    <3>3. consumed' \in [Traces -> SUBSET Span]
      <4>1. consumed' = [consumed EXCEPT ![t] = Range(cached[t])] /\ Range(cached[t]) \subseteq Span
        BY <1>3, ConsumeFacts
      <4> QED
        BY <1>0, <4>1
    <3>4. \A k \in Task : (job'[k].pc = "queued" /\ Fresh(job'[k])) \/ job'[k] = job[k]
      BY <1>3, ConsumeFacts
    <3> QED
      BY <1>a, <3>1, <3>2, <3>3, <3>4
  <2>2. DOMAIN cached[t] = 1 .. Len(cached[t]) /\ \A i \in DOMAIN cached[t] : cached[t][i] \in Span
    BY <1>0
  <2>3. \A s \in Span : [span |-> s, by |-> "consume"] \in Object
    BY DEF Object
  <2>4. list' \in [Traces -> Seq(Object)]
    <3> DEFINE new == [i \in DOMAIN cached[t] |-> [span |-> cached[t][i], by |-> "consume"]]
    <3>1. new \in Seq(Object)
      <4>1. new \in [1 .. Len(cached[t]) -> Object] /\ Len(cached[t]) \in Nat
        BY <1>0, <2>2, <2>3
      <4> HIDE DEF new
      <4> QED
        BY <4>1
    <3>2. list' = [list EXCEPT ![t] = new]
      BY <1>3 DEF Consume
    <3> HIDE DEF new
    <3> QED
      BY <1>0, <3>1, <3>2
  <2>5. sent' \subseteq Object
    BY <1>0, <1>3, <2>3 DEF Consume
  <2>6. stored' \in [Object -> Nat]
    <3> DEFINE due == {[span |-> s, by |-> "consume"] : s \in Range(cached[t]) \cap ProfiledSpan}
    <3>1. stored' = [o \in Object |-> stored[o] + (IF o \in due THEN 1 ELSE 0)]
      BY <1>3 DEF Consume
    <3> HIDE DEF due
    <3> QED
      BY <1>0, <3>1
  <2>7. hasRoot' \in [Traces -> BOOLEAN]
    <3>1. hasRoot' = [hasRoot EXCEPT ![t] = Range(cached[t]) \cap TopSpan /= {}]
      BY <1>3 DEF Consume
    <3> QED
      BY <1>0, <3>1
  <2>8. UNCHANGED <<cacheVars, retryTimes, rowVars>>
    BY <1>3 DEF Consume
  <2>9. TypeOK'
    BY <1>0, <2>1, <2>4, <2>5, <2>6, <2>7, <2>8, TypeNext
  <2> QED
    BY <2>1, <2>9 DEF JobInv
<1>4. ASSUME NEW k \in Task, Begin(k) PROVE Typed'
  <2>1. PICK j : /\ Becomes(k, j) /\ j.pc \in {"relation", "load"}
                 /\ SameMerge(j, job[k]) /\ SameVisit(j, job[k]) /\ SameStore(j, job[k])
    BY <1>4, BeginFacts
  <2>2. WellFormed(j)
    <3>1. job[k].pc = "queued"
      BY <1>4, BeginFacts
    <3> QED
      BY <1>a, <2>1, <3>1 DEF WellFormed, Stage, StoresNow, SameMerge, SameVisit, SameStore
  <2>3. job' \in [Task -> JobType]
    BY <2>1 DEF Becomes
  <2>4. TypeOK'
    BY <1>0, <1>4, <2>3, TypeNext DEF Begin
  <2> QED
    BY <2>1, <2>2, <2>4, JobNext
<1>5. ASSUME NEW k \in Task, Load(k) PROVE Typed'
  <2>1. PICK j : Becomes(k, j) /\ Merges(j, job[k], NewSpans(k))
    BY <1>5, LoadFacts
  <2>2. WellFormed(j)
    <3>1. job[k].pc = "load" /\ Stage(job[k]) = "load"
      BY <1>5, LoadFacts DEF Stage, StoresNow
    <3>2. job[k].merging = <<>>
      BY <1>a, <3>1 DEF WellFormed
    <3> QED
      BY <1>a, <2>1, <3>1, <3>2, MergesFormed
  <2>3. job' \in [Task -> JobType]
    BY <2>1 DEF Becomes
  <2>4. TypeOK'
    BY <1>0, <1>5, <2>3, TypeNext DEF Load
  <2> QED
    BY <2>1, <2>2, <2>4, JobNext
<1>6. ASSUME NEW k \in Task, ReadList(k) PROVE Typed'
  <2>1. PICK j : /\ Becomes(k, j) /\ j.pc = "add" /\ j.seen = list[k[1]]
                 /\ j.merging = job[k].merging /\ j.adding = job[k].adding
                 /\ SameVisit(j, job[k]) /\ SameStore(j, job[k])
    BY <1>6, ReadListFacts
  <2>2. WellFormed(j)
    <3>1. job[k].pc = "append"
      BY <1>6, ReadListFacts
    <3> QED
      BY <1>a, <2>1, <3>1 DEF WellFormed, Stage, StoresNow, SameVisit, SameStore
  <2>3. job' \in [Task -> JobType]
    BY <2>1 DEF Becomes
  <2>4. TypeOK'
    BY <1>0, <1>6, <2>3, TypeNext DEF ReadList
  <2> QED
    BY <2>1, <2>2, <2>4, JobNext
<1>7. ASSUME NEW k \in Task, AddTrace(k) PROVE Typed'
  <2>1. PICK j : Becomes(k, j) /\ Merges(j, job[k], job[k].merging)
    BY <1>7, AddTraceFacts
  <2>2. WellFormed(j) /\ job[k].pc = "add"
    BY <1>7, <1>a, <2>1, AddTraceFacts, MergesFormed
  <2>3. job' \in [Task -> JobType]
    BY <2>1 DEF Becomes
  <2>4. job[k].seen \in Seq(Object) /\ job[k].adding \subseteq Object
    BY <1>0 DEF JobType
  <2>5. PICK new \in job[k].adding :
          /\ list' = [list EXCEPT ![k[1]] = Append(job[k].seen, new)]
          /\ hasRoot' = [hasRoot EXCEPT ![k[1]] = @ \/ new.span \in TopSpan]
    BY <1>7 DEF AddTrace
  <2>6. list' \in [Traces -> Seq(Object)] /\ hasRoot' \in [Traces -> BOOLEAN]
    <3>1. Append(job[k].seen, new) \in Seq(Object)
      BY <2>4
    <3> QED
      BY <1>0, <1>a, <2>5, <3>1
  <2>7. TypeOK'
    BY <1>0, <1>7, <2>3, <2>6, TypeNext DEF AddTrace
  <2> QED
    BY <2>1, <2>2, <2>7, JobNext
<1>8. ASSUME NEW k \in Task, CheckSent(k) PROVE Typed'
  <2>1. PICK j : /\ Becomes(k, j) /\ SameMerge(j, job[k]) /\ SameVisit(j, job[k])
                 /\ \/ j.pc = "mark" /\ SameStore(j, job[k])
                    \/ WillStore(j, Tail(job[k].storing), job[k].after)
    BY <1>8, CheckSentFacts
  <2>2. WellFormed(j)
    <3>1. job[k].pc = "store" /\ StoresNow(job[k])
      BY <1>8, CheckSentFacts
    <3>2. /\ Stage(job[k]) = job[k].after
          /\ job[k].after \in {"append", "relate", "build", "reported", "exhausted", "write", "writeEntry"}
      BY <3>1, StoringFacts
    <3>3. CASE j.pc = "mark" /\ SameStore(j, job[k])
      BY <1>a, <2>1, <3>1, <3>3 DEF WellFormed, Stage, StoresNow, SameMerge, SameVisit, SameStore
    <3>4. CASE WillStore(j, Tail(job[k].storing), job[k].after)
      <4>1. /\ job[k].after # "append" => j.adding = {} /\ j.merging = <<>>
            /\ j.claiming = {} /\ (job[k].after # "relate" => j.unvisited = {})
        BY <1>a, <2>1, <3>1, <3>2 DEF WellFormed, SameMerge, SameVisit
      <4> QED
        BY <3>2, <3>4, <4>1, WillStoreFormed
    <3> QED
      BY <2>1, <3>3, <3>4
  <2>3. job' \in [Task -> JobType]
    BY <2>1 DEF Becomes
  <2>4. TypeOK'
    BY <1>0, <1>8, <2>3, TypeNext DEF CheckSent
  <2> QED
    BY <2>1, <2>2, <2>4, JobNext
<1>8a. ASSUME NEW k \in Task, MarkSent(k) PROVE Typed'
  <2>1. PICK j : /\ Becomes(k, j) /\ j.pc = "save"
                 /\ SameMerge(j, job[k]) /\ SameVisit(j, job[k]) /\ SameStore(j, job[k])
    BY <1>8a, MarkSentFacts
  <2>2. job[k].pc = "mark" /\ StoresNow(job[k])
    BY <1>8a, MarkSentFacts
  <2>3. WellFormed(j)
    BY <1>a, <2>1, <2>2 DEF WellFormed, Stage, StoresNow, SameMerge, SameVisit, SameStore
  <2>4. job' \in [Task -> JobType]
    BY <2>1 DEF Becomes
  <2>5. sent' \subseteq Object
    <3>1. Head(job[k].storing) \in Object
      BY <2>2, StoringFacts
    <3> QED
      BY <1>0, <1>8a, <3>1 DEF MarkSent
  <2>6. TypeOK'
    BY <1>0, <1>8a, <2>4, <2>5, TypeNext DEF MarkSent
  <2> QED
    BY <2>1, <2>3, <2>6, JobNext
<1>9. ASSUME NEW k \in Task, Save(k) PROVE Typed'
  <2>1. PICK j : /\ Becomes(k, j) /\ SameMerge(j, job[k]) /\ SameVisit(j, job[k])
                 /\ WillStore(j, Tail(job[k].storing), job[k].after)
    BY <1>9, SaveFacts
  <2>2. job[k].pc = "save" /\ StoresNow(job[k])
    BY <1>9, SaveFacts
  <2>3. WellFormed(j)
    <3>2. /\ Stage(job[k]) = job[k].after
          /\ job[k].after \in {"append", "relate", "build", "reported", "exhausted", "write", "writeEntry"}
      BY <2>2, StoringFacts
    <3>3. /\ job[k].after # "append" => j.adding = {} /\ j.merging = <<>>
          /\ j.claiming = {} /\ (job[k].after # "relate" => j.unvisited = {})
      BY <1>a, <2>1, <2>2, <3>2 DEF WellFormed, SameMerge, SameVisit
    <3> QED
      BY <2>1, <3>2, <3>3, WillStoreFormed
  <2>4. job' \in [Task -> JobType]
    BY <2>1 DEF Becomes
  <2>5. stored' \in [Object -> Nat]
    <3>1. Head(job[k].storing) \in Object
      BY <2>2, StoringFacts
    <3> QED
      BY <1>0, <1>9, <3>1 DEF Save
  <2>6. TypeOK'
    BY <1>0, <1>9, <2>4, <2>5, TypeNext DEF Save
  <2> QED
    BY <2>1, <2>3, <2>6, JobNext
<1>10. ASSUME NEW k \in Task, StartRelations(k) PROVE Typed'
  <2>0. /\ job[k].pc = "relation" /\ Stage(job[k]) = "relation" /\ ~StoresNow(job[k])
        /\ retryTimes' \in [Task -> Nat]
    BY <1>10, StartRelationsFacts DEF Stage, StoresNow
  <2>1. PICK j : /\ Becomes(k, j)
                 /\ \/ Fails(j, k)
                    \/ /\ WillStore(j, list[k[1]], NextNode(k, {}))
                       /\ SameMerge(j, job[k]) /\ SameVisit(j, job[k]) /\ drops' = drops
                    \/ \E answer \in Answers :
                         /\ j.pc = NextNode(k, answer) /\ drops' = drops
                         /\ j.nodes = answer /\ j.unvisited = answer
                         /\ j.claiming = job[k].claiming
                         /\ SameMerge(j, job[k]) /\ SameStore(j, job[k])
    BY <1>10, StartRelationsFacts
  <2>2. /\ job[k].adding = {} /\ job[k].merging = <<>> /\ job[k].claiming = {}
        /\ job[k].unvisited = {} /\ job[k].storing = <<>> /\ job[k].after = "absent"
    BY <1>a, <2>0 DEF WellFormed
  <2>3. WellFormed(j)
    <3>1. CASE Fails(j, k)
      BY <1>a, <2>0, <3>1, FailsFormed
    <3>2. CASE /\ WillStore(j, list[k[1]], NextNode(k, {}))
               /\ SameMerge(j, job[k]) /\ SameVisit(j, job[k])
      <4>1. j.adding = {} /\ j.merging = <<>> /\ j.claiming = {} /\ j.unvisited = {}
        BY <2>2, <3>2 DEF SameMerge, SameVisit
      <4>2. NextNode(k, {}) \in {"reported", "build"}
        BY NextNodeIs
      <4> QED
        BY <3>2, <4>1, <4>2, WillStoreFormed
    <3>3. ASSUME NEW answer \in Answers,
                 /\ j.pc = NextNode(k, answer)
                 /\ j.nodes = answer /\ j.unvisited = answer
                 /\ j.claiming = job[k].claiming
                 /\ SameMerge(j, job[k]) /\ SameStore(j, job[k])
          PROVE  WellFormed(j)
      <4>1. /\ j.adding = {} /\ j.merging = <<>> /\ j.claiming = {}
            /\ j.storing = <<>> /\ j.after = "absent"
        BY <2>2, <3>3 DEF SameMerge, SameStore
      <4>2. /\ j.pc \in {"relate", "reported", "build"}
            /\ j.pc # "relate" => j.unvisited = {}
        BY <3>3, NextNodeIs
      <4> QED
        BY <4>1, <4>2 DEF WellFormed, Stage, StoresNow
    <3> QED
      BY <2>1, <3>1, <3>2, <3>3
  <2>4. drops' \in [Task -> Nat]
    <3>1. drops' = drops \/ drops' = [drops EXCEPT ![k] = @ + 1]
      BY <2>1 DEF Fails
    <3> QED
      BY <1>0, <3>1, CountsUp
  <2>5. job' \in [Task -> JobType]
    BY <2>1 DEF Becomes
  <2>6. TypeOK'
    BY <1>0, <1>10, <2>0, <2>4, <2>5, TypeNext DEF StartRelations
  <2> QED
    BY <2>1, <2>3, <2>6, JobNext
<1>11. ASSUME NEW k \in Task, NEW n \in Node, LookUpNode(k, n) PROVE Typed'
  <2>1. PICK j : /\ Becomes(k, j) /\ SameMerge(j, job[k]) /\ SameStore(j, job[k])
                 /\ j.nodes = job[k].nodes /\ j.unvisited = job[k].unvisited \ {n}
                 /\ \/ j.pc = NextNode(k, j.unvisited) /\ j.claiming = job[k].claiming
                    \/ j.pc = "claim" /\ j.claiming = {n}
    BY <1>11, LookUpNodeFacts
  <2>2. job[k].pc = "relate"
    BY <1>11, LookUpNodeFacts
  <2>3. WellFormed(j)
    <3>1. /\ job[k].adding = {} /\ job[k].merging = <<>> /\ job[k].claiming = {}
          /\ job[k].storing = <<>> /\ job[k].after = "absent"
      BY <1>a, <2>2 DEF WellFormed, Stage, StoresNow
    <3>2. \/ j.pc = "claim"
          \/ /\ j.pc \in {"relate", "reported", "build"} /\ j.claiming = {}
             /\ j.pc # "relate" => j.unvisited = {}
      BY <2>1, <3>1, NextNodeIs
    <3> QED
      BY <2>1, <3>1, <3>2 DEF WellFormed, Stage, StoresNow, SameMerge, SameStore
  <2>4. job' \in [Task -> JobType]
    BY <2>1 DEF Becomes
  <2>5. TypeOK'
    BY <1>0, <1>11, <2>4, TypeNext DEF LookUpNode
  <2> QED
    BY <2>1, <2>3, <2>5, JobNext
<1>11a. ASSUME NEW k \in Task, Claim(k) PROVE Typed'
  <2>1. PICK j : /\ Becomes(k, j) /\ j.pc = "record"
                 /\ SameMerge(j, job[k]) /\ SameVisit(j, job[k]) /\ SameStore(j, job[k])
    BY <1>11a, ClaimFacts
  <2>2. job[k].pc = "claim"
    BY <1>11a, ClaimFacts
  <2>3. WellFormed(j)
    BY <1>a, <2>1, <2>2 DEF WellFormed, Stage, StoresNow, SameMerge, SameVisit, SameStore
  <2>4. job' \in [Task -> JobType]
    BY <2>1 DEF Becomes
  <2>5. relation' \subseteq Node
    BY <1>0, <1>11a DEF Claim, JobType
  <2>6. TypeOK'
    BY <1>0, <1>11a, <2>4, <2>5, TypeNext DEF Claim
  <2> QED
    BY <2>1, <2>3, <2>6, JobNext
<1>12. ASSUME NEW k \in Task, StoreRelation(k) PROVE Typed'
  <2>1. PICK j : /\ Becomes(k, j) /\ WillStore(j, list[k[1]], NextNode(k, job[k].unvisited))
                 /\ SameMerge(j, job[k])
                 /\ j.nodes = job[k].nodes /\ j.unvisited = job[k].unvisited /\ j.claiming = {}
    BY <1>12, StoreRelationFacts
  <2>2. job[k].pc = "record"
    BY <1>12, StoreRelationFacts
  <2>3. WellFormed(j)
    <3>1. job[k].adding = {} /\ job[k].merging = <<>>
      BY <1>a, <2>2 DEF WellFormed, Stage, StoresNow
    <3>2. j.adding = {} /\ j.merging = <<>>
      BY <2>1, <3>1 DEF SameMerge
    <3>3. /\ NextNode(k, job[k].unvisited) \in {"relate", "reported", "build"}
          /\ NextNode(k, job[k].unvisited) # "relate" => j.unvisited = {}
      BY <2>1, NextNodeIs
    <3> QED
      BY <2>1, <3>2, <3>3, WillStoreFormed
  <2>4. job' \in [Task -> JobType]
    BY <2>1 DEF Becomes
  <2>6. related' \in [Node -> Seq(Traces)]
    BY <1>0, <1>a, <1>12 DEF StoreRelation
  <2>7. TypeOK'
    BY <1>0, <1>12, <2>4, <2>6, TypeNext DEF StoreRelation
  <2> QED
    BY <2>1, <2>3, <2>7, JobNext
<1>13. ASSUME NEW k \in Task, BuildSingle(k) PROVE Typed'
  <2>0. job[k].pc = "build" /\ Stage(job[k]) = "build" /\ retryTimes' \in [Task -> Nat]
    BY <1>13, BuildSingleFacts DEF Stage, StoresNow
  <2>1. PICK j : /\ Becomes(k, j)
                 /\ \/ Fails(j, k)
                    \/ j.pc = "fatal" /\ Fresh(j) /\ drops' = [drops EXCEPT ![k] = @ + 1]
                    \/ /\ WillStore(j, list[k[1]], "write") /\ drops' = drops
                       /\ SameMerge(j, job[k]) /\ j.nodes = {}
                       /\ j.unvisited = job[k].unvisited /\ j.claiming = job[k].claiming
    BY <1>13, BuildSingleFacts
  <2>2. WellFormed(j)
    <3>1. CASE Fails(j, k)
      BY <1>a, <2>0, <3>1, FailsFormed
    <3>2. CASE j.pc = "fatal" /\ Fresh(j)
      BY <3>2, FreshFacts DEF StoresNow
    <3>3. CASE /\ WillStore(j, list[k[1]], "write") /\ SameMerge(j, job[k])
               /\ j.unvisited = job[k].unvisited /\ j.claiming = job[k].claiming
      <4>1. j.adding = {} /\ j.merging = <<>> /\ j.claiming = {} /\ j.unvisited = {}
        BY <1>a, <2>0, <3>3 DEF WellFormed, SameMerge
      <4> QED
        BY <3>3, <4>1, WillStoreFormed
    <3> QED
      BY <2>1, <3>1, <3>2, <3>3
  <2>3. job' \in [Task -> JobType]
    BY <2>1 DEF Becomes
  <2>4. drops' \in [Task -> Nat]
    <3>1. drops' = drops \/ drops' = [drops EXCEPT ![k] = @ + 1]
      BY <2>1 DEF Fails
    <3> QED
      BY <1>0, <3>1, CountsUp
  <2>5. TypeOK'
    BY <1>0, <1>13, <2>0, <2>3, <2>4, TypeNext DEF BuildSingle
  <2> QED
    BY <2>1, <2>2, <2>5, JobNext
<1>14. ASSUME NEW k \in Task, BuildMulti(k) PROVE Typed'
  <2>0. job[k].pc = "build" /\ retryTimes' \in [Task -> Nat]
    BY <1>14, BuildMultiFacts
  <2>1. PICK j : /\ Becomes(k, j)
                 /\ \/ Fails(j, k)
                    \/ j.pc = "entries" /\ Fresh(j) /\ drops' = drops
    BY <1>14, BuildMultiFacts
  <2>2. WellFormed(j)
    <3>1. CASE Fails(j, k)
      BY <1>a, <2>0, <3>1, FailsFormed
    <3>2. CASE j.pc = "entries" /\ Fresh(j)
      BY <3>2, FreshFacts DEF StoresNow
    <3> QED
      BY <2>1, <3>1, <3>2
  <2>3. job' \in [Task -> JobType]
    BY <2>1 DEF Becomes
  <2>4. drops' \in [Task -> Nat]
    <3>1. drops' = drops \/ drops' = [drops EXCEPT ![k] = @ + 1]
      BY <2>1 DEF Fails
    <3> QED
      BY <1>0, <3>1, CountsUp
  <2>5. TypeOK'
    BY <1>0, <1>14, <2>0, <2>3, <2>4, TypeNext DEF BuildMulti
  <2> QED
    BY <2>1, <2>2, <2>5, JobNext
<1>15. ASSUME NEW k \in Task, Entry(k) PROVE Typed'
  <2>1. PICK j : /\ Becomes(k, j) /\ SameMerge(j, job[k]) /\ SameVisit(j, job[k])
                 /\ \/ j.pc = "reported" /\ SameStore(j, job[k])
                    \/ WillStore(j, list[k[1]], "writeEntry")
    BY <1>15, EntryFacts
  <2>2. job[k].pc = "entries"
    BY <1>15, EntryFacts
  <2>3. /\ job[k].adding = {} /\ job[k].merging = <<>> /\ job[k].claiming = {}
        /\ job[k].unvisited = {} /\ job[k].storing = <<>> /\ job[k].after = "absent"
    BY <1>a, <2>2 DEF WellFormed, Stage, StoresNow
  <2>4. j.adding = {} /\ j.merging = <<>> /\ j.claiming = {} /\ j.unvisited = {}
    BY <2>1, <2>3 DEF SameMerge, SameVisit
  <2>5. WellFormed(j)
    <3>1. CASE j.pc = "reported" /\ SameStore(j, job[k])
      BY <2>3, <2>4, <3>1 DEF SameStore, WellFormed, Stage, StoresNow
    <3> QED
      BY <2>1, <2>4, <3>1, WillStoreFormed
  <2>6. job' \in [Task -> JobType]
    BY <2>1 DEF Becomes
  <2>7. TypeOK'
    BY <1>0, <1>15, <2>6, TypeNext DEF Entry
  <2> QED
    BY <2>1, <2>5, <2>7, JobNext
<1>16. ASSUME NEW k \in Task, Write(k) PROVE Typed'
  <2>1. PICK j : /\ Becomes(k, j)
                 /\ j.pc = IF job[k].pc = "write" THEN "reported" ELSE "entries"
                 /\ SameMerge(j, job[k]) /\ SameVisit(j, job[k]) /\ SameStore(j, job[k])
    BY <1>16, WriteFacts
  <2>2. job[k].pc \in {"write", "writeEntry"} /\ j.pc \in {"reported", "entries"}
    BY <1>16, <2>1, WriteFacts
  <2>3. WellFormed(j)
    BY <1>a, <2>1, <2>2 DEF WellFormed, Stage, StoresNow, SameMerge, SameVisit, SameStore
  <2>4. job' \in [Task -> JobType]
    BY <2>1 DEF Becomes
  <2>5. reports' \in [Task -> Nat]
    BY <1>0, <1>16 DEF Write
  <2>6. TypeOK'
    BY <1>0, <1>16, <2>4, <2>5, TypeNext DEF Write
  <2> QED
    BY <2>1, <2>3, <2>6, JobNext
<1> QED
  BY <1>1, <1>2, <1>3, <1>4, <1>5, <1>6, <1>7, <1>8, <1>8a, <1>9, <1>10, <1>11,
     <1>11a, <1>12, <1>13, <1>14, <1>15, <1>16 DEF Next, ProcessTask

\* Every variable has its type, whatever the backend answers and whichever task runs.
THEOREM TypeCorrect == Spec => []TypeOK
<1>1. Spec => []Typed
  BY TypedInit, TypedStep, PTL DEF Spec
<1>2. Typed => TypeOK
  BY DEF Typed
<1> QED
  BY <1>1, <1>2, PTL

-----------------------------------------------------------------------------
(* OneVerdict: how a task ends.                                            *)

Rooted(t) == consumed[t] \cap TopSpan # {}

\* The drop reports d and reports n of task k, depending on how far it is.
VerdictOf(k, stage, d, n) ==
  /\ d = IF k[2] # "normal" /\ stage \in {"exhausted", "fatal"} THEN 1 ELSE 0
  /\ n # 0 => stage \in {"reported", "entries", "writeEntry"}
  /\ stage = "reported" /\ k[2] # "normal" /\ Rooted(k[1]) => n = 1
  /\ k[2] = "normal" => stage \notin {"build", "entries", "write", "writeEntry", "fatal"}
  /\ Rooted(k[1]) => stage \notin {"entries", "writeEntry"}
  /\ consumed[k[1]] = {} => stage = "absent"

VerdictInv ==
  /\ \A t \in Traces : Rooted(t) => hasRoot[t]
  /\ \A k \in Task : VerdictOf(k, Stage(job[k]), drops[k], reports[k])

LEMMA VerdictNext ==
  ASSUME VerdictInv, NEW k \in Task, NEW j, Becomes(k, j), UNCHANGED consumed,
         \A t \in Traces : hasRoot[t] => hasRoot'[t],
         \A q \in Task : q # k => drops'[q] = drops[q] /\ reports'[q] = reports[q],
         VerdictOf(k, Stage(j), drops'[k], reports'[k])
  PROVE  VerdictInv'
<1>1. \A q \in Task : \A stage, d, n : VerdictOf(q, stage, d, n)' <=> VerdictOf(q, stage, d, n)
  BY DEF VerdictOf, Rooted
<1>2. ASSUME NEW q \in Task PROVE VerdictOf(q, Stage(job'[q]), drops'[q], reports'[q])
  <2>1. CASE q = k
    BY <2>1 DEF Becomes
  <2>2. CASE q # k
    BY <2>2 DEF Becomes, VerdictInv
  <2> QED
    BY <2>1, <2>2
<1>3. \A q \in Task : Stage(job[q])' = Stage(job'[q])
  BY DEF Stage, StoresNow
<1> QED
  BY <1>1, <1>2, <1>3 DEF VerdictInv, Rooted

\* A step that leaves no report, on the way.
LEMMA Onward ==
  ASSUME VerdictInv, NEW k \in Task, NEW j, Becomes(k, j),
         UNCHANGED <<consumed, hasRoot, drops, reports>>,
         Stage(job[k]) \notin {"absent", "exhausted", "fatal", "reported", "entries", "writeEntry"},
         \/ Stage(j) \in {"relation", "load", "append", "add", "relate", "claim", "record"}
         \/ k[2] = "normal" /\ Stage(j) \in {"reported", "exhausted"}
         \/ k[2] # "normal" /\ Stage(j) \in {"build", "write"}
         \/ Stage(j) = "queued"
  PROVE  VerdictInv'
<1>1. VerdictOf(k, Stage(job[k]), drops[k], reports[k])
  BY DEF VerdictInv
<1>2. VerdictOf(k, Stage(j), drops[k], reports[k])
  BY <1>1 DEF VerdictOf
<1> QED
  BY <1>2, VerdictNext

\* A step that is no progress.
LEMMA SamePlace ==
  ASSUME VerdictInv, NEW k \in Task, NEW j, Becomes(k, j), Stage(j) = Stage(job[k]),
         UNCHANGED <<consumed, hasRoot, drops, reports>>
  PROVE  VerdictInv'
<1>1. VerdictOf(k, Stage(j), drops[k], reports[k])
  BY DEF VerdictInv
<1> QED
  BY <1>1, VerdictNext

\* A drop report.
LEMMA Dropped ==
  ASSUME VerdictInv, Typed, NEW k \in Task, NEW j, Becomes(k, j), k[2] # "normal",
         UNCHANGED <<consumed, hasRoot, reports>>, drops' = [drops EXCEPT ![k] = @ + 1],
         Stage(job[k]) \in {"relation", "build"}, Stage(j) \in {"exhausted", "fatal"}
  PROVE  VerdictInv'
<1>0. drops \in [Task -> Nat]
  BY TypeIs DEF Typed
<1>1. VerdictOf(k, Stage(job[k]), drops[k], reports[k])
  BY DEF VerdictInv
<1>2. drops[k] = 0 /\ reports[k] = 0
  BY <1>1 DEF VerdictOf
<1>3. drops'[k] = 1 /\ \A q \in Task : q # k => drops'[q] = drops[q]
  BY <1>0, <1>2
<1>4. VerdictOf(k, Stage(j), drops'[k], reports'[k])
  BY <1>1, <1>2, <1>3 DEF VerdictOf
<1> QED
  BY <1>3, <1>4, VerdictNext

LEMMA FailsVerdict ==
  ASSUME VerdictInv, Typed, NEW k \in Task, NEW j, Becomes(k, j), Fails(j, k),
         job[k].pc \in {"relation", "build"}, UNCHANGED <<consumed, hasRoot, reports>>
  PROVE  VerdictInv'
<1>1. Stage(job[k]) \in {"relation", "build"}
  BY DEF Stage, StoresNow
<1>2. CASE j.pc = "queued" /\ drops' = drops
  <2>1. Stage(j) = "queued"
    BY <1>2 DEF Stage, StoresNow
  <2> QED
    BY <1>1, <1>2, <2>1, Onward
<1>3. CASE k[2] # "normal" /\ j.pc = "exhausted" /\ drops' = [drops EXCEPT ![k] = @ + 1]
  <2>1. Stage(j) = "exhausted"
    BY <1>3 DEF Stage, StoresNow
  <2> QED
    BY <1>1, <1>3, <2>1, Dropped
<1>4. CASE k[2] = "normal" /\ WillStore(j, list[k[1]], "exhausted") /\ drops' = drops
  <2>1. Stage(j) = "exhausted"
    BY <1>4, WillStoreFacts
  <2> QED
    BY <1>1, <1>4, <2>1, Onward
<1> QED
  BY <1>2, <1>3, <1>4 DEF Fails

LEMMA VerdictInit == Init => VerdictInv
<1> SUFFICES ASSUME Init PROVE VerdictInv
  OBVIOUS
<1>1. \A k \in Task : Stage(job[k]) = "absent"
  BY IdleFacts DEF Init, Stage, StoresNow
<1>2. \A t \in Traces : consumed[t] = {}
  BY DEF Init
<1>3. \A k \in Task : drops[k] = 0 /\ reports[k] = 0
  BY DEF Init
<1> QED
  BY <1>1, <1>2, <1>3 DEF VerdictInv, VerdictOf, Rooted

LEMMA VerdictStep == Typed /\ Typed' /\ VerdictInv /\ [Next]_vars => VerdictInv'
<1> SUFFICES ASSUME Typed, Typed', VerdictInv, [Next]_vars PROVE VerdictInv'
  OBVIOUS
<1> USE DEF cacheVars, listVars, rowVars
<1>a. \A k \in Task : ~StoresNow(job[k]) => Stage(job[k]) = job[k].pc
  BY DEF Stage
<1>b. \A j : ~StoresNow(j) => Stage(j) = j.pc
  BY DEF Stage
<1>c. \A k \in Task : WellFormed(job[k])
  BY DEF Typed, JobInv
<1>1. CASE UNCHANGED vars
  BY <1>1 DEF vars, VerdictInv, VerdictOf, Rooted, Stage, StoresNow
<1>2. ASSUME NEW s \in Span, Arrive(s) PROVE VerdictInv'
  BY <1>2 DEF Arrive, VerdictInv, VerdictOf, Rooted, Stage, StoresNow
<1>3. ASSUME NEW t \in Traces, Consume(t) PROVE VerdictInv'
  <2>1. \A k \in Task : k[1] # t => job'[k] = job[k]
    BY <1>3, ConsumeFacts DEF Typed
  <2>2. /\ consumed[t] = {} /\ consumed'[t] = Range(cached[t]) /\ consumed'[t] # {}
        /\ consumed' = [consumed EXCEPT ![t] = Range(cached[t])]
    BY <1>3, ConsumeFacts DEF Typed
  <2>3. hasRoot' = [hasRoot EXCEPT ![t] = Range(cached[t]) \cap TopSpan /= {}]
        /\ UNCHANGED <<drops, reports>>
    BY <1>3 DEF Consume
  <2>4. \A u \in Traces : Rooted(u)' => hasRoot'[u]
    BY <2>2, <2>3, TypeIs DEF Typed, VerdictInv, Rooted
  <2>5. ASSUME NEW k \in Task PROVE VerdictOf(k, Stage(job[k]), drops[k], reports[k])'
    <3>0. VerdictOf(k, Stage(job[k]), drops[k], reports[k]) /\ k[1] \in Traces
      BY TaskIs DEF VerdictInv
    <3>1. CASE k[1] # t
      <4>1. consumed'[k[1]] = consumed[k[1]]
        BY <2>2, <3>0, <3>1, TypeIs DEF Typed
      <4>2. job'[k] = job[k]
        BY <2>1, <3>1
      <4> QED
        BY <2>3, <3>0, <4>1, <4>2 DEF VerdictOf, Rooted, Stage, StoresNow
    <3>2. CASE k[1] = t
      <4>1. Stage(job[k]) = "absent" /\ drops[k] = 0 /\ reports[k] = 0
        BY <2>2, <3>0, <3>2 DEF VerdictOf
      <4>2. job'[k].pc = "queued" \/ job'[k] = job[k]
        BY <1>3, ConsumeFacts DEF Typed
      <4>3. Stage(job[k])' \in {"queued", "absent"}
        BY <4>1, <4>2 DEF Stage, StoresNow
      <4> QED
        BY <2>2, <2>3, <3>2, <4>1, <4>3 DEF VerdictOf
    <3> QED
      BY <3>1, <3>2
  <2> QED
    BY <2>4, <2>5 DEF VerdictInv
<1>4. ASSUME NEW k \in Task, Begin(k) PROVE VerdictInv'
  <2>1. PICK j : Becomes(k, j) /\ j.pc \in {"relation", "load"}
    BY <1>4, BeginFacts DEF Typed
  <2>2. job[k].pc = "queued"
    BY <1>4, BeginFacts DEF Typed
  <2>3. Stage(job[k]) = "queued" /\ Stage(j) \in {"relation", "load"}
    BY <2>1, <2>2 DEF Stage, StoresNow
  <2> QED
    BY <1>4, <2>1, <2>3, Onward DEF Begin
<1>5. ASSUME NEW k \in Task, Load(k) PROVE VerdictInv'
  <2>1. PICK j : Becomes(k, j) /\ Merges(j, job[k], NewSpans(k))
    BY <1>5, LoadFacts DEF Typed
  <2>2. job[k].pc = "load" /\ Stage(job[k]) = "load"
    BY <1>5, LoadFacts DEF Stage, StoresNow, Typed
  <2>3. Stage(j) \in {"relation", "append"}
    <3>1. job[k].merging = <<>>
      BY <1>c, <2>2 DEF WellFormed
    <3> QED
      BY <1>c, <2>1, <2>2, <3>1, MergesFormed
  <2> QED
    BY <1>5, <2>1, <2>2, <2>3, Onward DEF Load
<1>6. ASSUME NEW k \in Task, ReadList(k) PROVE VerdictInv'
  <2>1. PICK j : Becomes(k, j) /\ j.pc = "add"
    BY <1>6, ReadListFacts DEF Typed
  <2>2. Stage(job[k]) = "append" /\ Stage(j) = "add"
    BY <1>6, <2>1, ReadListFacts DEF Stage, StoresNow, Typed
  <2> QED
    BY <1>6, <2>1, <2>2, Onward DEF ReadList
<1>7. ASSUME NEW k \in Task, AddTrace(k) PROVE VerdictInv'
  <2>1. PICK j : Becomes(k, j) /\ Merges(j, job[k], job[k].merging)
    BY <1>7, AddTraceFacts DEF Typed
  <2>2. job[k].pc = "add" /\ Stage(job[k]) = "add"
    BY <1>7, AddTraceFacts DEF Stage, StoresNow, Typed
  <2>3. Stage(j) \in {"relation", "append"}
    BY <1>c, <2>1, <2>2, MergesFormed
  <2>4. VerdictOf(k, Stage(j), drops[k], reports[k])
    <3>1. VerdictOf(k, Stage(job[k]), drops[k], reports[k])
      BY DEF VerdictInv
    <3> QED
      BY <2>2, <2>3, <3>1 DEF VerdictOf
  <2>5. /\ \A t \in Traces : hasRoot[t] => hasRoot'[t]
        /\ UNCHANGED <<consumed, drops, reports>>
    <3>1. PICK new : hasRoot' = [hasRoot EXCEPT ![k[1]] = @ \/ new.span \in TopSpan]
      BY <1>7 DEF AddTrace
    <3>2. hasRoot \in [Traces -> BOOLEAN]
      BY TypeIs DEF Typed
    <3>3. UNCHANGED <<consumed, drops, reports>>
      BY <1>7 DEF AddTrace
    <3> QED
      BY <3>1, <3>2, <3>3
  <2> QED
    BY <2>1, <2>4, <2>5, VerdictNext
<1>8. ASSUME NEW k \in Task, CheckSent(k) PROVE VerdictInv'
  <2>1. PICK j : /\ Becomes(k, j)
                 /\ \/ j.pc = "mark" /\ SameStore(j, job[k])
                    \/ WillStore(j, Tail(job[k].storing), job[k].after)
    BY <1>8, CheckSentFacts DEF Typed
  <2>2. StoresNow(job[k]) /\ Stage(job[k]) = job[k].after /\ job[k].after \notin {"store", "mark", "save"}
    BY <1>8, CheckSentFacts, StoringFacts DEF Typed
  <2>3. Stage(j) = Stage(job[k])
    <3>1. CASE j.pc = "mark" /\ SameStore(j, job[k])
      BY <2>2, <3>1 DEF Stage, StoresNow, SameStore
    <3>2. CASE WillStore(j, Tail(job[k].storing), job[k].after)
      BY <2>2, <3>2, WillStoreFacts
    <3> QED
      BY <2>1, <3>1, <3>2
  <2> QED
    BY <1>8, <2>1, <2>3, SamePlace DEF CheckSent
<1>8a. ASSUME NEW k \in Task, MarkSent(k) PROVE VerdictInv'
  <2>1. PICK j : Becomes(k, j) /\ j.pc = "save" /\ SameStore(j, job[k])
    BY <1>8a, MarkSentFacts DEF Typed
  <2>2. job[k].pc = "mark"
    BY <1>8a, MarkSentFacts DEF Typed
  <2>3. Stage(j) = Stage(job[k])
    BY <2>1, <2>2 DEF Stage, StoresNow, SameStore
  <2> QED
    BY <1>8a, <2>1, <2>3, SamePlace DEF MarkSent
<1>9. ASSUME NEW k \in Task, Save(k) PROVE VerdictInv'
  <2>1. PICK j : Becomes(k, j) /\ WillStore(j, Tail(job[k].storing), job[k].after)
    BY <1>9, SaveFacts DEF Typed
  <2>2. StoresNow(job[k]) /\ Stage(job[k]) = job[k].after /\ job[k].after \notin {"store", "mark", "save"}
    BY <1>9, SaveFacts, StoringFacts DEF Typed
  <2>3. Stage(j) = Stage(job[k])
    BY <2>1, <2>2, WillStoreFacts
  <2> QED
    BY <1>9, <2>1, <2>3, SamePlace DEF Save
<1>10. ASSUME NEW k \in Task, StartRelations(k) PROVE VerdictInv'
  <2>0. /\ job[k].pc = "relation" /\ Stage(job[k]) = "relation"
        /\ UNCHANGED <<consumed, hasRoot, reports>>
    BY <1>10, StartRelationsFacts DEF Stage, StoresNow, StartRelations, Typed
  <2>1. PICK j : /\ Becomes(k, j)
                 /\ \/ Fails(j, k)
                    \/ WillStore(j, list[k[1]], NextNode(k, {})) /\ drops' = drops
                    \/ \E answer \in Answers : j.pc = NextNode(k, answer) /\ drops' = drops
    BY <1>10, StartRelationsFacts DEF Typed
  <2>2. CASE Fails(j, k)
    BY <2>0, <2>1, <2>2, FailsVerdict
  <2>3. CASE WillStore(j, list[k[1]], NextNode(k, {})) /\ drops' = drops
    <3>1. NextNode(k, {}) = IF k[2] = "normal" THEN "reported" ELSE "build"
      BY NextNodeIs
    <3>2. Stage(j) = NextNode(k, {})
      BY <2>3, <3>1, WillStoreFacts
    <3> QED
      BY <2>0, <2>1, <2>3, <3>1, <3>2, Onward
  <2>4. ASSUME NEW answer \in Answers, j.pc = NextNode(k, answer), drops' = drops PROVE VerdictInv'
    <3>1. \/ NextNode(k, answer) = "relate"
          \/ NextNode(k, answer) = IF k[2] = "normal" THEN "reported" ELSE "build"
      BY NextNodeIs
    <3>2. Stage(j) = NextNode(k, answer)
      BY <2>4, <3>1 DEF Stage, StoresNow
    <3> QED
      BY <2>0, <2>1, <2>4, <3>1, <3>2, Onward
  <2> QED
    BY <2>1, <2>2, <2>3, <2>4
<1>11. ASSUME NEW k \in Task, NEW n \in Node, LookUpNode(k, n) PROVE VerdictInv'
  <2>1. PICK j : Becomes(k, j) /\ (j.pc = NextNode(k, j.unvisited) \/ j.pc = "claim")
    BY <1>11, LookUpNodeFacts DEF Typed
  <2>2. Stage(job[k]) = "relate"
    BY <1>11, LookUpNodeFacts DEF Stage, StoresNow, Typed
  <2>3. \/ j.pc \in {"relate", "claim"}
        \/ j.pc = IF k[2] = "normal" THEN "reported" ELSE "build"
    BY <2>1, NextNodeIs
  <2>4. Stage(j) = j.pc
    BY <2>3 DEF Stage, StoresNow
  <2> QED
    BY <1>11, <2>1, <2>2, <2>3, <2>4, Onward DEF LookUpNode
<1>11a. ASSUME NEW k \in Task, Claim(k) PROVE VerdictInv'
  <2>1. PICK j : Becomes(k, j) /\ j.pc = "record"
    BY <1>11a, ClaimFacts DEF Typed
  <2>2. Stage(job[k]) = "claim" /\ Stage(j) = "record"
    BY <1>11a, <2>1, ClaimFacts DEF Stage, StoresNow, Typed
  <2> QED
    BY <1>11a, <2>1, <2>2, Onward DEF Claim
<1>12. ASSUME NEW k \in Task, StoreRelation(k) PROVE VerdictInv'
  <2>1. PICK j : Becomes(k, j) /\ WillStore(j, list[k[1]], NextNode(k, job[k].unvisited))
    BY <1>12, StoreRelationFacts DEF Typed
  <2>2. Stage(job[k]) = "record"
    BY <1>12, StoreRelationFacts DEF Stage, StoresNow, Typed
  <2>3. \/ NextNode(k, job[k].unvisited) = "relate"
        \/ NextNode(k, job[k].unvisited) = IF k[2] = "normal" THEN "reported" ELSE "build"
    BY NextNodeIs
  <2>4. Stage(j) = NextNode(k, job[k].unvisited)
    BY <2>1, <2>3, WillStoreFacts
  <2> QED
    BY <1>12, <2>1, <2>2, <2>3, <2>4, Onward DEF StoreRelation
<1>13. ASSUME NEW k \in Task, BuildSingle(k) PROVE VerdictInv'
  <2>0. /\ job[k].pc = "build" /\ Stage(job[k]) = "build"
        /\ UNCHANGED <<consumed, hasRoot, reports>>
    BY <1>13, BuildSingleFacts DEF Stage, StoresNow, BuildSingle, Typed
  <2>1. PICK j : /\ Becomes(k, j)
                 /\ \/ Fails(j, k)
                    \/ j.pc = "fatal" /\ drops' = [drops EXCEPT ![k] = @ + 1]
                    \/ WillStore(j, list[k[1]], "write") /\ drops' = drops
    BY <1>13, BuildSingleFacts DEF Typed
  <2>2. k[2] # "normal"
    BY <2>0 DEF VerdictInv, VerdictOf
  <2>3. CASE Fails(j, k)
    BY <2>0, <2>1, <2>3, FailsVerdict
  <2>4. CASE j.pc = "fatal" /\ drops' = [drops EXCEPT ![k] = @ + 1]
    <3>1. Stage(j) = "fatal"
      BY <2>4 DEF Stage, StoresNow
    <3> QED
      BY <2>0, <2>1, <2>2, <2>4, <3>1, Dropped
  <2>5. CASE WillStore(j, list[k[1]], "write") /\ drops' = drops
    <3>1. Stage(j) = "write"
      BY <2>5, WillStoreFacts
    <3> QED
      BY <2>0, <2>1, <2>2, <2>5, <3>1, Onward
  <2> QED
    BY <2>1, <2>3, <2>4, <2>5
<1>14. ASSUME NEW k \in Task, BuildMulti(k) PROVE VerdictInv'
  <2>0. /\ job[k].pc = "build" /\ Stage(job[k]) = "build" /\ ~hasRoot[k[1]]
        /\ UNCHANGED <<consumed, hasRoot, reports>>
    BY <1>14, BuildMultiFacts DEF Stage, StoresNow, BuildMulti, Typed
  <2>1. PICK j : /\ Becomes(k, j)
                 /\ \/ Fails(j, k)
                    \/ j.pc = "entries" /\ drops' = drops
    BY <1>14, BuildMultiFacts DEF Typed
  <2>2. CASE Fails(j, k)
    BY <2>0, <2>1, <2>2, FailsVerdict
  <2>3. CASE j.pc = "entries" /\ drops' = drops
    <3>1. Stage(j) = "entries"
      BY <2>3 DEF Stage, StoresNow
    <3>2. ~Rooted(k[1])
      BY <2>0, TaskIs DEF VerdictInv
    <3>3. VerdictOf(k, Stage(job[k]), drops[k], reports[k])
      BY DEF VerdictInv
    <3>4. VerdictOf(k, Stage(j), drops[k], reports[k])
      BY <2>0, <3>1, <3>2, <3>3 DEF VerdictOf
    <3> QED
      BY <2>0, <2>1, <2>3, <3>4, VerdictNext
  <2> QED
    BY <2>1, <2>2, <2>3
<1>15. ASSUME NEW k \in Task, Entry(k) PROVE VerdictInv'
  <2>0. Stage(job[k]) = "entries" /\ UNCHANGED <<consumed, hasRoot, reports, drops>>
    BY <1>15, EntryFacts DEF Stage, StoresNow, Entry, Typed
  <2>1. PICK j : /\ Becomes(k, j)
                 /\ j.pc = "reported" \/ WillStore(j, list[k[1]], "writeEntry")
    BY <1>15, EntryFacts DEF Typed
  <2>2. Stage(j) \in {"reported", "writeEntry"}
    <3>1. CASE j.pc = "reported"
      BY <3>1 DEF Stage, StoresNow
    <3> QED
      BY <2>1, <3>1, WillStoreFacts
  <2>3. VerdictOf(k, Stage(job[k]), drops[k], reports[k])
    BY DEF VerdictInv
  <2>4. VerdictOf(k, Stage(j), drops[k], reports[k])
    BY <2>0, <2>2, <2>3 DEF VerdictOf
  <2> QED
    BY <2>0, <2>1, <2>4, VerdictNext
<1>16. ASSUME NEW k \in Task, Write(k) PROVE VerdictInv'
  <2>0. /\ job[k].pc \in {"write", "writeEntry"} /\ Stage(job[k]) = job[k].pc
        /\ UNCHANGED <<consumed, hasRoot, drops>> /\ reports' = [reports EXCEPT ![k] = @ + 1]
    BY <1>16, WriteFacts DEF Stage, StoresNow, Write, Typed
  <2>1. PICK j : Becomes(k, j) /\ j.pc = IF job[k].pc = "write" THEN "reported" ELSE "entries"
    BY <1>16, WriteFacts DEF Typed
  <2>2. Stage(j) = j.pc
    BY <2>1 DEF Stage, StoresNow
  <2>3. reports \in [Task -> Nat]
    BY TypeIs DEF Typed
  <2>4. reports'[k] = reports[k] + 1 /\ \A q \in Task : q # k => reports'[q] = reports[q]
    BY <2>0, <2>3
  <2>5. VerdictOf(k, Stage(job[k]), drops[k], reports[k])
    BY DEF VerdictInv
  <2>6. VerdictOf(k, Stage(j), drops[k], reports'[k])
    <3>1. CASE job[k].pc = "write"
      <4>1. reports'[k] = 1
        BY <2>0, <2>4, <2>5, <3>1 DEF VerdictOf
      <4> QED
        BY <2>0, <2>1, <2>2, <2>5, <3>1, <4>1 DEF VerdictOf
    <3>2. CASE job[k].pc = "writeEntry"
      BY <2>0, <2>1, <2>2, <2>5, <3>2 DEF VerdictOf
    <3> QED
      BY <2>0, <3>1, <3>2
  <2> QED
    BY <2>0, <2>1, <2>4, <2>6, VerdictNext
<1> QED
  BY <1>1, <1>2, <1>3, <1>4, <1>5, <1>6, <1>7, <1>8, <1>8a, <1>9, <1>10, <1>11,
     <1>11a, <1>12, <1>13, <1>14, <1>15, <1>16 DEF Next, ProcessTask

\* A slow or error task ends with a drop report or reports, never both, and with one
\* of them if its root span was there when it was consumed (processTask).
THEOREM OneVerdictTheorem == Spec => []OneVerdict
<1>1. Typed /\ VerdictInv => OneVerdict
  <2> SUFFICES ASSUME Typed, VerdictInv, NEW k \in Task
               PROVE  /\ drops[k] + (IF reports[k] > 0 THEN 1 ELSE 0) <= 1
                      /\ /\ pc(k) \in Ends /\ k[2] /= "normal"
                         /\ consumed[k[1]] \cap TopSpan /= {}
                         => drops[k] + reports[k] = 1
    BY DEF OneVerdict
  <2>1. VerdictOf(k, Stage(job[k]), drops[k], reports[k]) /\ reports[k] \in Nat
    BY TypeIs DEF VerdictInv, Typed
  <2>2. pc(k) \in Ends => Stage(job[k]) = pc(k)
    BY DEF Stage, StoresNow, pc, Ends
  <2>3. Stage(job[k]) \in {"exhausted", "fatal"} => reports[k] = 0
    BY <2>1 DEF VerdictOf
  <2>4. drops[k] + (IF reports[k] > 0 THEN 1 ELSE 0) <= 1
    BY <2>1, <2>3 DEF VerdictOf
  <2>5. ASSUME pc(k) \in Ends, k[2] /= "normal", Rooted(k[1]) PROVE drops[k] + reports[k] = 1
    BY <2>1, <2>2, <2>3, <2>5 DEF VerdictOf, Ends
  <2> QED
    BY <2>4, <2>5 DEF Rooted
<1>2. Init => Typed /\ VerdictInv
  BY TypedInit, VerdictInit
<1>3. Typed /\ VerdictInv /\ [Next]_vars => (Typed /\ VerdictInv)'
  BY TypedStep, VerdictStep
<1> QED
  BY <1>1, <1>2, <1>3, PTL DEF Spec

\* A task is absent until its trace is consumed.
LEMMA AbsentFirst ==
  ASSUME Typed, VerdictInv, NEW t \in Traces, consumed[t] = {}
  PROVE  /\ \A k \in Task : k[1] = t => job[k].pc = "absent"
         /\ TasksOf(t) = {}
<1>1. ASSUME NEW k \in Task, k[1] = t PROVE job[k].pc = "absent"
  <2>1. Stage(job[k]) = "absent" /\ WellFormed(job[k])
    BY <1>1 DEF VerdictInv, VerdictOf, Typed, JobInv
  <2> QED
    BY <2>1 DEF Stage, WellFormed
<1> QED
  BY <1>1 DEF TasksOf, pc

-----------------------------------------------------------------------------
(* RelationBound and NormalSampled: how often a relation is written.       *)

LEMMA LongerByOne ==
  ASSUME NEW S, NEW s \in Seq(S), NEW x \in S
  PROVE  Len(Append(s, x)) = Len(s) + 1 /\ Append(s, x) # <<>>
<1>1. Len(Append(s, x)) = Len(s) + 1 /\ Len(s) \in Nat
  OBVIOUS
<1>2. Len(<<>>) = 0
  OBVIOUS
<1> QED
  BY <1>1, <1>2

RunningTasks == {q \in Task : Running(q)}
Claimers(n) == {q \in Task : n \in job[q].claiming}

\* Who still claims a node adds to those that have; each node passed over is known.
WorkInv ==
  /\ IsFiniteSet(RunningTasks) /\ Cardinality(RunningTasks) <= ThreadCount
  /\ \A n \in Node : related[n] # <<>> => n \in relation
  /\ \A n \in relation : related[n] # <<>> \/ BeingRecorded(n)
  /\ \A q \in Task : job[q].pc = "record" => job[q].claiming \subseteq relation
  /\ \A n \in Node : Len(related[n]) + Cardinality(Claimers(n)) <= ThreadCount
  /\ \A k \in Task : job[k].nodes \ (job[k].unvisited \cup job[k].claiming) \subseteq relation

LEMMA RunningIs == \A k \in Task : Running(k) <=> job[k].pc \notin Ends \cup {"absent", "queued"}
BY DEF Running, pc

LEMMA RunningNext ==
  \A k \in Task : Running(k)' <=> job'[k].pc \notin Ends \cup {"absent", "queued"}
BY DEF Running, pc

\* Who claims a node is running.
LEMMA ClaimersFew ==
  JobInv /\ IsFiniteSet(RunningTasks) /\ Cardinality(RunningTasks) <= ThreadCount =>
    \A n \in Node : /\ IsFiniteSet(Claimers(n)) /\ Cardinality(Claimers(n)) \in Nat
                   /\ Cardinality(Claimers(n)) <= ThreadCount
<1> SUFFICES ASSUME JobInv, IsFiniteSet(RunningTasks), Cardinality(RunningTasks) <= ThreadCount,
                    NEW n \in Node
             PROVE  /\ IsFiniteSet(Claimers(n)) /\ Cardinality(Claimers(n)) \in Nat
                    /\ Cardinality(Claimers(n)) <= ThreadCount
  OBVIOUS
<1>1. Claimers(n) \subseteq RunningTasks
  BY RunningIs DEF Claimers, RunningTasks, JobInv, WellFormed, Ends
<1>2. IsFiniteSet(Claimers(n)) /\ Cardinality(Claimers(n)) <= Cardinality(RunningTasks)
  BY <1>1, FS_Subset
<1>3. Cardinality(Claimers(n)) \in Nat /\ Cardinality(RunningTasks) \in Nat
  BY <1>2, FS_CardinalityType
<1> QED
  BY <1>2, <1>3

LEMMA ClaimersNext ==
  (JobInv /\ IsFiniteSet(RunningTasks) /\ Cardinality(RunningTasks) <= ThreadCount)' =>
    (\A n \in Node : /\ IsFiniteSet(Claimers(n)) /\ Cardinality(Claimers(n)) \in Nat
                    /\ Cardinality(Claimers(n)) <= ThreadCount)'
BY ClaimersFew, PTL

LEMMA RunningFew ==
  ASSUME WorkInv, NEW k \in Task, Running(k), NEW j, Becomes(k, j)
  PROVE  IsFiniteSet(RunningTasks') /\ Cardinality(RunningTasks') <= ThreadCount
<1>1. RunningTasks' \subseteq RunningTasks
  BY RunningIs, RunningNext DEF RunningTasks, Becomes
<1>2. PICK old : old = RunningTasks
  OBVIOUS
<1>3. PICK now : now = RunningTasks'
  OBVIOUS
<1>4. IsFiniteSet(old) /\ now \subseteq old /\ Cardinality(old) <= ThreadCount
  BY <1>1, <1>2, <1>3 DEF WorkInv
<1>5. IsFiniteSet(now) /\ Cardinality(now) <= Cardinality(old)
  BY <1>4, FS_Subset
<1>6. Cardinality(now) \in Nat /\ Cardinality(old) \in Nat
  BY <1>4, <1>5, FS_CardinalityType
<1> QED
  BY <1>3, <1>4, <1>5, <1>6

LEMMA RecordedIs ==
  \A n \in Node : BeingRecorded(n) <=>
                     \E q \in Task : job[q].pc = "record" /\ n \in job[q].claiming
BY DEF BeingRecorded, At, pc

LEMMA RecordedNext ==
  \A n \in Node : BeingRecorded(n)' <=>
                     \E q \in Task : job'[q].pc = "record" /\ n \in job'[q].claiming
BY DEF BeingRecorded, At, pc

\* A step of a running task that claims nothing and writes no relation.
LEMMA QuietWork ==
  ASSUME WorkInv, Typed, NEW k \in Task, Running(k), NEW j, Becomes(k, j),
         job[k].pc \notin {"claim", "record"},
         j.claiming \subseteq job[k].claiming,
         j.nodes \ (j.unvisited \cup j.claiming) \subseteq relation,
         UNCHANGED <<relation, related>>
  PROVE  WorkInv'
<1>1. IsFiniteSet(RunningTasks') /\ Cardinality(RunningTasks') <= ThreadCount
  BY RunningFew
<1>2. ASSUME NEW n \in Node PROVE Len(related[n]) + Cardinality(Claimers(n)') <= ThreadCount
  <2>1. Claimers(n)' \subseteq Claimers(n)
    BY DEF Claimers, Becomes
  <2>2. PICK old : old = Claimers(n)
    OBVIOUS
  <2>3. PICK now : now = Claimers(n)'
    OBVIOUS
  <2>4. IsFiniteSet(old) /\ Cardinality(old) \in Nat /\ Len(related[n]) + Cardinality(old) <= ThreadCount
    BY <2>2, ClaimersFew DEF WorkInv, Typed
  <2>5. IsFiniteSet(now) /\ Cardinality(now) <= Cardinality(old)
    BY <2>1, <2>2, <2>3, <2>4, FS_Subset
  <2>6. Cardinality(now) \in Nat /\ Len(related[n]) \in Nat
    BY <2>5, FS_CardinalityType, TypeIs DEF Typed
  <2> QED
    BY <2>3, <2>4, <2>5, <2>6
<1>3. \A q \in Task : job'[q].nodes \ (job'[q].unvisited \cup job'[q].claiming) \subseteq relation
  BY DEF Becomes, WorkInv
<1>4. job[k].claiming = {} /\ j.claiming = {}
  BY DEF Typed, JobInv, WellFormed
<1>5. \A n \in relation : related[n] # <<>> \/ BeingRecorded(n)'
  <2>1. \A n \in relation : n \in Node
    BY TypeIs DEF Typed
  <2>2. ASSUME NEW n \in Node, BeingRecorded(n) PROVE BeingRecorded(n)'
    <3>1. PICK q \in Task : job[q].pc = "record" /\ n \in job[q].claiming
      BY <2>2, RecordedIs
    <3>2. job'[q] = job[q]
      BY <3>1 DEF Becomes
    <3> QED
      BY <3>1, <3>2, RecordedNext
  <2> QED
    BY <2>1, <2>2 DEF WorkInv
<1>6. \A q \in Task : job'[q].pc = "record" => job'[q].claiming \subseteq relation
  BY <1>4 DEF Becomes, WorkInv
<1> QED
  BY <1>1, <1>2, <1>3, <1>5, <1>6 DEF WorkInv

LEMMA FailsVisit ==
  ASSUME WorkInv, NEW k \in Task, NEW j, Fails(j, k)
  PROVE  /\ j.claiming \subseteq job[k].claiming
         /\ j.nodes \ (j.unvisited \cup j.claiming) \subseteq relation
<1>1. Fresh(j) \/ SameVisit(j, job[k])
  BY DEF Fails
<1> QED
  BY <1>1 DEF Fresh, SameVisit, WorkInv

LEMMA WorkInit == Init => WorkInv
<1> SUFFICES ASSUME Init PROVE WorkInv
  OBVIOUS
<1>1. \A k \in Task : job[k] = Idle
  BY DEF Init
<1>2. RunningTasks = {}
  BY <1>1, IdleFacts, RunningIs DEF RunningTasks
<1>3. \A n \in Node : Claimers(n) = {}
  BY <1>1, IdleFacts DEF Claimers, Fresh
<1>4. \A n \in Node : related[n] = <<>> /\ relation = {}
  BY DEF Init
<1>5. Cardinality({}) = 0 /\ IsFiniteSet({}) /\ Len(<<>>) = 0
  BY FS_EmptySet
<1>6. relation = {} /\ \A k \in Task : job[k].nodes = {} /\ job[k].pc = "absent"
  BY <1>1, IdleFacts DEF Fresh, Init
<1>7. ASSUME NEW n \in Node
      PROVE  related[n] = <<>> /\ Len(related[n]) + Cardinality(Claimers(n)) <= ThreadCount
  <2>1. Cardinality(Claimers(n)) = 0 /\ related[n] = <<>> /\ relation = {}
    BY <1>3, <1>4, <1>5
  <2>2. Len(related[n]) = 0
    BY <2>1, <1>5
  <2>3. Len(related[n]) + Cardinality(Claimers(n)) <= ThreadCount
    BY <2>1, <2>2
  <2> QED
    BY <2>1, <2>3
<1>8. Cardinality(RunningTasks) = 0 /\ IsFiniteSet(RunningTasks)
  BY <1>2, <1>5
<1>9. \A k \in Task : job[k].nodes \ (job[k].unvisited \cup job[k].claiming) \subseteq relation
  BY <1>6
<1> QED
  BY <1>6, <1>7, <1>8, <1>9 DEF WorkInv

LEMMA WorkStep == Typed /\ Typed' /\ VerdictInv /\ WorkInv /\ [Next]_vars => WorkInv'
<1> SUFFICES ASSUME Typed, Typed', VerdictInv, WorkInv, [Next]_vars PROVE WorkInv'
  OBVIOUS
<1> USE DEF cacheVars, listVars, rowVars
<1>a. \A k \in Task : job[k].nodes \ (job[k].unvisited \cup job[k].claiming) \subseteq relation
  BY DEF WorkInv
<1>b. \A k \in Task : job[k].pc \in Steps => Running(k)
  BY RunningIs DEF Steps, Ends
<1>c. ASSUME NEW k \in Task, job[k].pc \in Steps \ {"claim", "record"}, NEW j, Becomes(k, j), SameVisit(j, job[k]),
             UNCHANGED <<relation, related>>
      PROVE  WorkInv'
  BY <1>a, <1>b, <1>c, QuietWork DEF SameVisit
<1>1. CASE UNCHANGED vars
  BY <1>1 DEF vars, WorkInv, RunningTasks, Running, pc, Claimers, BeingRecorded, At
<1>2. ASSUME NEW s \in Span, Arrive(s) PROVE WorkInv'
  BY <1>2 DEF Arrive, WorkInv, RunningTasks, Running, pc, Claimers, BeingRecorded, At
<1>3. ASSUME NEW t \in Traces, Consume(t) PROVE WorkInv'
  <2>1. \A k \in Task : \/ job'[k].pc = "queued" /\ Fresh(job'[k])
                       \/ job'[k] = job[k]
    BY <1>3, ConsumeFacts DEF Typed
  <2>2. RunningTasks' \subseteq RunningTasks
    BY <2>1, RunningIs, RunningNext DEF RunningTasks
  <2>3. \A n \in Node : Claimers(n)' \subseteq Claimers(n)
    BY <2>1 DEF Claimers, Fresh
  <2>4. PICK old : old = RunningTasks
    OBVIOUS
  <2>5. PICK now : now = RunningTasks'
    OBVIOUS
  <2>6. IsFiniteSet(old) /\ now \subseteq old /\ Cardinality(old) <= ThreadCount
    BY <2>2, <2>4, <2>5 DEF WorkInv
  <2>7. IsFiniteSet(now) /\ Cardinality(now) <= Cardinality(old)
    BY <2>6, FS_Subset
  <2>8. Cardinality(now) \in Nat /\ Cardinality(old) \in Nat
    BY <2>6, <2>7, FS_CardinalityType
  <2>9. IsFiniteSet(RunningTasks') /\ Cardinality(RunningTasks') <= ThreadCount
    BY <2>5, <2>6, <2>7, <2>8
  <2>10. UNCHANGED <<relation, related>>
    BY <1>3 DEF Consume
  <2>11. ASSUME NEW n \in Node PROVE Len(related[n]) + Cardinality(Claimers(n)') <= ThreadCount
    <3>1. PICK before : before = Claimers(n)
      OBVIOUS
    <3>2. PICK after : after = Claimers(n)'
      OBVIOUS
    <3>3. IsFiniteSet(before) /\ Cardinality(before) \in Nat /\ Len(related[n]) + Cardinality(before) <= ThreadCount
      BY <3>1, ClaimersFew DEF WorkInv, Typed
    <3>4. IsFiniteSet(after) /\ Cardinality(after) <= Cardinality(before)
      BY <2>3, <3>1, <3>2, <3>3, FS_Subset
    <3>5. Cardinality(after) \in Nat /\ Len(related[n]) \in Nat
      BY <3>4, FS_CardinalityType, TypeIs DEF Typed
    <3> QED
      BY <3>2, <3>3, <3>4, <3>5
  <2>12. \A k \in Task : job'[k].nodes \ (job'[k].unvisited \cup job'[k].claiming) \subseteq relation
    BY <1>a, <2>1 DEF Fresh
  <2>13. ASSUME NEW n \in Node, BeingRecorded(n) PROVE BeingRecorded(n)'
    <3>1. PICK q \in Task : job[q].pc = "record" /\ n \in job[q].claiming
      BY <2>13, RecordedIs
    <3>2. q[1] # t
      BY <1>3, <3>1, ConsumeFacts, AbsentFirst DEF Typed
    <3>3. job'[q] = job[q]
      BY <1>3, <3>2, ConsumeFacts DEF Typed
    <3> QED
      BY <3>1, <3>3, RecordedNext
  <2>14. \A n \in relation : n \in Node
    BY TypeIs DEF Typed
  <2>15. \A q \in Task : job'[q].pc = "record" => job'[q].claiming \subseteq relation
    BY <2>1 DEF WorkInv
  <2> QED
    BY <2>9, <2>10, <2>11, <2>12, <2>13, <2>14, <2>15 DEF WorkInv
<1>4. ASSUME NEW k \in Task, Begin(k) PROVE WorkInv'
  <2>1. PICK j : /\ Becomes(k, j) /\ j.pc \in {"relation", "load"}
                 /\ SameMerge(j, job[k]) /\ SameVisit(j, job[k]) /\ SameStore(j, job[k])
    BY <1>4, BeginFacts DEF Typed
  <2>2. PICK old : old = RunningTasks
    OBVIOUS
  <2>3. PICK now : now = RunningTasks'
    OBVIOUS
  <2>4. IsFiniteSet(old) /\ Cardinality(old) < ThreadCount /\ now \subseteq old \cup {k}
    <3>1. Cardinality(RunningTasks) < ThreadCount
      BY <1>4 DEF Begin, RunningTasks
    <3>2. RunningTasks' \subseteq RunningTasks \cup {k}
      BY <2>1, RunningIs, RunningNext DEF RunningTasks, Becomes
    <3> QED
      BY <2>2, <2>3, <3>1, <3>2 DEF WorkInv
  <2>5. IsFiniteSet(old \cup {k}) /\ Cardinality(old \cup {k}) <= ThreadCount
    <3>1. /\ IsFiniteSet(old \cup {k})
          /\ Cardinality(old \cup {k}) = IF k \in old THEN Cardinality(old) ELSE Cardinality(old) + 1
      BY <2>4, FS_AddElement
    <3>2. Cardinality(old) \in Nat
      BY <2>4, FS_CardinalityType
    <3> QED
      BY <2>4, <3>1, <3>2
  <2>6. IsFiniteSet(now) /\ Cardinality(now) <= Cardinality(old \cup {k})
    BY <2>4, <2>5, FS_Subset
  <2>7. Cardinality(now) \in Nat /\ Cardinality(old \cup {k}) \in Nat
    BY <2>5, <2>6, FS_CardinalityType
  <2>8. IsFiniteSet(RunningTasks') /\ Cardinality(RunningTasks') <= ThreadCount
    BY <2>3, <2>5, <2>6, <2>7
  <2>9. \A n \in Node : Claimers(n)' = Claimers(n)
    BY <2>1 DEF Claimers, Becomes, SameVisit
  <2>10. UNCHANGED <<relation, related>>
    BY <1>4 DEF Begin
  <2>11. \A q \in Task : job'[q].nodes \ (job'[q].unvisited \cup job'[q].claiming) \subseteq relation
    BY <1>a, <2>1 DEF Becomes, SameVisit
  <2>12. job[k].pc = "queued" /\ j.pc # "record"
    BY <1>4, <2>1, BeginFacts DEF Typed
  <2>13. ASSUME NEW n \in Node, BeingRecorded(n) PROVE BeingRecorded(n)'
    <3>1. PICK q \in Task : job[q].pc = "record" /\ n \in job[q].claiming
      BY <2>13, RecordedIs
    <3>2. job'[q] = job[q]
      BY <2>1, <2>12, <3>1 DEF Becomes
    <3> QED
      BY <3>1, <3>2, RecordedNext
  <2>14. \A n \in relation : n \in Node
    BY TypeIs DEF Typed
  <2>15. \A q \in Task : job'[q].pc = "record" => job'[q].claiming \subseteq relation
    BY <2>1, <2>12 DEF WorkInv, Becomes
  <2> QED
    BY <2>8, <2>9, <2>10, <2>11, <2>13, <2>14, <2>15 DEF WorkInv
<1>5. ASSUME NEW k \in Task, Load(k) PROVE WorkInv'
  <2>1. PICK j : Becomes(k, j) /\ SameVisit(j, job[k])
    BY <1>5, LoadFacts DEF Merges, Typed
  <2> QED
    BY <1>5, <1>c, <2>1, LoadFacts DEF Load, Steps, Typed
<1>6. ASSUME NEW k \in Task, ReadList(k) PROVE WorkInv'
  <2>1. PICK j : Becomes(k, j) /\ SameVisit(j, job[k])
    BY <1>6, ReadListFacts DEF Typed
  <2> QED
    BY <1>6, <1>c, <2>1, ReadListFacts DEF ReadList, Steps, Typed
<1>7. ASSUME NEW k \in Task, AddTrace(k) PROVE WorkInv'
  <2>1. PICK j : Becomes(k, j) /\ SameVisit(j, job[k])
    BY <1>7, AddTraceFacts DEF Merges, Typed
  <2> QED
    BY <1>7, <1>c, <2>1, AddTraceFacts DEF AddTrace, Steps, Typed
<1>8. ASSUME NEW k \in Task, CheckSent(k) PROVE WorkInv'
  <2>1. PICK j : Becomes(k, j) /\ SameVisit(j, job[k])
    BY <1>8, CheckSentFacts DEF Typed
  <2>2. job[k].pc = "store"
    BY <1>8, CheckSentFacts DEF Typed
  <2> QED
    BY <1>8, <1>c, <2>1, <2>2 DEF CheckSent, Steps
<1>8a. ASSUME NEW k \in Task, MarkSent(k) PROVE WorkInv'
  <2>1. PICK j : Becomes(k, j) /\ SameVisit(j, job[k])
    BY <1>8a, MarkSentFacts DEF Typed
  <2>2. job[k].pc = "mark"
    BY <1>8a, MarkSentFacts DEF Typed
  <2> QED
    BY <1>8a, <1>c, <2>1, <2>2 DEF MarkSent, Steps
<1>9. ASSUME NEW k \in Task, Save(k) PROVE WorkInv'
  <2>1. PICK j : Becomes(k, j) /\ SameVisit(j, job[k])
    BY <1>9, SaveFacts DEF Typed
  <2>2. job[k].pc = "save"
    BY <1>9, SaveFacts DEF Typed
  <2> QED
    BY <1>9, <1>c, <2>1, <2>2 DEF Save, Steps
<1>10. ASSUME NEW k \in Task, StartRelations(k) PROVE WorkInv'
  <2>0. job[k].pc = "relation" /\ UNCHANGED <<relation, related>>
    BY <1>10, StartRelationsFacts DEF StartRelations, Typed
  <2>1. PICK j : /\ Becomes(k, j)
                 /\ \/ Fails(j, k)
                    \/ SameVisit(j, job[k])
                    \/ \E answer \in Answers :
                         /\ j.nodes = answer /\ j.unvisited = answer
                         /\ j.claiming = job[k].claiming
    BY <1>10, StartRelationsFacts DEF Typed
  <2>2. Running(k)
    BY <1>b, <2>0 DEF Steps
  <2>3. CASE Fails(j, k)
    BY <2>0, <2>1, <2>2, <2>3, FailsVisit, QuietWork
  <2>4. CASE SameVisit(j, job[k])
    BY <2>0, <2>1, <2>4, <1>c DEF Steps
  <2>5. CASE j.nodes = j.unvisited /\ j.claiming = job[k].claiming
    BY <2>0, <2>1, <2>2, <2>5, QuietWork
  <2> QED
    BY <2>1, <2>3, <2>4, <2>5
<1>11. ASSUME NEW k \in Task, NEW n \in Node, LookUpNode(k, n) PROVE WorkInv'
  <2>0. job[k].pc = "relate" /\ UNCHANGED <<relation, related>> /\ n \in job[k].unvisited
    BY <1>11, LookUpNodeFacts DEF LookUpNode, Typed
  <2>1. PICK j : /\ Becomes(k, j)
                 /\ j.nodes = job[k].nodes /\ j.unvisited = job[k].unvisited \ {n}
                 /\ \/ n \in relation /\ j.claiming = job[k].claiming
                    \/ n \notin relation /\ j.claiming = {n} /\ j.pc = "claim"
    BY <1>11, LookUpNodeFacts DEF Typed
  <2>2. Running(k)
    BY <1>b, <2>0 DEF Steps
  <2>3. CASE n \in relation /\ j.claiming = job[k].claiming
    <3>1. j.nodes \ (j.unvisited \cup j.claiming) \subseteq relation
      BY <1>a, <2>1, <2>3
    <3> QED
      BY <2>0, <2>1, <2>2, <2>3, <3>1, QuietWork
  <2>4. CASE n \notin relation /\ j.claiming = {n}
    <3>1. IsFiniteSet(RunningTasks') /\ Cardinality(RunningTasks') <= ThreadCount
      BY <2>1, <2>2, RunningFew
    <3>2. \A m \in Node : /\ IsFiniteSet(Claimers(m)') /\ Cardinality(Claimers(m)') \in Nat
                         /\ Cardinality(Claimers(m)') <= ThreadCount
      BY <3>1, ClaimersNext DEF Typed
    <3>3. ASSUME NEW m \in Node PROVE Len(related[m]) + Cardinality(Claimers(m)') <= ThreadCount
      <4>1. CASE m = n
        <5>1. related[m] = <<>> /\ Len(<<>>) = 0
          BY <4>1, <2>4 DEF WorkInv
        <5> QED
          BY <3>2, <5>1
      <4>2. CASE m # n
        <5>1. Claimers(m)' \subseteq Claimers(m)
          BY <2>1, <2>4, <4>2 DEF Claimers, Becomes
        <5>2. PICK old : old = Claimers(m)
          OBVIOUS
        <5>3. PICK now : now = Claimers(m)'
          OBVIOUS
        <5>4. IsFiniteSet(old) /\ Cardinality(old) \in Nat /\ Len(related[m]) + Cardinality(old) <= ThreadCount
          BY <5>2, ClaimersFew DEF WorkInv, Typed
        <5>5. Cardinality(now) <= Cardinality(old) /\ Cardinality(now) \in Nat
          BY <3>2, <5>1, <5>2, <5>3, <5>4, FS_Subset
        <5>6. Len(related[m]) \in Nat
          BY TypeIs DEF Typed
        <5> QED
          BY <5>3, <5>4, <5>5, <5>6
      <4> QED
        BY <4>1, <4>2
    <3>4. j.nodes \ (j.unvisited \cup j.claiming) \subseteq relation
      <4>1. job[k].claiming = {}
        BY <2>0 DEF Typed, JobInv, WellFormed
      <4> QED
        BY <1>a, <2>1, <2>4, <4>1
    <3>5. \A q \in Task : job'[q].nodes \ (job'[q].unvisited \cup job'[q].claiming) \subseteq relation
      BY <1>a, <2>1, <3>4 DEF Becomes
    <3>6. j.pc = "claim"
      BY <2>1, <2>4
    <3>7. ASSUME NEW m \in Node, BeingRecorded(m) PROVE BeingRecorded(m)'
      <4>1. PICK q \in Task : job[q].pc = "record" /\ m \in job[q].claiming
        BY <3>7, RecordedIs
      <4>2. job'[q] = job[q]
        BY <2>0, <2>1, <4>1 DEF Becomes
      <4> QED
        BY <4>1, <4>2, RecordedNext
    <3>8. \A m \in relation : m \in Node
      BY TypeIs DEF Typed
    <3>9. \A q \in Task : job'[q].pc = "record" => job'[q].claiming \subseteq relation
      BY <2>1, <3>6 DEF WorkInv, Becomes
    <3> QED
      BY <2>0, <3>1, <3>3, <3>5, <3>7, <3>8, <3>9 DEF WorkInv
  <2> QED
    BY <2>1, <2>3, <2>4
<1>11a. ASSUME NEW k \in Task, Claim(k) PROVE WorkInv'
  <2>1. PICK j : Becomes(k, j) /\ j.pc = "record" /\ SameVisit(j, job[k])
    BY <1>11a, ClaimFacts DEF Typed
  <2>2. relation' = relation \cup job[k].claiming /\ related' = related
    BY <1>11a DEF Claim
  <2>3. job[k].pc = "claim" /\ Running(k)
    BY <1>11a, <1>b, ClaimFacts DEF Steps, Typed
  <2>4. IsFiniteSet(RunningTasks') /\ Cardinality(RunningTasks') <= ThreadCount
    BY <2>1, <2>3, RunningFew
  <2>5. \A n \in Node : Claimers(n)' = Claimers(n)
    BY <2>1 DEF Claimers, Becomes, SameVisit
  <2>6. \A q \in Task : job'[q].nodes \ (job'[q].unvisited \cup job'[q].claiming) \subseteq relation'
    BY <1>a, <2>1, <2>2 DEF Becomes, SameVisit
  <2>7. ASSUME NEW n \in relation' PROVE related[n] # <<>> \/ BeingRecorded(n)'
    <3>1. n \in Node
      BY <2>7, TypeIs DEF Typed, TypeOK
    <3>2. CASE n \in job[k].claiming
      BY <2>1, <3>1, <3>2, RecordedNext DEF Becomes, SameVisit
    <3>3. CASE n \in relation /\ related[n] = <<>>
      <4>1. PICK q \in Task : job[q].pc = "record" /\ n \in job[q].claiming
        BY <3>1, <3>3, RecordedIs DEF WorkInv
      <4>2. job'[q] = job[q]
        BY <2>1, <2>3, <4>1 DEF Becomes
      <4> QED
        BY <3>1, <4>1, <4>2, RecordedNext
    <3> QED
      BY <2>2, <2>7, <3>2, <3>3
  <2>8. \A q \in Task : job'[q].pc = "record" => job'[q].claiming \subseteq relation'
    BY <2>1, <2>2 DEF WorkInv, Becomes, SameVisit
  <2> QED
    BY <2>2, <2>4, <2>5, <2>6, <2>7, <2>8 DEF WorkInv
<1>12. ASSUME NEW k \in Task, StoreRelation(k) PROVE WorkInv'
  <2>1. PICK j : Becomes(k, j) /\ j.nodes = job[k].nodes /\ j.unvisited = job[k].unvisited /\ j.claiming = {}
    BY <1>12, StoreRelationFacts DEF Typed
  <2>2. /\ relation' = relation
        /\ related' = [n \in Node |-> IF n \in job[k].claiming THEN Append(related[n], k[1]) ELSE related[n]]
    BY <1>12 DEF StoreRelation
  <2>3. job[k].pc = "record" /\ Running(k) /\ job[k].claiming \subseteq relation
    BY <1>12, <1>b, StoreRelationFacts DEF Steps, Typed, WorkInv
  <2>4. IsFiniteSet(RunningTasks') /\ Cardinality(RunningTasks') <= ThreadCount
    BY <2>1, <2>3, RunningFew
  <2>5. ASSUME NEW n \in Node
        PROVE  /\ related'[n] # <<>> => n \in relation
               /\ Len(related'[n]) + Cardinality(Claimers(n)') <= ThreadCount
    <3>1. PICK old : old = Claimers(n)
      OBVIOUS
    <3>2. PICK now : now = Claimers(n)'
      OBVIOUS
    <3>3. /\ IsFiniteSet(old) /\ Cardinality(old) \in Nat
          /\ Len(related[n]) + Cardinality(old) <= ThreadCount
          /\ related[n] # <<>> => n \in relation
      BY <3>1, ClaimersFew DEF WorkInv, Typed
    <3>4. now = old \ {k}
      BY <2>1, <3>1, <3>2 DEF Claimers, Becomes
    <3>5. Cardinality(now) = IF k \in old THEN Cardinality(old) - 1 ELSE Cardinality(old)
      BY <3>3, <3>4, FS_RemoveElement
    <3>6. related[n] \in Seq(Traces) /\ k[1] \in Traces /\ Len(related[n]) \in Nat
      BY TypeIs, TaskIs DEF Typed
    <3>7. CASE n \in job[k].claiming
      <4>1. related'[n] = Append(related[n], k[1]) /\ n \in relation /\ k \in old
        BY <2>2, <2>3, <3>1, <3>7 DEF Claimers
      <4>2. Len(related'[n]) = Len(related[n]) + 1 /\ related'[n] # <<>>
        BY <3>6, <4>1, LongerByOne
      <4> QED
        BY <3>2, <3>3, <3>5, <3>6, <4>1, <4>2
    <3>8. CASE n \notin job[k].claiming
      <4>1. related'[n] = related[n] /\ k \notin old
        BY <2>2, <3>1, <3>8 DEF Claimers
      <4> QED
        BY <3>2, <3>3, <3>5, <4>1
    <3> QED
      BY <3>7, <3>8
  <2>6. \A q \in Task : job'[q].nodes \ (job'[q].unvisited \cup job'[q].claiming) \subseteq relation'
    BY <1>a, <2>1, <2>2, <2>3 DEF Becomes
  <2>7. ASSUME NEW n \in relation PROVE related'[n] # <<>> \/ BeingRecorded(n)'
    <3>1. n \in Node /\ related[n] \in Seq(Traces) /\ k[1] \in Traces
      BY <2>7, TypeIs, TaskIs DEF Typed
    <3>2. CASE n \in job[k].claiming
      <4>1. related'[n] = Append(related[n], k[1])
        BY <2>2, <3>1, <3>2
      <4> QED
        BY <3>1, <4>1, LongerByOne
    <3>3. CASE n \notin job[k].claiming /\ related[n] # <<>>
      BY <2>2, <3>1, <3>3
    <3>4. CASE n \notin job[k].claiming /\ related[n] = <<>>
      <4>1. PICK q \in Task : job[q].pc = "record" /\ n \in job[q].claiming
        BY <2>7, <3>1, <3>4, RecordedIs DEF WorkInv
      <4>2. job'[q] = job[q]
        BY <2>1, <3>4, <4>1 DEF Becomes
      <4> QED
        BY <3>1, <4>1, <4>2, RecordedNext
    <3> QED
      BY <3>2, <3>3, <3>4
  <2>8. \A q \in Task : job'[q].pc = "record" => job'[q].claiming \subseteq relation
    BY <2>1 DEF WorkInv, Becomes
  <2> QED
    BY <2>2, <2>4, <2>5, <2>6, <2>7, <2>8 DEF WorkInv
<1>13. ASSUME NEW k \in Task, BuildSingle(k) PROVE WorkInv'
  <2>0. job[k].pc = "build" /\ UNCHANGED <<relation, related>>
    BY <1>13, BuildSingleFacts DEF BuildSingle, Typed
  <2>1. PICK j : /\ Becomes(k, j)
                 /\ \/ Fails(j, k)
                    \/ Fresh(j)
                    \/ j.nodes = {} /\ j.claiming = job[k].claiming
    BY <1>13, BuildSingleFacts DEF Typed
  <2>2. Running(k)
    BY <1>b, <2>0 DEF Steps
  <2>3. /\ j.claiming \subseteq job[k].claiming
        /\ j.nodes \ (j.unvisited \cup j.claiming) \subseteq relation
    BY <2>1, FailsVisit DEF Fresh
  <2> QED
    BY <2>0, <2>1, <2>2, <2>3, QuietWork
<1>14. ASSUME NEW k \in Task, BuildMulti(k) PROVE WorkInv'
  <2>0. job[k].pc = "build" /\ UNCHANGED <<relation, related>>
    BY <1>14, BuildMultiFacts DEF BuildMulti, Typed
  <2>1. PICK j : Becomes(k, j) /\ (Fails(j, k) \/ Fresh(j))
    BY <1>14, BuildMultiFacts DEF Typed
  <2>2. Running(k)
    BY <1>b, <2>0 DEF Steps
  <2>3. /\ j.claiming \subseteq job[k].claiming
        /\ j.nodes \ (j.unvisited \cup j.claiming) \subseteq relation
    BY <2>1, FailsVisit DEF Fresh
  <2> QED
    BY <2>0, <2>1, <2>2, <2>3, QuietWork
<1>15. ASSUME NEW k \in Task, Entry(k) PROVE WorkInv'
  <2>1. PICK j : Becomes(k, j) /\ SameVisit(j, job[k])
    BY <1>15, EntryFacts DEF Typed
  <2> QED
    BY <1>15, <1>c, <2>1, EntryFacts DEF Entry, Steps, Typed
<1>16. ASSUME NEW k \in Task, Write(k) PROVE WorkInv'
  <2>1. PICK j : Becomes(k, j) /\ SameVisit(j, job[k])
    BY <1>16, WriteFacts DEF Typed
  <2>2. job[k].pc \in Steps \ {"claim", "record"} /\ UNCHANGED <<relation, related>>
    BY <1>16, WriteFacts DEF Write, Steps, Typed
  <2> QED
    BY <1>c, <2>1, <2>2
<1> QED
  BY <1>1, <1>2, <1>3, <1>4, <1>5, <1>6, <1>7, <1>8, <1>8a, <1>9, <1>10, <1>11,
     <1>11a, <1>12, <1>13, <1>14, <1>15, <1>16 DEF Next, ProcessTask

LEMMA Worked == Spec => [](Typed /\ WorkInv)
<1>1. Init => Typed /\ VerdictInv /\ WorkInv
  BY TypedInit, VerdictInit, WorkInit
<1>2. Typed /\ VerdictInv /\ WorkInv /\ [Next]_vars => (Typed /\ VerdictInv /\ WorkInv)'
  BY TypedStep, VerdictStep, WorkStep
<1> QED
  BY <1>1, <1>2, PTL DEF Spec

\* Workers that find a relation missing at the same time may all write it, but it is
\* never written more often than there are workers (buildRelations).
THEOREM RelationBoundTheorem == Spec => []RelationBound
<1>1. Typed /\ WorkInv => RelationBound
  <2> SUFFICES ASSUME Typed, WorkInv, NEW n \in Node PROVE Len(related[n]) <= ThreadCount
    BY DEF RelationBound
  <2>1. Cardinality(Claimers(n)) \in Nat /\ Len(related[n]) + Cardinality(Claimers(n)) <= ThreadCount
    BY ClaimersFew DEF WorkInv, Typed
  <2>2. Len(related[n]) \in Nat
    BY TypeIs DEF Typed
  <2> QED
    BY <2>1, <2>2
<1> QED
  BY <1>1, Worked, PTL

\* A normal trace that is not written in the end had nothing but nodes whose relation
\* was written, or is in the next step of the worker that cached it (buildRelations).
THEOREM NormalSampledTheorem == Spec => []NormalSampled
<1>1. Typed /\ WorkInv => NormalSampled
  <2> SUFFICES ASSUME Typed, WorkInv, NEW t \in Traces, job[<<t, "normal">>].pc \in Ends,
                      NEW n \in job[<<t, "normal">>].nodes
               PROVE  related[n] # <<>> \/ BeingRecorded(n)
    BY DEF NormalSampled
  <2>1. <<t, "normal">> \in Task
    BY DEF Task, ReportType
  <2>2. job[<<t, "normal">>] \in JobType
    BY <2>1, TypeIs DEF Typed
  <2>3. n \in Node
    BY <2>2 DEF JobType
  <2>4. job[<<t, "normal">>].unvisited = {} /\ job[<<t, "normal">>].claiming = {}
    BY <2>1 DEF Typed, JobInv, WellFormed, Stage, StoresNow, Ends
  <2> QED
    BY <2>1, <2>3, <2>4 DEF WorkInv
<1> QED
  BY <1>1, Worked, PTL

-----------------------------------------------------------------------------
(* What the steps of a task do to the spans of its trace: five shapes.     *)

\* A task that is not merging.
Plain(j) == j.adding = {} /\ j.merging = <<>> /\ j.pc \notin {"absent", "append", "add", "mark", "save"}

\* k goes on, and may have written a report ...
Walks(k, j) ==
  /\ Plain(job[k]) /\ Plain(j) /\ job[k].storing = <<>> /\ j.storing = <<>>
  /\ Stage(j) \notin {"write", "writeEntry"}
  /\ UNCHANGED <<cached, consumed, list, sent, stored, related>>
  /\ \/ reports' = reports
     \/ job[k].pc \in {"write", "writeEntry"} /\ reports' = [reports EXCEPT ![k] = @ + 1]

\* ... begins to store its trace, and may have written its relation, ...
Starts(k, j) ==
  /\ Plain(job[k]) /\ Plain(j) /\ job[k].storing = <<>> /\ j.storing = list[k[1]]
  /\ UNCHANGED <<cached, consumed, list, sent, stored, reports>>
  /\ \A n \in Node : Range(related'[n]) \subseteq Range(related[n]) \cup {k[1]}

\* ... tests, marks or stores an object, ...
Stores(k, j) ==
  /\ StoresNow(job[k]) /\ Stage(j) = Stage(job[k]) /\ j.pc \notin {"absent", "add"}
  /\ SameMerge(j, job[k])
  /\ UNCHANGED <<cached, consumed, list, related, reports>>
  /\ \/ /\ job[k].pc = "store" /\ Head(job[k].storing) \notin sent
        /\ j.pc = "mark" /\ j.storing = job[k].storing /\ UNCHANGED <<sent, stored>>
     \/ /\ job[k].pc = "store" /\ Head(job[k].storing) \in sent
        /\ j.pc \notin {"mark", "save"} /\ j.storing = Tail(job[k].storing)
        /\ UNCHANGED <<sent, stored>>
     \/ /\ job[k].pc = "mark" /\ j.pc = "save" /\ j.storing = job[k].storing
        /\ sent' = sent \cup {Head(job[k].storing)} /\ UNCHANGED stored
     \/ /\ job[k].pc = "save" /\ j.pc \notin {"mark", "save"} /\ j.storing = Tail(job[k].storing)
        /\ UNCHANGED sent /\ stored' = [stored EXCEPT ![Head(job[k].storing)] = @ + 1]

\* ... reads the list, or ...
Reads(k, j) ==
  /\ job[k].pc = "append" /\ j.pc = "add" /\ j.seen = list[k[1]]
  /\ j.merging = job[k].merging /\ j.adding = job[k].adding
  /\ job[k].storing = <<>> /\ j.storing = <<>>
  /\ UNCHANGED <<cached, consumed, list, sent, stored, related, reports>>

\* ... goes to the next of the spans it merges, having written the list or not.
Joins(j, spans) ==
  \/ spans = <<>> /\ j.adding = {} /\ j.merging = <<>> /\ j.storing = <<>>
  \/ /\ spans # <<>>
     /\ \E new \in Object : /\ new.span = Head(spans) /\ j.merging = Tail(spans)
                            /\ j.adding = {new} /\ j.storing \in {<<>>, <<new>>}

MergesOn(k, j) ==
  /\ job[k].storing = <<>> /\ j.pc \notin {"absent", "add", "mark", "save"}
  /\ Stage(j) \notin {"write", "writeEntry"}
  /\ UNCHANGED <<cached, consumed, sent, stored, related, reports>>
  /\ \/ /\ job[k].pc = "load" /\ Plain(job[k]) /\ Joins(j, NewSpans(k)) /\ list' = list
     \/ /\ job[k].pc = "add" /\ Joins(j, job[k].merging)
        /\ \E new \in job[k].adding :
             list' = [list EXCEPT ![k[1]] = Append(job[k].seen, new)]

Shape(k, j) == Walks(k, j) \/ Starts(k, j) \/ Stores(k, j) \/ Reads(k, j) \/ MergesOn(k, j)

LEMMA PlainFacts ==
  ASSUME NEW j, WellFormed(j), Stage(j) \notin {"absent", "append", "add"},
         j.pc \notin {"mark", "save"}
  PROVE  Plain(j) /\ j.pc # "absent"
BY DEF WellFormed, Plain, Stage, StoresNow

LEMMA IdleStore ==
  ASSUME NEW j, WellFormed(j), ~StoresNow(j)
  PROVE  j.storing = <<>> /\ Stage(j) = j.pc
BY DEF WellFormed, Stage

LEMMA JoinsFacts ==
  ASSUME NEW j, NEW i, NEW spans, Merges(j, i, spans), WellFormed(j), WellFormed(i),
         i.pc \in {"load", "add"}, spans = <<>> => i.merging = <<>>
  PROVE  /\ Joins(j, spans) /\ i.storing = <<>>
         /\ j.pc \notin {"absent", "add", "mark", "save"} /\ Stage(j) \in {"relation", "append"}
<1>1. i.storing = <<>> /\ ~StoresNow(i)
  BY DEF WellFormed, StoresNow
<1>2. Stage(j) \in {"relation", "append"}
  BY MergesFormed
<1>3. CASE spans = <<>>
  <2>1. j.pc = "relation" /\ j.adding = {} /\ j.merging = <<>> /\ j.storing = <<>>
    BY <1>1, <1>3 DEF Merges, SameStore
  <2> QED
    BY <1>1, <1>2, <1>3, <2>1 DEF Joins
<1>4. CASE spans # <<>>
  <2>1. PICK new \in Object :
          /\ new.span = Head(spans) /\ j.merging = Tail(spans) /\ j.adding = {new}
          /\ WillStore(j, <<new>>, "append") \/ WillStore(j, <<>>, "append")
    BY <1>4 DEF Merges
  <2>2. j.storing \in {<<>>, <<new>>} /\ j.pc \in {"store", "append"}
    BY <2>1 DEF WillStore
  <2> QED
    BY <1>1, <1>2, <1>4, <2>1, <2>2 DEF Joins
<1> QED
  BY <1>3, <1>4

\* A task that fails goes on, or stores its trace.
LEMMA FailsShape ==
  ASSUME Typed, Typed', NEW k \in Task, NEW j, Becomes(k, j), Fails(j, k),
         job[k].pc \in {"relation", "build"},
         UNCHANGED <<cached, consumed, list, sent, stored, related, reports>>
  PROVE  Shape(k, j)
<1>1. WellFormed(job[k]) /\ ~StoresNow(job[k]) /\ Stage(job[k]) = job[k].pc
  BY DEF Typed, JobInv, StoresNow, Stage
<1>2. Plain(job[k]) /\ job[k].storing = <<>>
  BY <1>1, PlainFacts, IdleStore
<1>3. WellFormed(j) /\ Stage(j) \in {"queued", "exhausted"}
  BY <1>1, FailsFormed
<1>4. j.pc \notin {"mark", "save"}
  BY DEF Fails, WillStore
<1>5. Plain(j)
  BY <1>3, <1>4, PlainFacts
<1>6. j.storing = <<>> \/ j.storing = list[k[1]]
  BY DEF Fails, Fresh, WillStore
<1> QED
  BY <1>2, <1>3, <1>5, <1>6 DEF Shape, Walks, Starts

LEMMA Shapes ==
  ASSUME Typed, Typed', NEW k \in Task, Begin(k) \/ ProcessTask(k)
  PROVE  \E j : Becomes(k, j) /\ Shape(k, j)
<1> USE DEF cacheVars, listVars, rowVars
<1>a. WellFormed(job[k]) /\ k[1] \in Traces
  BY TaskIs DEF Typed, JobInv
<1>b. \A j : Becomes(k, j) => WellFormed(j)
  BY DEF Typed, JobInv, Becomes
<1>c. TypeOK /\ JobInv
  BY DEF Typed
<1>d. ~StoresNow(job[k]) => job[k].storing = <<>> /\ Stage(job[k]) = job[k].pc
  BY <1>a, IdleStore
<1>e. ~StoresNow(job[k]) /\ job[k].pc \notin {"absent", "append", "add"} => Plain(job[k])
  BY <1>a, <1>d, PlainFacts DEF StoresNow
<1>1. CASE Begin(k)
  <2>1. PICK j : Becomes(k, j) /\ j.pc \in {"relation", "load"} /\ SameStore(j, job[k])
    BY <1>1, <1>c, BeginFacts
  <2>2. job[k].pc = "queued" /\ ~StoresNow(job[k])
    BY <1>1, <1>c, BeginFacts DEF StoresNow
  <2>3. Stage(j) = j.pc
    BY <2>1 DEF Stage, StoresNow
  <2>4. Plain(j) /\ j.storing = <<>>
    BY <1>b, <1>d, <2>1, <2>2, <2>3, PlainFacts DEF SameStore
  <2>5. UNCHANGED <<cached, consumed, list, sent, stored, related, reports>>
    BY <1>1 DEF Begin
  <2>6. Walks(k, j)
    BY <1>d, <1>e, <2>1, <2>2, <2>3, <2>4, <2>5 DEF Walks
  <2> QED
    BY <2>1, <2>6 DEF Shape
<1>2. CASE Load(k)
  <2>1. PICK j : Becomes(k, j) /\ Merges(j, job[k], NewSpans(k))
    BY <1>2, <1>c, LoadFacts
  <2>2. job[k].pc = "load" /\ ~StoresNow(job[k])
    BY <1>2, <1>c, LoadFacts DEF StoresNow
  <2>3. Plain(job[k]) /\ job[k].merging = <<>>
    BY <1>e, <2>2 DEF Plain
  <2>4. /\ Joins(j, NewSpans(k)) /\ job[k].storing = <<>>
        /\ j.pc \notin {"absent", "add", "mark", "save"} /\ Stage(j) \in {"relation", "append"}
    BY <1>a, <1>b, <2>1, <2>2, <2>3, JoinsFacts
  <2>5. UNCHANGED <<cached, consumed, list, sent, stored, related, reports>>
    BY <1>2 DEF Load
  <2>6. MergesOn(k, j)
    BY <2>2, <2>3, <2>4, <2>5 DEF MergesOn
  <2> QED
    BY <2>1, <2>6 DEF Shape
<1>3. CASE ReadList(k)
  <2>1. PICK j : /\ Becomes(k, j) /\ j.pc = "add" /\ j.seen = list[k[1]]
                 /\ j.merging = job[k].merging /\ j.adding = job[k].adding
                 /\ SameStore(j, job[k])
    BY <1>3, <1>c, ReadListFacts
  <2>2. job[k].pc = "append" /\ ~StoresNow(job[k])
    BY <1>3, <1>c, ReadListFacts DEF StoresNow
  <2>3. UNCHANGED <<cached, consumed, list, sent, stored, related, reports>>
    BY <1>3 DEF ReadList
  <2>4. Reads(k, j)
    BY <1>d, <2>1, <2>2, <2>3 DEF Reads, SameStore
  <2> QED
    BY <2>1, <2>4 DEF Shape
<1>4. CASE AddTrace(k)
  <2>1. PICK j : Becomes(k, j) /\ Merges(j, job[k], job[k].merging)
    BY <1>4, <1>c, AddTraceFacts
  <2>2. job[k].pc = "add"
    BY <1>4, <1>c, AddTraceFacts
  <2>3. /\ Joins(j, job[k].merging) /\ job[k].storing = <<>>
        /\ j.pc \notin {"absent", "add", "mark", "save"} /\ Stage(j) \in {"relation", "append"}
    BY <1>a, <1>b, <2>1, <2>2, JoinsFacts
  <2>4. UNCHANGED <<cached, consumed, sent, stored, related, reports>>
    BY <1>4 DEF AddTrace
  <2>5. \E new \in job[k].adding : list' = [list EXCEPT ![k[1]] = Append(job[k].seen, new)]
    BY <1>4 DEF AddTrace
  <2>6. MergesOn(k, j)
    BY <2>2, <2>3, <2>4, <2>5 DEF MergesOn
  <2> QED
    BY <2>1, <2>6 DEF Shape
<1>5. CASE CheckSent(k)
  <2>1. PICK j : /\ Becomes(k, j) /\ SameMerge(j, job[k])
                 /\ \/ /\ Head(job[k].storing) \notin sent
                       /\ j.pc = "mark" /\ SameStore(j, job[k])
                    \/ /\ Head(job[k].storing) \in sent
                       /\ WillStore(j, Tail(job[k].storing), job[k].after)
    BY <1>5, <1>c, CheckSentFacts
  <2>2. job[k].pc = "store" /\ StoresNow(job[k])
    BY <1>5, <1>c, CheckSentFacts
  <2>3. /\ Stage(job[k]) = job[k].after
        /\ job[k].after \in {"append", "relate", "build", "reported", "exhausted",
                               "write", "writeEntry"}
    BY <1>c, <2>2, StoringFacts
  <2>4. UNCHANGED <<cached, consumed, list, sent, stored, related, reports>>
    BY <1>5 DEF CheckSent
  <2>5. CASE Head(job[k].storing) \notin sent /\ j.pc = "mark" /\ SameStore(j, job[k])
    <3>1. Stage(j) = Stage(job[k])
      BY <2>2, <2>5 DEF Stage, StoresNow, SameStore
    <3> QED
      BY <2>1, <2>2, <2>4, <2>5, <3>1 DEF Shape, Stores, SameStore
  <2>6. CASE /\ Head(job[k].storing) \in sent
             /\ WillStore(j, Tail(job[k].storing), job[k].after)
    <3>1. Stage(j) = Stage(job[k])
      BY <2>3, <2>6, WillStoreFacts
    <3>2. j.storing = Tail(job[k].storing) /\ j.pc \notin {"absent", "add", "mark", "save"}
      BY <2>3, <2>6 DEF WillStore
    <3> QED
      BY <2>1, <2>2, <2>4, <2>6, <3>1, <3>2 DEF Shape, Stores
  <2> QED
    BY <2>1, <2>5, <2>6
<1>5a. CASE MarkSent(k)
  <2>1. PICK j : /\ Becomes(k, j) /\ j.pc = "save" /\ SameMerge(j, job[k]) /\ SameStore(j, job[k])
    BY <1>5a, <1>c, MarkSentFacts
  <2>2. job[k].pc = "mark" /\ StoresNow(job[k])
    BY <1>5a, <1>c, MarkSentFacts
  <2>3. /\ UNCHANGED <<cached, consumed, list, stored, related, reports>>
        /\ sent' = sent \cup {Head(job[k].storing)}
    BY <1>5a DEF MarkSent
  <2>4. Stage(j) = Stage(job[k])
    BY <2>1, <2>2 DEF Stage, StoresNow, SameStore
  <2> QED
    BY <2>1, <2>2, <2>3, <2>4 DEF Shape, Stores, SameStore
<1>6. CASE Save(k)
  <2>1. PICK j : /\ Becomes(k, j) /\ SameMerge(j, job[k])
                 /\ WillStore(j, Tail(job[k].storing), job[k].after)
    BY <1>6, <1>c, SaveFacts
  <2>2. job[k].pc = "save" /\ StoresNow(job[k])
    BY <1>6, <1>c, SaveFacts
  <2>3. /\ Stage(job[k]) = job[k].after
        /\ job[k].after \in {"append", "relate", "build", "reported", "exhausted",
                               "write", "writeEntry"}
    BY <1>c, <2>2, StoringFacts
  <2>4. /\ UNCHANGED <<cached, consumed, list, sent, related, reports>>
        /\ stored' = [stored EXCEPT ![Head(job[k].storing)] = @ + 1]
    BY <1>6 DEF Save
  <2>5. Stage(j) = Stage(job[k])
    BY <2>1, <2>3, WillStoreFacts
  <2>6. j.storing = Tail(job[k].storing) /\ j.pc \notin {"absent", "add", "mark", "save"}
    BY <2>1, <2>3 DEF WillStore
  <2> QED
    BY <2>1, <2>2, <2>4, <2>5, <2>6 DEF Shape, Stores
<1>7. CASE StartRelations(k)
  <2>1. PICK j : /\ Becomes(k, j)
                 /\ \/ Fails(j, k)
                    \/ WillStore(j, list[k[1]], NextNode(k, {}))
                    \/ \E answer : j.pc = NextNode(k, answer) /\ SameStore(j, job[k])
    BY <1>7, <1>c, StartRelationsFacts
  <2>2. job[k].pc = "relation" /\ ~StoresNow(job[k])
    BY <1>7, <1>c, StartRelationsFacts DEF StoresNow
  <2>3. UNCHANGED <<cached, consumed, list, sent, stored, related, reports>>
    BY <1>7 DEF StartRelations
  <2>4. CASE Fails(j, k)
    BY <2>1, <2>2, <2>3, <2>4, FailsShape
  <2>5. CASE WillStore(j, list[k[1]], NextNode(k, {}))
    <3>1. NextNode(k, {}) \in {"reported", "build"}
      BY NextNodeIs
    <3>2. Stage(j) = NextNode(k, {}) /\ j.pc \notin {"mark", "save"} /\ j.storing = list[k[1]]
      BY <2>5, <3>1, WillStoreFacts DEF WillStore
    <3>3. Plain(j)
      BY <1>b, <2>1, <3>1, <3>2, PlainFacts
    <3> QED
      BY <1>d, <1>e, <2>1, <2>2, <2>3, <3>2, <3>3 DEF Shape, Starts
  <2>6. ASSUME NEW answer, j.pc = NextNode(k, answer), SameStore(j, job[k])
        PROVE  Shape(k, j)
    <3>1. NextNode(k, answer) \in {"relate", "reported", "build"}
      BY NextNodeIs
    <3>2. Stage(j) = j.pc /\ j.storing = <<>>
      BY <1>d, <2>2, <2>6, <3>1 DEF Stage, StoresNow, SameStore
    <3>3. Plain(j)
      BY <1>b, <2>1, <2>6, <3>1, <3>2, PlainFacts
    <3> QED
      BY <1>d, <1>e, <2>2, <2>3, <2>6, <3>1, <3>2, <3>3 DEF Shape, Walks
  <2> QED
    BY <2>1, <2>4, <2>5, <2>6
<1>7a. CASE Claim(k)
  <2>1. PICK j : Becomes(k, j) /\ j.pc = "record" /\ SameStore(j, job[k])
    BY <1>7a, <1>c, ClaimFacts
  <2>2. job[k].pc = "claim" /\ ~StoresNow(job[k])
    BY <1>7a, <1>c, ClaimFacts DEF StoresNow
  <2>3. UNCHANGED <<cached, consumed, list, sent, stored, related, reports>>
    BY <1>7a DEF Claim
  <2>4. Stage(j) = j.pc /\ j.storing = <<>>
    BY <1>d, <2>1, <2>2 DEF Stage, StoresNow, SameStore
  <2>5. Plain(j)
    BY <1>b, <2>1, <2>4, PlainFacts
  <2> QED
    BY <1>d, <1>e, <2>1, <2>2, <2>3, <2>4, <2>5 DEF Shape, Walks
<1>8. CASE StoreRelation(k)
  <2>1. PICK j : Becomes(k, j) /\ WillStore(j, list[k[1]], NextNode(k, job[k].unvisited))
    BY <1>8, <1>c, StoreRelationFacts
  <2>2. job[k].pc = "record" /\ ~StoresNow(job[k])
    BY <1>8, <1>c, StoreRelationFacts DEF StoresNow
  <2>3. UNCHANGED <<cached, consumed, list, sent, stored, reports>>
    BY <1>8 DEF StoreRelation
  <2>4. \A n \in Node : Range(related'[n]) \subseteq Range(related[n]) \cup {k[1]}
    <3> SUFFICES ASSUME NEW n \in Node PROVE Range(related'[n]) \subseteq Range(related[n]) \cup {k[1]}
      OBVIOUS
    <3>1. related'[n] = Append(related[n], k[1]) \/ related'[n] = related[n]
      BY <1>8 DEF StoreRelation
    <3>2. related[n] \in Seq(Traces)
      BY <1>c, TypeIs
    <3>3. Range(Append(related[n], k[1])) = Range(related[n]) \cup {k[1]}
      BY <1>a, <3>2, AppendFacts
    <3> QED
      BY <3>1, <3>3
  <2>5. NextNode(k, job[k].unvisited) \in {"relate", "reported", "build"}
    BY NextNodeIs
  <2>6. Stage(j) = NextNode(k, job[k].unvisited) /\ j.pc \notin {"mark", "save"} /\ j.storing = list[k[1]]
    BY <2>1, <2>5, WillStoreFacts DEF WillStore
  <2>7. Plain(j)
    BY <1>b, <2>1, <2>5, <2>6, PlainFacts
  <2> QED
    BY <1>d, <1>e, <2>1, <2>2, <2>3, <2>4, <2>6, <2>7 DEF Shape, Starts
<1>9. ASSUME NEW n \in Node, LookUpNode(k, n) PROVE \E j : Becomes(k, j) /\ Shape(k, j)
  <2>1. PICK j : /\ Becomes(k, j) /\ SameStore(j, job[k])
                 /\ j.pc = NextNode(k, j.unvisited) \/ j.pc = "claim"
    BY <1>9, <1>c, LookUpNodeFacts
  <2>2. job[k].pc = "relate" /\ ~StoresNow(job[k])
    BY <1>9, <1>c, LookUpNodeFacts DEF StoresNow
  <2>3. UNCHANGED <<cached, consumed, list, sent, stored, related, reports>>
    BY <1>9 DEF LookUpNode
  <2>4. j.pc \in {"relate", "reported", "build", "claim"}
    BY <2>1, NextNodeIs
  <2>5. Stage(j) = j.pc /\ j.storing = <<>>
    BY <1>d, <2>1, <2>2, <2>4 DEF Stage, StoresNow, SameStore
  <2>6. Plain(j)
    BY <1>b, <2>1, <2>4, <2>5, PlainFacts
  <2> QED
    BY <1>d, <1>e, <2>1, <2>2, <2>3, <2>4, <2>5, <2>6 DEF Shape, Walks
<1>10. CASE BuildSingle(k)
  <2>1. PICK j : /\ Becomes(k, j)
                 /\ \/ Fails(j, k)
                    \/ j.pc = "fatal" /\ Fresh(j)
                    \/ WillStore(j, list[k[1]], "write")
    BY <1>10, <1>c, BuildSingleFacts
  <2>2. job[k].pc = "build" /\ ~StoresNow(job[k])
    BY <1>10, <1>c, BuildSingleFacts DEF StoresNow
  <2>3. UNCHANGED <<cached, consumed, list, sent, stored, related, reports>>
    BY <1>10 DEF BuildSingle
  <2>4. CASE Fails(j, k)
    BY <2>1, <2>2, <2>3, <2>4, FailsShape
  <2>5. CASE WillStore(j, list[k[1]], "write")
    <3>1. Stage(j) = "write" /\ j.pc \notin {"mark", "save"} /\ j.storing = list[k[1]]
      BY <2>5, WillStoreFacts DEF WillStore
    <3>2. Plain(j)
      BY <1>b, <2>1, <3>1, PlainFacts
    <3> QED
      BY <1>d, <1>e, <2>1, <2>2, <2>3, <3>1, <3>2 DEF Shape, Starts
  <2>6. CASE j.pc = "fatal" /\ Fresh(j)
    <3>1. Stage(j) = "fatal" /\ j.storing = <<>>
      BY <2>6 DEF Stage, StoresNow, Fresh
    <3>2. Plain(j)
      BY <1>b, <2>1, <2>6, <3>1, PlainFacts
    <3> QED
      BY <1>d, <1>e, <2>1, <2>2, <2>3, <3>1, <3>2 DEF Shape, Walks
  <2> QED
    BY <2>1, <2>4, <2>5, <2>6
<1>11. CASE BuildMulti(k)
  <2>1. PICK j : /\ Becomes(k, j)
                 /\ \/ Fails(j, k)
                    \/ j.pc = "entries" /\ Fresh(j)
    BY <1>11, <1>c, BuildMultiFacts
  <2>2. job[k].pc = "build" /\ ~StoresNow(job[k])
    BY <1>11, <1>c, BuildMultiFacts DEF StoresNow
  <2>3. UNCHANGED <<cached, consumed, list, sent, stored, related, reports>>
    BY <1>11 DEF BuildMulti
  <2>4. CASE Fails(j, k)
    BY <2>1, <2>2, <2>3, <2>4, FailsShape
  <2>5. CASE j.pc = "entries" /\ Fresh(j)
    <3>1. Stage(j) = "entries" /\ j.storing = <<>>
      BY <2>5 DEF Stage, StoresNow, Fresh
    <3>2. Plain(j)
      BY <1>b, <2>1, <2>5, <3>1, PlainFacts
    <3> QED
      BY <1>d, <1>e, <2>1, <2>2, <2>3, <3>1, <3>2 DEF Shape, Walks
  <2> QED
    BY <2>1, <2>4, <2>5
<1>12. CASE Entry(k)
  <2>1. PICK j : /\ Becomes(k, j)
                 /\ \/ j.pc = "reported" /\ SameStore(j, job[k])
                    \/ WillStore(j, list[k[1]], "writeEntry")
    BY <1>12, <1>c, EntryFacts
  <2>2. job[k].pc = "entries" /\ ~StoresNow(job[k])
    BY <1>12, <1>c, EntryFacts DEF StoresNow
  <2>3. UNCHANGED <<cached, consumed, list, sent, stored, related, reports>>
    BY <1>12 DEF Entry
  <2>4. CASE WillStore(j, list[k[1]], "writeEntry")
    <3>1. Stage(j) = "writeEntry" /\ j.pc \notin {"mark", "save"} /\ j.storing = list[k[1]]
      BY <2>4, WillStoreFacts DEF WillStore
    <3>2. Plain(j)
      BY <1>b, <2>1, <3>1, PlainFacts
    <3> QED
      BY <1>d, <1>e, <2>1, <2>2, <2>3, <3>1, <3>2 DEF Shape, Starts
  <2>5. CASE j.pc = "reported" /\ SameStore(j, job[k])
    <3>1. Stage(j) = "reported" /\ j.storing = <<>>
      BY <1>d, <2>2, <2>5 DEF Stage, StoresNow, SameStore
    <3>2. Plain(j)
      BY <1>b, <2>1, <2>5, <3>1, PlainFacts
    <3> QED
      BY <1>d, <1>e, <2>1, <2>2, <2>3, <3>1, <3>2 DEF Shape, Walks
  <2> QED
    BY <2>1, <2>4, <2>5
<1>13. CASE Write(k)
  <2>1. PICK j : /\ Becomes(k, j) /\ SameStore(j, job[k])
                 /\ j.pc = IF job[k].pc = "write" THEN "reported" ELSE "entries"
    BY <1>13, <1>c, WriteFacts
  <2>2. job[k].pc \in {"write", "writeEntry"} /\ ~StoresNow(job[k])
    BY <1>13, <1>c, WriteFacts DEF StoresNow
  <2>3. /\ UNCHANGED <<cached, consumed, list, sent, stored, related>>
        /\ reports' = [reports EXCEPT ![k] = @ + 1]
    BY <1>13 DEF Write
  <2>4. Stage(j) = j.pc /\ j.storing = <<>>
    BY <1>d, <2>1, <2>2 DEF Stage, StoresNow, SameStore
  <2>5. Plain(j)
    BY <1>b, <2>1, <2>4, PlainFacts
  <2> QED
    BY <1>d, <1>e, <2>1, <2>2, <2>3, <2>4, <2>5 DEF Shape, Walks
<1> QED
  BY <1>1, <1>2, <1>3, <1>4, <1>5, <1>5a, <1>6, <1>7, <1>7a, <1>8, <1>9, <1>10,
     <1>11, <1>12, <1>13 DEF ProcessTask

-----------------------------------------------------------------------------
(* The spans in the cache, the lists and the tasks of a trace are its own. *)

Owned(objects, t) == \A o \in objects : TraceOf[o.span] = t

OwnInv ==
  /\ \A t \in Traces : IsInjective(cached[t]) /\ \A s \in Range(cached[t]) : TraceOf[s] = t
  /\ \A t \in Traces : Owned(Range(list[t]), t)
  /\ \A k \in Task : /\ job[k].pc = "add" => Owned(Range(job[k].seen), k[1])
                     /\ Owned(Range(job[k].storing), k[1]) /\ Owned(job[k].adding, k[1])
                     /\ \A s \in Range(job[k].merging) : TraceOf[s] = k[1]

LEMMA NothingInIt == Range(<<>>) = {}
BY DEF Range

LEMMA OwnInit == Init => OwnInv
<1> SUFFICES ASSUME Init PROVE OwnInv
  OBVIOUS
<1>1. \A t \in Traces : cached[t] = <<>> /\ list[t] = <<>>
  BY DEF Init
<1>2. \A k \in Task : /\ job[k].pc = "absent" /\ job[k].storing = <<>>
                      /\ job[k].adding = {} /\ job[k].merging = <<>>
  BY IdleFacts DEF Init, Fresh
<1>3. IsInjective(<<>>)
  BY DEF IsInjective
<1> QED
  BY <1>1, <1>2, <1>3, NothingInIt DEF OwnInv, Owned

\* What Consume loads.
LEMMA LoadedFacts ==
  ASSUME Typed, NEW t \in Traces, Consume(t)
  PROVE  /\ \A u \in Traces : u # t => list'[u] = list[u]
         /\ Range(list'[t]) = {[span |-> s, by |-> "consume"] : s \in Range(cached[t])}
         /\ sent' = sent \cup {[span |-> s, by |-> "consume"] : s \in Range(cached[t]) \cap ProfiledSpan}
         /\ \A o \in Object : stored'[o] = stored[o] +
              (IF o.span \in Range(cached[t]) \cap ProfiledSpan /\ o.by = "consume" THEN 1 ELSE 0)
         /\ \A k \in Task : \/ k[1] = t /\ job'[k].pc = "queued" /\ Fresh(job'[k])
                            \/ job'[k] = job[k]
<1>0. /\ list \in [Traces -> Seq(Object)] /\ cached[t] \in Seq(Span)
      /\ TypeOK
  BY TypeIs DEF Typed
<1> DEFINE new == [i \in DOMAIN cached[t] |-> [span |-> cached[t][i], by |-> "consume"]]
           due == {[span |-> s, by |-> "consume"] : s \in Range(cached[t]) \cap ProfiledSpan}
<1>1. list' = [list EXCEPT ![t] = new]
  BY DEF Consume
<1>2. Range(new) = {[span |-> s, by |-> "consume"] : s \in Range(cached[t])}
  BY DEF Range
<1>3. list'[t] = new /\ \A u \in Traces : u # t => list'[u] = list[u]
  <2> HIDE DEF new
  <2> QED
    BY <1>0, <1>1
<1>4. sent' = sent \cup due /\ stored' = [o \in Object |-> stored[o] + (IF o \in due THEN 1 ELSE 0)]
  BY DEF Consume
<1>5. ASSUME NEW o \in Object
      PROVE  o \in due <=> o.span \in Range(cached[t]) \cap ProfiledSpan /\ o.by = "consume"
  <2>1. o = [span |-> o.span, by |-> o.by]
    BY DEF Object
  <2> QED
    BY <2>1
<1>6. \A k \in Task : \/ k[1] = t /\ job'[k].pc = "queued" /\ Fresh(job'[k])
                      \/ job'[k] = job[k]
  BY <1>0, ConsumeFacts
<1>7. \A o \in Object : stored'[o] = stored[o] + (IF o \in due THEN 1 ELSE 0)
  <2> HIDE DEF due
  <2> QED
    BY <1>4
<1> HIDE DEF new, due
<1> QED
  BY <1>2, <1>3, <1>4, <1>5, <1>6, <1>7 DEF due

\* A span that arrives.
LEMMA ArriveFacts ==
  ASSUME Typed, NEW s \in Span, Arrive(s)
  PROVE  /\ \A t \in Traces : t # TraceOf[s] => cached'[t] = cached[t]
         /\ cached'[TraceOf[s]] = Append(cached[TraceOf[s]], s)
         /\ Range(cached'[TraceOf[s]]) = Range(cached[TraceOf[s]]) \cup {s}
         /\ IsInjective(cached[TraceOf[s]]) => IsInjective(cached'[TraceOf[s]])
         /\ UNCHANGED <<list, sent, stored, job, consumed, related, reports>>
<1>1. TraceOf[s] \in Traces /\ cached \in [Traces -> Seq(Span)] /\ cached[TraceOf[s]] \in Seq(Span)
  BY TypeIs DEF Typed
<1>2. /\ s \notin Range(cached[TraceOf[s]])
      /\ cached' = [cached EXCEPT ![TraceOf[s]] = Append(@, s)]
      /\ UNCHANGED <<list, sent, stored, job, consumed, related, reports>>
  BY DEF Arrive, listVars, rowVars
<1>3. /\ cached'[TraceOf[s]] = Append(cached[TraceOf[s]], s)
      /\ \A t \in Traces : t # TraceOf[s] => cached'[t] = cached[t]
  BY <1>1, <1>2
<1> QED
  BY <1>1, <1>2, <1>3, AppendFacts

\* The sequences a step reads are of the right type.
LEMMA JobSeqs ==
  ASSUME Typed, NEW k \in Task
  PROVE  /\ job[k].merging \in Seq(Span) /\ job[k].adding \subseteq Object
         /\ job[k].seen \in Seq(Object) /\ job[k].storing \in Seq(Object)
         /\ list[k[1]] \in Seq(Object) /\ cached[k[1]] \in Seq(Span)
         /\ job[k] \in JobType /\ list \in [Traces -> Seq(Object)] /\ k[1] \in Traces
BY TypeIs, TaskIs DEF Typed, JobType

\* The list of a merge grows by the object added.
LEMMA AddedFacts ==
  ASSUME Typed, NEW k \in Task, NEW new \in job[k].adding,
         list' = [list EXCEPT ![k[1]] = Append(job[k].seen, new)]
  PROVE  /\ \A t \in Traces : t # k[1] => list'[t] = list[t]
         /\ list'[k[1]] = Append(job[k].seen, new)
         /\ Range(list'[k[1]]) = Range(job[k].seen) \cup {new}
<1>1. /\ job[k].seen \in Seq(Object) /\ new \in Object /\ k[1] \in Traces
      /\ list \in [Traces -> Seq(Object)]
  BY JobSeqs
<1>2. list'[k[1]] = Append(job[k].seen, new)
  BY <1>1
<1> QED
  BY <1>1, <1>2, AppendFacts

LEMMA OwnStep == Typed /\ Typed' /\ OwnInv /\ [Next]_vars => OwnInv'
<1> SUFFICES ASSUME Typed, Typed', OwnInv, [Next]_vars PROVE OwnInv'
  OBVIOUS
<1>1. CASE UNCHANGED vars
  BY <1>1 DEF vars, OwnInv, Owned, listVars, cacheVars
<1>2. ASSUME NEW s \in Span, Arrive(s) PROVE OwnInv'
  BY <1>2, ArriveFacts DEF OwnInv, Owned
<1>3. ASSUME NEW t \in Traces, Consume(t) PROVE OwnInv'
  <2>1. UNCHANGED cached
    BY <1>3 DEF Consume, cacheVars
  <2>2. /\ \A u \in Traces : u # t => list'[u] = list[u]
        /\ Range(list'[t]) = {[span |-> s, by |-> "consume"] : s \in Range(cached[t])}
        /\ \A k \in Task : \/ job'[k].pc = "queued" /\ Fresh(job'[k])
                           \/ job'[k] = job[k]
    BY <1>3, LoadedFacts
  <2>3. Owned(Range(list'[t]), t)
    BY <2>2 DEF OwnInv, Owned
  <2> QED
    BY <2>1, <2>2, <2>3, NothingInIt DEF OwnInv, Owned, Fresh
<1>4. ASSUME NEW k \in Task, Begin(k) \/ ProcessTask(k) PROVE OwnInv'
  <2>1. PICK j : Becomes(k, j) /\ Shape(k, j)
    BY <1>4, Shapes
  <2>2. /\ job[k].pc = "add" => Owned(Range(job[k].seen), k[1])
        /\ Owned(Range(job[k].storing), k[1]) /\ Owned(job[k].adding, k[1])
        /\ \A s \in Range(job[k].merging) : TraceOf[s] = k[1]
        /\ Owned(Range(list[k[1]]), k[1]) /\ k[1] \in Traces
        /\ \A s \in Range(cached[k[1]]) : TraceOf[s] = k[1]
    BY TaskIs DEF OwnInv
  <2>3. UNCHANGED cached
    BY <2>1 DEF Shape, Walks, Starts, Stores, Reads, MergesOn
  <2>4. ASSUME NEW spans \in Seq(Span), Joins(j, spans), \A s \in Range(spans) : TraceOf[s] = k[1]
        PROVE  /\ Owned(Range(j.storing), k[1]) /\ Owned(j.adding, k[1])
               /\ \A s \in Range(j.merging) : TraceOf[s] = k[1]
    <3>1. CASE spans = <<>>
      BY <2>4, <3>1, NothingInIt DEF Joins, Owned
    <3>2. CASE spans # <<>>
      <4>1. PICK new \in Object :
              /\ new.span = Head(spans) /\ j.merging = Tail(spans)
              /\ j.adding = {new} /\ j.storing \in {<<>>, <<new>>}
        BY <2>4, <3>2 DEF Joins
      <4>2. Head(spans) \in Range(spans) /\ Range(Tail(spans)) \subseteq Range(spans)
        BY <3>2, TailFacts
      <4>3. Range(<<new>>) = {new}
        BY DEF Range
      <4> QED
        BY <2>4, <4>1, <4>2, <4>3, NothingInIt DEF Owned
    <3> QED
      BY <3>1, <3>2
  <2>5. /\ j.pc = "add" => Owned(Range(j.seen), k[1])
        /\ Owned(Range(j.storing), k[1]) /\ Owned(j.adding, k[1])
        /\ \A s \in Range(j.merging) : TraceOf[s] = k[1]
    <3>1. CASE Walks(k, j) \/ Starts(k, j)
      BY <2>2, <3>1, NothingInIt DEF Walks, Starts, Plain, Owned
    <3>2. CASE Stores(k, j)
      <4>1. Range(Tail(job[k].storing)) \subseteq Range(job[k].storing)
        BY <3>2, StoringFacts DEF Stores, Typed
      <4> QED
        BY <2>2, <3>2, <4>1 DEF Stores, SameMerge, Owned
    <3>3. CASE Reads(k, j)
      BY <2>2, <3>3, NothingInIt DEF Reads, Owned
    <3>4. CASE MergesOn(k, j) /\ job[k].pc = "load"
      <4>1. NewSpans(k) \in Seq(Span) /\ Range(NewSpans(k)) \subseteq Range(cached[k[1]])
        BY NewSpansFacts DEF Typed
      <4> QED
        BY <2>2, <2>4, <3>4, <4>1 DEF MergesOn
    <3>5. CASE MergesOn(k, j) /\ job[k].pc = "add"
      BY <2>2, <2>4, <3>5, JobSeqs DEF MergesOn
    <3> QED
      BY <2>1, <3>1, <3>2, <3>3, <3>4, <3>5 DEF Shape, MergesOn
  <2>6. \A t \in Traces : Owned(Range(list'[t]), t)
    <3>1. CASE list' = list
      BY <3>1 DEF OwnInv
    <3>2. CASE MergesOn(k, j) /\ job[k].pc = "add"
      <4>1. PICK new \in job[k].adding : list' = [list EXCEPT ![k[1]] = Append(job[k].seen, new)]
        BY <3>2 DEF MergesOn
      <4>2. /\ \A t \in Traces : t # k[1] => list'[t] = list[t]
            /\ Range(list'[k[1]]) = Range(job[k].seen) \cup {new}
        BY <4>1, AddedFacts
      <4> QED
        BY <2>2, <3>2, <4>2 DEF OwnInv, Owned
    <3> QED
      BY <2>1, <3>1, <3>2 DEF Shape, Walks, Starts, Stores, Reads, MergesOn
  <2> QED
    BY <2>1, <2>3, <2>5, <2>6 DEF OwnInv, Becomes
<1> QED
  BY <1>1, <1>2, <1>3, <1>4 DEF Next

-----------------------------------------------------------------------------
(* An object is stored at most once by each task.                          *)

Savers(o) == {k \in Task : job[k].pc \in {"mark", "save"} /\ Head(job[k].storing) = o}
Writers(o) == {k \in Task : job[k].pc = "save" /\ Head(job[k].storing) = o}

\* Each task that has stored an object, or is about to, counts; a marked object is
\* stored or a task is about to.
CountInv ==
  \A o \in Object :
    /\ o \in sent <=> stored[o] > 0 \/ Writers(o) # {}
    /\ stored[o] + Cardinality(Savers(o)) <= Cardinality(TasksOf(TraceOf[o.span]))

LEMMA FewTasks ==
  ASSUME NEW t \in Traces
  PROVE  IsFiniteSet({k \in Task : k[1] = t})
<1> DEFINE three == (({} \cup {<<t, "slow">>}) \cup {<<t, "error">>}) \cup {<<t, "normal">>}
<1>1. IsFiniteSet({} \cup {<<t, "slow">>})
  BY FS_EmptySet, FS_AddElement
<1>2. IsFiniteSet(({} \cup {<<t, "slow">>}) \cup {<<t, "error">>})
  BY <1>1, FS_AddElement
<1>3. IsFiniteSet(three)
  BY <1>2, FS_AddElement
<1>4. {k \in Task : k[1] = t} \in SUBSET three
  BY DEF Task, ReportType
<1> HIDE DEF three
<1> QED
  BY <1>3, <1>4, FS_Subset

LEMMA TasksCounted ==
  ASSUME NEW t \in Traces
  PROVE  /\ IsFiniteSet(TasksOf(t)) /\ Cardinality(TasksOf(t)) \in Nat
         /\ \A S \in SUBSET TasksOf(t) : /\ IsFiniteSet(S) /\ Cardinality(S) \in Nat
                                         /\ Cardinality(S) <= Cardinality(TasksOf(t))
<1>1. TasksOf(t) \in SUBSET {k \in Task : k[1] = t}
  BY DEF TasksOf
<1>2. IsFiniteSet(TasksOf(t))
  BY <1>1, FewTasks, FS_Subset
<1> QED
  BY <1>2, FS_Subset, FS_CardinalityType

\* Who is about to store an object is a task of its trace.
LEMMA SaversOwn ==
  ASSUME Typed, OwnInv, NEW o \in Object
  PROVE  /\ TraceOf[o.span] \in Traces
         /\ Savers(o) \in SUBSET TasksOf(TraceOf[o.span])
         /\ IsFiniteSet(Savers(o)) /\ Cardinality(Savers(o)) \in Nat
         /\ Cardinality(Savers(o)) <= Cardinality(TasksOf(TraceOf[o.span]))
<1>1. TraceOf[o.span] \in Traces
  BY DEF Object
<1>2. ASSUME NEW k \in Savers(o) PROVE k \in TasksOf(TraceOf[o.span])
  <2>1. k \in Task /\ job[k].pc \in {"mark", "save"} /\ Head(job[k].storing) = o
    BY DEF Savers
  <2>2. StoresNow(job[k])
    BY <2>1 DEF StoresNow
  <2>3. o \in Range(job[k].storing)
    BY <2>1, <2>2, StoringFacts DEF Typed
  <2>4. TraceOf[o.span] = k[1]
    BY <2>1, <2>3 DEF OwnInv, Owned
  <2> QED
    BY <2>1, <2>4 DEF TasksOf, pc
<1>3. Savers(o) \in SUBSET TasksOf(TraceOf[o.span])
  BY <1>2
<1> QED
  BY <1>1, <1>3, TasksCounted

FewSavers == \A o \in Object : /\ Cardinality(Savers(o)) \in Nat
                              /\ Cardinality(Savers(o)) <= Cardinality(TasksOf(TraceOf[o.span]))

LEMMA SaversFew == Typed /\ OwnInv => FewSavers
BY SaversOwn DEF FewSavers

LEMMA CountInit == Init => CountInv
<1> SUFFICES ASSUME Init, NEW o \in Object
             PROVE  /\ o \in sent <=> stored[o] > 0 \/ Writers(o) # {}
                    /\ stored[o] + Cardinality(Savers(o)) <= Cardinality(TasksOf(TraceOf[o.span]))
  BY DEF CountInv
<1>1. sent = {} /\ stored[o] = 0
  BY DEF Init
<1>2. \A k \in Task : job[k].pc = "absent"
  BY IdleFacts DEF Init
<1>3. Savers(o) = {} /\ Writers(o) = {}
  BY <1>2 DEF Savers, Writers
<1>4. Cardinality(Savers(o)) = 0
  BY <1>3, FS_EmptySet
<1>5. TraceOf[o.span] \in Traces
  BY DEF Object
<1>6. Cardinality(TasksOf(TraceOf[o.span])) \in Nat
  BY <1>5, TasksCounted
<1> QED
  BY <1>1, <1>3, <1>4, <1>6

LEMMA KindsFacts == \A S : Kinds(S) # {} /\ Kinds(S) \subseteq ReportType
BY DEF Kinds, ReportType

\* Consume: the tasks of a trace are as many as before, or some.
LEMMA CountConsume ==
  ASSUME Typed, Typed', OwnInv, OwnInv', VerdictInv, CountInv, NEW t \in Traces, Consume(t)
  PROVE  CountInv'
<1> SUFFICES ASSUME NEW o \in Object
             PROVE  /\ o \in sent' <=> stored'[o] > 0 \/ Writers(o)' # {}
                    /\ stored'[o] + Cardinality(Savers(o)') <= Cardinality(TasksOf(TraceOf[o.span])')
  BY DEF CountInv
<1> DEFINE due == o.span \in Range(cached[t]) \cap ProfiledSpan /\ o.by = "consume"
<1>0. TraceOf[o.span] \in Traces /\ stored[o] \in Nat
  BY TypeIs DEF Object, Typed
<1>1. /\ sent' = sent \cup {[span |-> s, by |-> "consume"] : s \in Range(cached[t]) \cap ProfiledSpan}
      /\ stored'[o] = stored[o] + (IF due THEN 1 ELSE 0)
      /\ \A k \in Task : \/ k[1] = t /\ job'[k].pc = "queued" /\ Fresh(job'[k])
                         \/ job'[k] = job[k]
  BY LoadedFacts
<1>2. o \in sent' <=> o \in sent \/ due
  <2>1. o = [span |-> o.span, by |-> o.by]
    BY DEF Object
  <2> QED
    BY <1>1, <2>1
<1>3. due => TraceOf[o.span] = t
  BY DEF OwnInv
<1>4. /\ o \in sent <=> stored[o] > 0 \/ Writers(o) # {}
      /\ stored[o] + Cardinality(Savers(o)) <= Cardinality(TasksOf(TraceOf[o.span]))
  BY DEF CountInv
<1>5. \A k \in Task : k[1] = t => job[k].pc = "absent" /\ TasksOf(t) = {}
  BY ConsumeFacts, AbsentFirst DEF Typed
<1>6. Savers(o)' = Savers(o) /\ Writers(o)' = Writers(o)
  <2>1. ASSUME NEW k \in Task
        PROVE  /\ job'[k].pc \in {"mark", "save"} /\ Head(job'[k].storing) = o
                  <=> job[k].pc \in {"mark", "save"} /\ Head(job[k].storing) = o
               /\ job'[k].pc = "save" /\ Head(job'[k].storing) = o
                  <=> job[k].pc = "save" /\ Head(job[k].storing) = o
    <3>1. CASE job'[k] = job[k]
      BY <3>1
    <3>2. CASE k[1] = t /\ job'[k].pc = "queued"
      BY <1>5, <3>2
    <3> QED
      BY <1>1, <3>1, <3>2
  <2> QED
    BY <2>1 DEF Savers, Writers
<1>7. CASE TraceOf[o.span] # t
  <2>1. TasksOf(TraceOf[o.span])' = TasksOf(TraceOf[o.span])
    BY <1>1, <1>7 DEF TasksOf, pc
  <2> QED
    BY <1>0, <1>1, <1>2, <1>3, <1>4, <1>6, <1>7, <2>1
<1>8. CASE TraceOf[o.span] = t
  <2>1. consumed[t] = {}
    BY ConsumeFacts DEF Typed
  <2>2. TasksOf(t) = {}
    BY <2>1, AbsentFirst
  <2>3. Cardinality(TasksOf(t)) = 0 /\ Cardinality(Savers(o)) \in Nat
    BY <2>2, FS_EmptySet, SaversOwn
  <2>4. stored[o] = 0 /\ Cardinality(Savers(o)) = 0
    BY <1>0, <1>4, <1>8, <2>3
  <2>5. PICK kind \in ReportType : kind \in Kinds(consumed'[t])
    BY KindsFacts
  <2>6. <<t, kind>> \in Task /\ <<t, kind>>[1] = t /\ <<t, kind>>[2] = kind
    BY DEF Task
  <2>7. job'[<<t, kind>>].pc = "queued"
    BY <2>5, <2>6, ConsumeFacts DEF Typed
  <2>8. <<t, kind>> \in TasksOf(t)'
    BY <2>6, <2>7 DEF TasksOf, pc
  <2>9. IsFiniteSet(TasksOf(t)') /\ Cardinality(TasksOf(t)') \in Nat
    <3>1. TasksOf(t)' \in SUBSET {k \in Task : k[1] = t}
      BY DEF TasksOf
    <3> QED
      BY <3>1, FewTasks, FS_Subset, FS_CardinalityType
  <2>10. Cardinality(TasksOf(t)') # 0
    BY <2>8, <2>9, FS_EmptySet
  <2> QED
    BY <1>1, <1>2, <1>4, <1>6, <1>8, <2>4, <2>9, <2>10
<1> QED
  BY <1>7, <1>8

\* A step that stores nothing and is not about to.
LEMMA CountSame ==
  ASSUME CountInv, NEW k \in Task, NEW j, Becomes(k, j), UNCHANGED <<sent, stored>>,
         job[k].pc \notin {"mark", "save", "absent"}, j.pc \notin {"mark", "save", "absent"}
  PROVE  CountInv'
<1>1. \A o \in Object : Savers(o)' = Savers(o) /\ Writers(o)' = Writers(o)
  BY DEF Savers, Writers, Becomes
<1>2. \A t \in Traces : TasksOf(t)' = TasksOf(t)
  BY DEF TasksOf, Becomes, pc
<1>3. \A o \in Object : TraceOf[o.span] \in Traces
  BY DEF Object
<1> QED
  BY <1>1, <1>2, <1>3 DEF CountInv

LEMMA CountStores ==
  ASSUME Typed, Typed', OwnInv, OwnInv', CountInv,
         NEW k \in Task, NEW j, Becomes(k, j), Stores(k, j)
  PROVE  CountInv'
<1>a. /\ Head(job[k].storing) \in Object /\ job[k].pc # "absent" /\ j.pc # "absent"
      /\ stored \in [Object -> Nat]
  BY StoringFacts, TypeIs DEF Stores, StoresNow, Typed
<1>b. PICK it \in Object : it = Head(job[k].storing)
  BY <1>a
<1>0. job[k].pc # "absent" /\ j.pc # "absent" /\ stored \in [Object -> Nat]
  BY <1>a
<1>1. \A t \in Traces : TasksOf(t)' = TasksOf(t)
  BY <1>0 DEF TasksOf, Becomes, pc
<1>2. \A o \in Object : TraceOf[o.span] \in Traces
  BY DEF Object
<1>3. CASE job[k].pc = "store" /\ j.pc \notin {"mark", "save"} /\ UNCHANGED <<sent, stored>>
  BY <1>0, <1>3, CountSame
<1>4. CASE /\ job[k].pc = "store" /\ it \notin sent /\ j.pc = "mark"
           /\ j.storing = job[k].storing /\ UNCHANGED <<sent, stored>>
  <2>1. /\ \A o \in Object : o # it => Savers(o)' = Savers(o)
        /\ \A o \in Object : Writers(o)' = Writers(o)
    BY <1>4, <1>b DEF Savers, Writers, Becomes
  <2>2. stored[it] = 0
    BY <1>0, <1>4 DEF CountInv
  <2>3. \A o \in Object : /\ Cardinality(Savers(o)') \in Nat
                          /\ Cardinality(Savers(o)') <= Cardinality(TasksOf(TraceOf[o.span])')
    <3>1. FewSavers'
      BY SaversFew, PTL
    <3> QED
      BY <3>1 DEF FewSavers
  <2>4. ASSUME NEW o \in Object
        PROVE  /\ o \in sent' <=> stored'[o] > 0 \/ Writers(o)' # {}
               /\ stored'[o] + Cardinality(Savers(o)') <= Cardinality(TasksOf(TraceOf[o.span])')
    <3>0. o \in sent' <=> stored'[o] > 0 \/ Writers(o)' # {}
      BY <1>4, <2>1 DEF CountInv
    <3>1. CASE o = it
      BY <1>4, <2>2, <2>3, <3>0, <3>1
    <3>2. CASE o # it
      BY <1>1, <1>2, <1>4, <2>1, <3>0, <3>2 DEF CountInv
    <3> QED
      BY <3>1, <3>2
  <2> QED
    BY <2>4 DEF CountInv
<1>5. CASE /\ job[k].pc = "mark" /\ j.pc = "save" /\ j.storing = job[k].storing
           /\ sent' = sent \cup {it} /\ UNCHANGED stored
  <2>1. \A o \in Object : Savers(o)' = Savers(o)
    BY <1>5, <1>b DEF Savers, Becomes
  <2>2. \A o \in Object : o # it => Writers(o)' = Writers(o)
    BY <1>5, <1>b DEF Writers, Becomes
  <2>3. k \in Writers(it)'
    BY <1>5, <1>b DEF Writers, Becomes
  <2>4. ASSUME NEW o \in Object
        PROVE  /\ o \in sent' <=> stored'[o] > 0 \/ Writers(o)' # {}
               /\ stored'[o] + Cardinality(Savers(o)') <= Cardinality(TasksOf(TraceOf[o.span])')
    <3>1. o \in sent' <=> stored'[o] > 0 \/ Writers(o)' # {}
      BY <1>5, <2>2, <2>3 DEF CountInv
    <3> QED
      BY <1>1, <1>2, <1>5, <2>1, <3>1 DEF CountInv
  <2> QED
    BY <2>4 DEF CountInv
<1>6. CASE /\ job[k].pc = "save" /\ j.pc \notin {"mark", "save"}
           /\ UNCHANGED sent /\ stored' = [stored EXCEPT ![it] = @ + 1]
  <2>1. \A o \in Object : o # it => Savers(o)' = Savers(o) /\ Writers(o)' = Writers(o)
    BY <1>6, <1>b DEF Savers, Writers, Becomes
  <2>2. Savers(it)' = Savers(it) \ {k} /\ k \in Savers(it)
    BY <1>6, <1>b DEF Savers, Becomes
  <2>3. /\ IsFiniteSet(Savers(it)) /\ Cardinality(Savers(it)) \in Nat
        /\ Cardinality(TasksOf(TraceOf[it.span])) \in Nat
    BY <1>0, <1>2, SaversOwn, TasksCounted
  <2>4. Cardinality(Savers(it)') = Cardinality(Savers(it)) - 1
    BY <2>2, <2>3, FS_RemoveElement
  <2>5. stored'[it] = stored[it] + 1 /\ \A o \in Object : o # it => stored'[o] = stored[o]
    BY <1>0, <1>6
  <2>6. stored'[it] + Cardinality(Savers(it)') <= Cardinality(TasksOf(TraceOf[it.span])')
    <3>1. stored[it] + Cardinality(Savers(it)) <= Cardinality(TasksOf(TraceOf[it.span]))
      BY <1>0 DEF CountInv
    <3>2. TasksOf(TraceOf[it.span])' = TasksOf(TraceOf[it.span])
      BY <1>0, <1>1, <1>2
    <3>3. stored[it] \in Nat
      BY <1>0
    <3> QED
      BY <2>3, <2>4, <2>5, <3>1, <3>2, <3>3
  <2>7. it \in sent
    <3>1. k \in Writers(it)
      BY <1>6, <1>b DEF Writers
    <3> QED
      BY <3>1 DEF CountInv
  <2>8. ASSUME NEW o \in Object
        PROVE  /\ o \in sent' <=> stored'[o] > 0 \/ Writers(o)' # {}
               /\ stored'[o] + Cardinality(Savers(o)') <= Cardinality(TasksOf(TraceOf[o.span])')
    <3>1. CASE o = it
      <4>1. stored[it] \in Nat
        BY <1>0
      <4>2. stored'[it] > 0
        BY <2>5, <4>1
      <4> QED
        BY <1>6, <2>6, <2>7, <3>1, <4>2
    <3>2. CASE o # it
      <4>1. TasksOf(TraceOf[o.span])' = TasksOf(TraceOf[o.span])
        BY <1>1, <1>2
      <4> QED
        BY <1>6, <2>1, <2>5, <3>2, <4>1 DEF CountInv
    <3> QED
      BY <3>1, <3>2
  <2> QED
    BY <2>8 DEF CountInv
<1> QED
  BY <1>b, <1>3, <1>4, <1>5, <1>6 DEF Stores

LEMMA CountStep ==
  Typed /\ Typed' /\ OwnInv /\ OwnInv' /\ VerdictInv /\ CountInv /\ [Next]_vars => CountInv'
<1> SUFFICES ASSUME Typed, Typed', OwnInv, OwnInv', VerdictInv, CountInv, [Next]_vars
             PROVE  CountInv'
  OBVIOUS
<1>1. CASE UNCHANGED vars
  BY <1>1 DEF vars, CountInv, Savers, Writers, TasksOf, pc
<1>2. ASSUME NEW s \in Span, Arrive(s) PROVE CountInv'
  <2>1. UNCHANGED <<sent, stored, job>>
    BY <1>2, ArriveFacts
  <2> QED
    BY <2>1 DEF CountInv, Savers, Writers, TasksOf, pc
<1>3. ASSUME NEW t \in Traces, Consume(t) PROVE CountInv'
  BY <1>3, CountConsume
<1>4. ASSUME NEW k \in Task, Begin(k) \/ ProcessTask(k) PROVE CountInv'
  <2>1. PICK j : Becomes(k, j) /\ Shape(k, j)
    BY <1>4, Shapes
  <2>2. CASE Stores(k, j)
    BY <2>1, <2>2, CountStores
  <2>3. CASE Walks(k, j) \/ Starts(k, j)
    BY <2>1, <2>3, CountSame DEF Walks, Starts, Plain
  <2>4. CASE Reads(k, j) \/ MergesOn(k, j)
    BY <2>1, <2>4, CountSame DEF Reads, MergesOn
  <2> QED
    BY <2>1, <2>2, <2>3, <2>4 DEF Shape
<1> QED
  BY <1>1, <1>2, <1>3, <1>4 DEF Next

-----------------------------------------------------------------------------
(* A trace with one task has one object per span.                          *)

Alone(k) == job[k].pc # "absent" /\ \A q \in Task : q[1] = k[1] /\ q # k => job[q].pc = "absent"

\* The objects of a list l and of the merge of j are one per span, and those that
\* are stored, or were (S), are among them.
Apart(l, j, S, t) ==
  LET known == Range(l) \cup j.adding IN
  /\ \A a, b \in known : a.span = b.span => a = b
  /\ \A a, b \in j.adding : a = b
  /\ j.pc = "add" => j.seen = l
  /\ IsInjective(j.merging) /\ \A o \in known : o.span \notin Range(j.merging)
  /\ Range(j.storing) \subseteq known
  /\ \A o \in S : TraceOf[o.span] = t => o \in known

AloneInv == \A k \in Task : Alone(k) => Apart(list[k[1]], job[k], sent, k[1])

LEMMA EmptyInjective == IsInjective(<<>>)
BY DEF IsInjective

LEMMA AloneInit == Init => AloneInv
<1> SUFFICES ASSUME Init PROVE AloneInv
  OBVIOUS
<1>1. \A k \in Task : job[k].pc = "absent"
  BY IdleFacts DEF Init
<1> QED
  BY <1>1 DEF AloneInv, Alone

LEMMA AloneConsume ==
  ASSUME Typed, OwnInv, VerdictInv, CountInv, AloneInv, NEW t \in Traces, Consume(t)
  PROVE  AloneInv'
<1> SUFFICES ASSUME NEW k \in Task, Alone(k)' PROVE Apart(list'[k[1]], job'[k], sent', k[1])
  BY DEF AloneInv, Apart
<1> DEFINE Made(S) == {[span |-> s, by |-> "consume"] : s \in S}
<1>0. k[1] \in Traces
  BY TaskIs
<1>1. /\ \A u \in Traces : u # t => list'[u] = list[u]
      /\ Range(list'[t]) = Made(Range(cached[t]))
      /\ sent' = sent \cup Made(Range(cached[t]) \cap ProfiledSpan)
      /\ \A q \in Task : \/ q[1] = t /\ job'[q].pc = "queued" /\ Fresh(job'[q])
                         \/ job'[q] = job[q]
  BY LoadedFacts
<1>2. CASE k[1] # t
  <2>1. Alone(k)
    BY <1>1, <1>2 DEF Alone
  <2>2. Apart(list[k[1]], job[k], sent, k[1])
    BY <2>1 DEF AloneInv
  <2>3. \A o \in sent' : TraceOf[o.span] = k[1] => o \in sent
    BY <1>1, <1>2 DEF OwnInv
  <2>4. list'[k[1]] = list[k[1]] /\ job'[k] = job[k]
    BY <1>0, <1>1, <1>2
  <2> QED
    BY <2>2, <2>3, <2>4 DEF Apart
<1>3. CASE k[1] = t
  <2>1. consumed[t] = {}
    BY ConsumeFacts DEF Typed
  <2>2. TasksOf(t) = {} /\ job[k].pc = "absent"
    BY <1>3, <2>1, AbsentFirst
  <2>3. job'[k].pc = "queued" /\ Fresh(job'[k])
    BY <1>1, <2>2 DEF Alone
  <2>4. job'[k].adding = {} /\ job'[k].merging = <<>> /\ job'[k].storing = <<>>
    BY <2>3 DEF Fresh
  <2>5. ASSUME NEW o \in sent, TraceOf[o.span] = t PROVE FALSE
    <3>1. o \in Object /\ stored[o] \in Nat
      BY TypeIs DEF Typed
    <3>2. /\ stored[o] > 0 \/ Writers(o) # {}
          /\ stored[o] + Cardinality(Savers(o)) <= Cardinality(TasksOf(t))
      BY <2>5, <3>1 DEF CountInv
    <3>4. Writers(o) \subseteq TasksOf(t)
      <4>1. Writers(o) \subseteq Savers(o)
        BY DEF Writers, Savers
      <4> QED
        BY <2>5, <3>1, <4>1, SaversOwn
    <3>3. Cardinality(TasksOf(t)) = 0 /\ Cardinality(Savers(o)) \in Nat
      BY <2>2, <3>1, FS_EmptySet, SaversOwn
    <3> QED
      BY <2>2, <3>1, <3>2, <3>3, <3>4
  <2>6. \A o \in sent' : TraceOf[o.span] = t => o \in Range(list'[t])
    BY <1>1, <2>5
  <2>7. \A a, b \in Range(list'[t]) : a.span = b.span => a = b
    BY <1>1
  <2> QED
    BY <1>3, <2>3, <2>4, <2>6, <2>7, NothingInIt, EmptyInjective DEF Apart
<1> QED
  BY <1>2, <1>3

\* A step of k leaves the other traces alone.
LEMMA AloneNext ==
  ASSUME AloneInv, NEW k \in Task, NEW j, Becomes(k, j), job[k].pc # "absent", j.pc # "absent",
         \A t \in Traces : t # k[1] => list'[t] = list[t],
         \A o \in sent' : o \in sent \/ TraceOf[o.span] = k[1],
         Alone(k) => Apart(list'[k[1]], j, sent', k[1])
  PROVE  AloneInv'
<1> SUFFICES ASSUME NEW q \in Task, Alone(q)' PROVE Apart(list'[q[1]], job'[q], sent', q[1])
  BY DEF AloneInv, Apart
<1>1. CASE q = k
  <2>1. Alone(k)
    BY <1>1 DEF Alone, Becomes
  <2> QED
    BY <1>1, <2>1 DEF Becomes
<1>2. CASE q # k
  <2>1. q[1] # k[1]
    BY <1>2 DEF Alone, Becomes
  <2>2. Alone(q)
    BY <1>2, <2>1 DEF Alone, Becomes
  <2>3. Apart(list[q[1]], job[q], sent, q[1])
    BY <2>2 DEF AloneInv
  <2>4. list'[q[1]] = list[q[1]] /\ job'[q] = job[q]
    BY <1>2, <2>1, TaskIs DEF Becomes
  <2>5. \A o \in sent' : TraceOf[o.span] = q[1] => o \in sent
    BY <2>1
  <2> QED
    BY <2>3, <2>4, <2>5 DEF Apart
<1> QED
  BY <1>1, <1>2

\* A merge goes on with the objects of the list l and spans that are new to it.
LEMMA JoinsApart ==
  ASSUME NEW l, NEW j, NEW S, NEW t, NEW spans \in Seq(Span), Joins(j, spans), j.pc # "add",
         \A a, b \in Range(l) : a.span = b.span => a = b,
         IsInjective(spans), \A o \in Range(l) : o.span \notin Range(spans),
         \A o \in S : TraceOf[o.span] = t => o \in Range(l)
  PROVE  Apart(l, j, S, t)
<1>1. CASE spans = <<>> /\ j.adding = {} /\ j.merging = <<>> /\ j.storing = <<>>
  BY <1>1, NothingInIt, EmptyInjective DEF Apart
<1>2. CASE spans # <<>>
  <2>1. PICK new \in Object :
          /\ new.span = Head(spans) /\ j.merging = Tail(spans)
          /\ j.adding = {new} /\ j.storing \in {<<>>, <<new>>}
    BY <1>2 DEF Joins
  <2>2. /\ Head(spans) \in Range(spans) /\ Range(Tail(spans)) \subseteq Range(spans)
        /\ IsInjective(Tail(spans)) /\ Head(spans) \notin Range(Tail(spans))
    BY <1>2, TailFacts
  <2>3. Range(j.storing) \subseteq {new}
    BY <2>1 DEF Range
  <2> QED
    BY <2>1, <2>2, <2>3 DEF Apart
<1> QED
  BY <1>1, <1>2 DEF Joins

LEMMA AloneStep ==
  Typed /\ Typed' /\ OwnInv /\ VerdictInv /\ CountInv /\ AloneInv /\ [Next]_vars => AloneInv'
<1> SUFFICES ASSUME Typed, Typed', OwnInv, VerdictInv, CountInv, AloneInv, [Next]_vars
             PROVE  AloneInv'
  OBVIOUS
<1>1. CASE UNCHANGED vars
  BY <1>1 DEF vars, listVars, AloneInv, Alone, Apart
<1>2. ASSUME NEW s \in Span, Arrive(s) PROVE AloneInv'
  <2>1. UNCHANGED <<list, sent, job>>
    BY <1>2, ArriveFacts
  <2> QED
    BY <2>1 DEF AloneInv, Alone, Apart
<1>3. ASSUME NEW t \in Traces, Consume(t) PROVE AloneInv'
  BY <1>3, AloneConsume
<1>4. ASSUME NEW k \in Task, Begin(k) \/ ProcessTask(k) PROVE AloneInv'
  <2>1. PICK j : Becomes(k, j) /\ Shape(k, j)
    BY <1>4, Shapes
  <2>2. Alone(k) => Apart(list[k[1]], job[k], sent, k[1])
    BY DEF AloneInv
  <2>3. CASE Walks(k, j) \/ Starts(k, j)
    <3>1. Alone(k) => Apart(list[k[1]], j, sent, k[1])
      <4>1. /\ job[k].adding = {} /\ j.adding = {} /\ j.merging = <<>> /\ j.pc # "add"
            /\ Range(j.storing) \subseteq Range(list[k[1]])
        BY <2>3, NothingInIt DEF Walks, Starts, Plain
      <4> QED
        BY <2>2, <4>1, NothingInIt, EmptyInjective DEF Apart
    <3> QED
      BY <2>1, <2>3, <3>1, AloneNext DEF Walks, Starts, Plain
  <2>4. CASE Stores(k, j)
    <3>1. /\ job[k].pc # "absent" /\ j.pc \notin {"absent", "add"}
          /\ list' = list /\ j.adding = job[k].adding /\ j.merging = job[k].merging
      BY <2>4 DEF Stores, StoresNow, SameMerge
    <3>2. Range(job[k].storing) = {Head(job[k].storing)} \cup Range(Tail(job[k].storing))
      BY <2>4, StoringFacts DEF Stores, Typed
    <3>3. /\ Range(j.storing) \subseteq Range(job[k].storing)
          /\ sent' \subseteq sent \cup Range(job[k].storing)
      BY <2>4, <3>2 DEF Stores
    <3>4. \A o \in sent' : o \in sent \/ TraceOf[o.span] = k[1]
      BY <3>3 DEF OwnInv, Owned
    <3>5. Alone(k) => Apart(list[k[1]], j, sent', k[1])
      BY <2>2, <3>1, <3>3 DEF Apart
    <3> QED
      BY <2>1, <3>1, <3>4, <3>5, AloneNext
  <2>5. CASE Reads(k, j)
    <3>1. Alone(k) => Apart(list[k[1]], j, sent, k[1])
      BY <2>2, <2>5 DEF Reads, Apart
    <3> QED
      BY <2>1, <2>5, <3>1, AloneNext DEF Reads
  <2>6. CASE MergesOn(k, j) /\ job[k].pc = "load"
    <3>1. Joins(j, NewSpans(k)) /\ j.pc \notin {"absent", "add"} /\ job[k].adding = {}
          /\ UNCHANGED <<list, sent>>
      BY <2>6 DEF MergesOn, Plain
    <3>2. /\ NewSpans(k) \in Seq(Span) /\ IsInjective(NewSpans(k))
          /\ \A o \in Range(list[k[1]]) : o.span \notin Range(NewSpans(k))
      BY NewSpansFacts, TaskIs DEF Typed, OwnInv, SpansIn
    <3>3. ASSUME Alone(k) PROVE Apart(list[k[1]], j, sent, k[1])
      <4>1. /\ \A a, b \in Range(list[k[1]]) : a.span = b.span => a = b
            /\ \A o \in sent : TraceOf[o.span] = k[1] => o \in Range(list[k[1]])
        BY <2>2, <3>1, <3>3 DEF Apart
      <4> QED
        BY <3>1, <3>2, <4>1, JoinsApart
    <3> QED
      BY <2>1, <2>6, <3>1, <3>3, AloneNext
  <2>7. CASE MergesOn(k, j) /\ job[k].pc = "add"
    <3>1. Joins(j, job[k].merging) /\ j.pc \notin {"absent", "add"} /\ sent' = sent
      BY <2>7 DEF MergesOn
    <3>2. PICK new \in job[k].adding : list' = [list EXCEPT ![k[1]] = Append(job[k].seen, new)]
      BY <2>7 DEF MergesOn
    <3>3. /\ \A t \in Traces : t # k[1] => list'[t] = list[t]
          /\ Range(list'[k[1]]) = Range(job[k].seen) \cup {new}
      BY <3>2, AddedFacts
    <3>4. ASSUME Alone(k) PROVE Apart(list'[k[1]], j, sent, k[1])
      <4>1. Range(list'[k[1]]) = Range(list[k[1]]) \cup job[k].adding
        BY <2>2, <2>7, <3>3, <3>4 DEF Apart
      <4>2. job[k].merging \in Seq(Span)
        BY JobSeqs
      <4>3. /\ \A a, b \in Range(list'[k[1]]) : a.span = b.span => a = b
            /\ IsInjective(job[k].merging)
            /\ \A o \in Range(list'[k[1]]) : o.span \notin Range(job[k].merging)
            /\ \A o \in sent : TraceOf[o.span] = k[1] => o \in Range(list'[k[1]])
        BY <2>2, <3>4, <4>1 DEF Apart
      <4> QED
        BY <3>1, <4>2, <4>3, JoinsApart
    <3> QED
      BY <2>1, <2>7, <3>1, <3>3, <3>4, AloneNext
  <2> QED
    BY <2>1, <2>3, <2>4, <2>5, <2>6, <2>7 DEF Shape, MergesOn
<1> QED
  BY <1>1, <1>2, <1>3, <1>4 DEF Next

LEMMA StoredKept ==
  Spec => [](Typed /\ VerdictInv /\ OwnInv /\ CountInv /\ AloneInv)
<1> DEFINE Inv == Typed /\ VerdictInv /\ OwnInv /\ CountInv /\ AloneInv
<1>1. Init => Inv
  BY TypedInit, VerdictInit, OwnInit, CountInit, AloneInit
<1>2. Inv /\ [Next]_vars => Inv'
  BY TypedStep, VerdictStep, OwnStep, CountStep, AloneStep
<1> QED
  BY <1>1, <1>2, PTL DEF Spec

\* Each task of a trace writes an object at most once, and a trace with a single task
\* has one row per span however often the task is retried (storeTrace, mergeTraces).
THEOREM StoredOnceTheorem == Spec => []StoredOnce
<1>1. Typed /\ OwnInv /\ CountInv /\ AloneInv => StoredOnce
  <2> SUFFICES ASSUME Typed, OwnInv, CountInv, AloneInv, NEW o \in Object, stored[o] > 0
               PROVE  /\ stored[o] = 1 \/ stored[o] <= Cardinality(TasksOf(TraceOf[o.span]))
                      /\ Cardinality(TasksOf(TraceOf[o.span])) = 1 =>
                           \A p \in Object : p.span = o.span /\ p /= o => stored[p] = 0
    BY DEF StoredOnce
  <2>0. TraceOf[o.span] \in Traces /\ stored \in [Object -> Nat]
    BY TypeIs DEF Object, Typed
  <2>1. stored[o] <= Cardinality(TasksOf(TraceOf[o.span]))
    <3>1. Cardinality(Savers(o)) \in Nat /\ Cardinality(TasksOf(TraceOf[o.span])) \in Nat
      BY <2>0, SaversOwn, TasksCounted
    <3>2. stored[o] \in Nat
      BY <2>0
    <3>3. stored[o] + Cardinality(Savers(o)) <= Cardinality(TasksOf(TraceOf[o.span]))
      BY DEF CountInv
    <3> QED
      BY <3>1, <3>2, <3>3
  <2>2. ASSUME Cardinality(TasksOf(TraceOf[o.span])) = 1,
               NEW p \in Object, p.span = o.span, p # o, stored[p] # 0
        PROVE  FALSE
    <3>1. PICK k : TasksOf(TraceOf[o.span]) = {k}
      BY <2>0, <2>2, TasksCounted, FS_Singleton
    <3>2. k \in Task /\ k[1] = TraceOf[o.span] /\ Alone(k)
      BY <3>1 DEF TasksOf, Alone, pc
    <3>3. Apart(list[k[1]], job[k], sent, k[1])
      BY <3>2 DEF AloneInv
    <3>4. stored[p] \in Nat
      BY <2>0
    <3>5. o \in sent /\ p \in sent
      BY <2>2, <3>4 DEF CountInv
    <3> QED
      BY <2>2, <3>2, <3>3, <3>5 DEF Apart
  <2> QED
    BY <2>1, <2>2
<1> QED
  BY <1>1, StoredKept, PTL

-----------------------------------------------------------------------------
(* A row that refers to a trace finds its spans written.                   *)

\* The objects Consume made for the spans of t, ...
Base(t) == {[span |-> s, by |-> "consume"] : s \in consumed[t]}

\* ... which are stored, or j will store them.
Covered(t, j) == Base(t) \subseteq sent \cup Range(j.storing)

TraceRowInv ==
  /\ \A t \in Traces : Base(t) \subseteq Range(list[t])
  /\ \A k \in Task : /\ job[k].pc = "add" => Base(k[1]) \subseteq Range(job[k].seen)
                     /\ Stage(job[k]) \in {"write", "writeEntry"} => Covered(k[1], job[k])
                     /\ reports[k] > 0 => Base(k[1]) \subseteq sent
  /\ \A n \in Node : \A t \in Range(related[n]) :
       /\ t \in Traces /\ consumed[t] # {}
       /\ \E k \in Task : k[1] = t /\ Covered(t, job[k])

LEMMA TraceRowInit == Init => TraceRowInv
<1> SUFFICES ASSUME Init PROVE TraceRowInv
  OBVIOUS
<1>1. \A t \in Traces : Base(t) = {}
  BY DEF Init, Base
<1>2. \A k \in Task : job[k].pc = "absent" /\ reports[k] = 0 /\ k[1] \in Traces
  BY IdleFacts, TaskIs DEF Init
<1>3. \A n \in Node : Range(related[n]) = {}
  BY NothingInIt DEF Init
<1> QED
  BY <1>1, <1>2, <1>3 DEF TraceRowInv, Stage, StoresNow

LEMMA TraceRowConsume ==
  ASSUME Typed, VerdictInv, TraceRowInv, NEW t \in Traces, Consume(t)
  PROVE  TraceRowInv'
<1>1. /\ consumed[t] = {} /\ consumed' = [consumed EXCEPT ![t] = Range(cached[t])]
      /\ consumed \in [Traces -> SUBSET Span] /\ consumed'[t] = Range(cached[t])
  BY ConsumeFacts, TypeIs DEF Typed
<1>2. /\ \A u \in Traces : u # t => list'[u] = list[u]
      /\ Range(list'[t]) = {[span |-> s, by |-> "consume"] : s \in Range(cached[t])}
      /\ sent \subseteq sent'
      /\ \A q \in Task : \/ q[1] = t /\ job'[q].pc = "queued" /\ Fresh(job'[q])
                         \/ job'[q] = job[q]
  BY LoadedFacts
<1>3. UNCHANGED <<related, reports>>
  BY DEF Consume, rowVars
<1>4. \A u \in Traces : u # t => consumed'[u] = consumed[u] /\ Base(u)' = Base(u)
  BY <1>1 DEF Base
<1>5. Base(t)' = {[span |-> s, by |-> "consume"] : s \in Range(cached[t])}
  BY <1>1 DEF Base
<1>6. ASSUME NEW k \in Task
      PROVE  /\ job'[k].pc = "add" => Base(k[1])' \subseteq Range(job'[k].seen)
             /\ Stage(job'[k]) \in {"write", "writeEntry"} => Covered(k[1], job[k])'
             /\ reports'[k] > 0 => Base(k[1])' \subseteq sent'
  <2>0. k[1] \in Traces
    BY TaskIs
  <2>1. CASE k[1] = t
    <3>1. job[k].pc = "absent"
      BY <1>1, <2>1, AbsentFirst
    <3>2. job'[k].pc \in {"queued", "absent"}
      BY <1>2, <3>1
    <3>3. reports[k] = 0
      <4>1. VerdictOf(k, Stage(job[k]), drops[k], reports[k])
        BY DEF VerdictInv
      <4> QED
        BY <1>1, <2>1, <4>1 DEF VerdictOf
    <3> QED
      BY <1>3, <3>2, <3>3 DEF Stage, StoresNow
  <2>2. CASE k[1] # t
    <3>1. job'[k] = job[k] /\ Base(k[1])' = Base(k[1])
      BY <1>2, <1>4, <2>0, <2>2
    <3> QED
      BY <1>2, <1>3, <3>1 DEF TraceRowInv, Covered
  <2> QED
    BY <2>1, <2>2
<1>7. ASSUME NEW n \in Node, NEW u \in Range(related'[n])
      PROVE  /\ u \in Traces /\ consumed'[u] # {}
             /\ \E k \in Task : k[1] = u /\ Covered(u, job[k])'
  <2>1. u \in Traces /\ consumed[u] # {} /\ \E k \in Task : k[1] = u /\ Covered(u, job[k])
    BY <1>3, <1>7 DEF TraceRowInv
  <2>2. u # t /\ Base(u)' = Base(u)
    BY <1>1, <1>4, <2>1
  <2>3. PICK k \in Task : k[1] = u /\ Covered(u, job[k])
    BY <2>1
  <2>4. job'[k] = job[k]
    BY <1>2, <2>2, <2>3
  <2> QED
    BY <1>2, <1>4, <2>1, <2>2, <2>3, <2>4 DEF Covered
<1>8. \A u \in Traces : Base(u)' \subseteq Range(list'[u])
  BY <1>2, <1>4, <1>5 DEF TraceRowInv
<1> QED
  BY <1>6, <1>7, <1>8 DEF TraceRowInv, Stage, StoresNow

\* What k has yet to store it stores, or keeps to store.
LEMMA CoverKept ==
  ASSUME Typed, CountInv, NEW k \in Task, NEW j, Shape(k, j)
  PROVE  /\ sent \subseteq sent' /\ UNCHANGED consumed
         /\ sent \cup Range(job[k].storing) \subseteq sent' \cup Range(j.storing)
<1>1. CASE Walks(k, j) \/ Starts(k, j) \/ Reads(k, j) \/ MergesOn(k, j)
  BY <1>1, NothingInIt DEF Walks, Starts, Reads, MergesOn
<1>2. CASE Stores(k, j)
  <2>1. /\ Range(job[k].storing) = {Head(job[k].storing)} \cup Range(Tail(job[k].storing))
        /\ Head(job[k].storing) \in Object
    BY <1>2, StoringFacts DEF Stores, Typed
  <2>2. job[k].pc = "save" => Head(job[k].storing) \in sent
    BY <2>1 DEF CountInv, Writers
  <2> QED
    BY <1>2, <2>1, <2>2 DEF Stores
<1> QED
  BY <1>1, <1>2 DEF Shape

LEMMA TraceRowTask ==
  ASSUME Typed, Typed', VerdictInv, CountInv, TraceRowInv,
         NEW k \in Task, NEW j, Becomes(k, j), Shape(k, j)
  PROVE  TraceRowInv'
<1>0. k[1] \in Traces /\ job[k] \in JobType
  BY TaskIs, JobSeqs
<1>1. /\ sent \subseteq sent' /\ UNCHANGED consumed
      /\ sent \cup Range(job[k].storing) \subseteq sent' \cup Range(j.storing)
  BY CoverKept
<1>2. \A t \in Traces : Base(t)' = Base(t)
  BY <1>1 DEF Base
<1>3. ASSUME NEW q \in Task, NEW t \in Traces, Covered(t, job[q]) PROVE Covered(t, job[q])'
  BY <1>1, <1>2, <1>3 DEF Covered, Becomes
<1>4. \A t \in Traces : Base(t) \subseteq Range(list'[t])
  <2>1. CASE list' = list
    BY <2>1 DEF TraceRowInv
  <2>2. CASE MergesOn(k, j) /\ job[k].pc = "add"
    <3>1. PICK new \in job[k].adding : list' = [list EXCEPT ![k[1]] = Append(job[k].seen, new)]
      BY <2>2 DEF MergesOn
    <3>2. /\ \A t \in Traces : t # k[1] => list'[t] = list[t]
          /\ Range(list'[k[1]]) = Range(job[k].seen) \cup {new}
      BY <3>1, AddedFacts
    <3> QED
      BY <2>2, <3>2 DEF TraceRowInv
  <2> QED
    BY <2>1, <2>2 DEF Shape, Walks, Starts, Stores, Reads, MergesOn
<1>5. /\ j.pc = "add" => Base(k[1]) \subseteq Range(j.seen)
      /\ Stage(j) \in {"write", "writeEntry"} => Base(k[1]) \subseteq sent' \cup Range(j.storing)
  <2>1. CASE Walks(k, j)
    BY <2>1 DEF Walks, Plain
  <2>2. CASE Starts(k, j)
    BY <1>0, <2>2 DEF Starts, Plain, TraceRowInv
  <2>3. CASE Stores(k, j)
    BY <1>1, <2>3 DEF Stores, TraceRowInv, Covered
  <2>4. CASE Reads(k, j)
    BY <1>0, <2>4 DEF Reads, TraceRowInv, Stage, StoresNow
  <2>5. CASE MergesOn(k, j)
    BY <2>5 DEF MergesOn
  <2> QED
    BY <2>1, <2>2, <2>3, <2>4, <2>5 DEF Shape
<1>6. ASSUME NEW q \in Task, reports'[q] > 0 PROVE Base(q[1]) \subseteq sent'
  <2>1. CASE reports'[q] = reports[q]
    BY <1>1, <1>6, <2>1 DEF TraceRowInv
  <2>2. CASE q = k /\ Walks(k, j) /\ job[k].pc \in {"write", "writeEntry"}
    <3>1. Stage(job[k]) \in {"write", "writeEntry"} /\ job[k].storing = <<>>
      BY <2>2 DEF Stage, StoresNow, Walks
    <3>2. Covered(k[1], job[k])
      BY <3>1 DEF TraceRowInv
    <3> QED
      BY <1>1, <2>2, <3>1, <3>2, NothingInIt DEF Covered
  <2>3. \/ reports'[q] = reports[q]
        \/ q = k /\ Walks(k, j) /\ job[k].pc \in {"write", "writeEntry"}
    <3>1. \/ reports' = reports
          \/ /\ Walks(k, j) /\ job[k].pc \in {"write", "writeEntry"}
             /\ reports' = [reports EXCEPT ![k] = @ + 1]
      BY DEF Shape, Walks, Starts, Stores, Reads, MergesOn
    <3>2. reports \in [Task -> Nat]
      BY TypeIs DEF Typed
    <3> QED
      BY <3>1, <3>2
  <2> QED
    BY <2>1, <2>2, <2>3
<1>7. ASSUME NEW n \in Node, NEW t \in Range(related'[n])
      PROVE  /\ t \in Traces /\ consumed'[t] # {}
             /\ \E q \in Task : q[1] = t /\ Covered(t, job[q])'
  <2>1. CASE t \in Range(related[n])
    <3>1. /\ t \in Traces /\ consumed[t] # {}
          /\ \E q \in Task : q[1] = t /\ Covered(t, job[q])
      BY <2>1 DEF TraceRowInv
    <3> QED
      BY <1>1, <1>3, <3>1
  <2>2. CASE Starts(k, j) /\ t = k[1]
    <3>1. consumed[t] # {}
      <4>1. job[k].pc # "absent"
        BY <2>2 DEF Starts, Plain
      <4> QED
        BY <1>0, <2>2, <4>1, AbsentFirst
    <3>2. Covered(t, job[k])'
      <4>1. Base(t) \subseteq Range(j.storing)
        BY <1>0, <2>2 DEF Starts, TraceRowInv
      <4> QED
        BY <1>0, <1>2, <2>2, <4>1 DEF Covered, Becomes
    <3> QED
      BY <1>0, <1>1, <2>2, <3>1, <3>2
  <2>3. t \in Range(related[n]) \/ (Starts(k, j) /\ t = k[1])
    BY DEF Shape, Walks, Starts, Stores, Reads, MergesOn
  <2> QED
    BY <2>1, <2>2, <2>3
<1>8. ASSUME NEW q \in Task
      PROVE  /\ job'[q].pc = "add" => Base(q[1]) \subseteq Range(job'[q].seen)
             /\ Stage(job'[q]) \in {"write", "writeEntry"} => Covered(q[1], job[q])'
  <2>1. CASE q = k
    BY <1>0, <1>2, <1>5, <2>1 DEF Becomes, Covered
  <2>2. CASE q # k
    <3>1. job'[q] = job[q]
      BY <2>2 DEF Becomes
    <3>2. Stage(job[q]) \in {"write", "writeEntry"} => Covered(q[1], job[q])'
      BY <1>3, TaskIs DEF TraceRowInv
    <3> QED
      BY <3>1, <3>2 DEF TraceRowInv
  <2> QED
    BY <2>1, <2>2
<1>9. \A q \in Task : q[1] \in Traces
  BY TaskIs
<1> QED
  BY <1>2, <1>4, <1>6, <1>7, <1>8, <1>9 DEF TraceRowInv, Stage, StoresNow

LEMMA TraceRowStep ==
  Typed /\ Typed' /\ VerdictInv /\ CountInv /\ TraceRowInv /\ [Next]_vars => TraceRowInv'
<1> SUFFICES ASSUME Typed, Typed', VerdictInv, CountInv, TraceRowInv, [Next]_vars
             PROVE  TraceRowInv'
  OBVIOUS
<1>1. CASE UNCHANGED vars
  BY <1>1 DEF vars, listVars, rowVars, TraceRowInv, Base, Covered, Stage, StoresNow
<1>2. ASSUME NEW s \in Span, Arrive(s) PROVE TraceRowInv'
  <2>1. UNCHANGED <<list, sent, job, consumed, related, reports>>
    BY <1>2, ArriveFacts
  <2> QED
    BY <2>1 DEF TraceRowInv, Base, Covered, Stage, StoresNow
<1>3. ASSUME NEW t \in Traces, Consume(t) PROVE TraceRowInv'
  BY <1>3, TraceRowConsume
<1>4. ASSUME NEW k \in Task, Begin(k) \/ ProcessTask(k) PROVE TraceRowInv'
  <2>1. PICK j : Becomes(k, j) /\ Shape(k, j)
    BY <1>4, Shapes
  <2> QED
    BY <2>1, TraceRowTask
<1> QED
  BY <1>1, <1>2, <1>3, <1>4 DEF Next

\* A report, and a relation whose workers are done, refers to a trace each of whose
\* spans is written, or marked by a worker that writes it in its next step; so all are
\* written once no worker has the trace (storeTraces before the reports; buildRelations).
THEOREM RowsHaveTracesTheorem == Spec => []RowsHaveTraces
<1>1. Typed /\ CountInv /\ TraceRowInv => RowsHaveTraces
  <2> SUFFICES ASSUME Typed, CountInv, TraceRowInv, NEW t \in Traces,
                      \/ \E k \in TasksOf(t) : reports[k] > 0
                      \/ /\ \E n \in Node : t \in Range(related[n])
                         /\ \A k \in TasksOf(t) : ~Running(k),
                      NEW s \in consumed[t]
               PROVE  \E o \in Object : o.span = s /\ (stored[o] > 0 \/ BeingWritten(o))
    BY DEF RowsHaveTraces
  <2>1. ASSUME Base(t) \subseteq sent
        PROVE  \E o \in Object : o.span = s /\ (stored[o] > 0 \/ BeingWritten(o))
    <3> DEFINE o == [span |-> s, by |-> "consume"]
    <3>1. s \in Span
      BY TypeIs DEF Typed
    <3>2. o \in Object /\ o.span = s
      BY <3>1 DEF Object
    <3>3. o \in sent
      BY <2>1 DEF Base
    <3> HIDE DEF o
    <3>4. stored[o] > 0 \/ Writers(o) # {}
      BY <3>2, <3>3 DEF CountInv
    <3>5. Writers(o) # {} => BeingWritten(o)
      BY DEF Writers, BeingWritten, At, pc
    <3> QED
      BY <3>2, <3>4, <3>5
  <2>2. ASSUME NEW k \in TasksOf(t), reports[k] > 0 PROVE Base(t) \subseteq sent
    BY <2>2 DEF TasksOf, TraceRowInv
  <2>3. ASSUME NEW n \in Node, t \in Range(related[n]), \A k \in TasksOf(t) : ~Running(k)
        PROVE  Base(t) \subseteq sent
    <3>1. PICK k \in Task : k[1] = t /\ Covered(t, job[k])
      BY <2>3 DEF TraceRowInv
    <3>2. ~StoresNow(job[k])
      <4>1. CASE k \in TasksOf(t)
        BY <2>3, <4>1 DEF Running, pc, StoresNow, Ends
      <4>2. CASE k \notin TasksOf(t)
        BY <3>1, <4>2 DEF TasksOf, pc, StoresNow
      <4> QED
        BY <4>1, <4>2
    <3>3. job[k].storing = <<>>
      BY <3>2 DEF Typed, JobInv, WellFormed
    <3> QED
      BY <3>1, <3>3, NothingInIt DEF Covered
  <2> QED
    BY <2>1, <2>2, <2>3
<1>2. Init => TraceRowInv
  BY TraceRowInit
<1>3. Typed /\ Typed' /\ VerdictInv /\ CountInv /\ TraceRowInv /\ [Next]_vars => TraceRowInv'
  BY TraceRowStep
<1> QED
  BY <1>1, <1>2, <1>3, StoredKept, PTL DEF Spec
=============================================================================
