----------------------------- MODULE ToolProofs -----------------------------
(***************************************************************************)
(* Proofs about the programs that run another one and read its output: the *)
(* PostgreSQL client, for both modes and any number of calls, and the      *)
(* report on an image, for every history and every answer of the scanner.  *)
(* The two models share nothing.                                           *)
(***************************************************************************)
EXTENDS PgClient, ImageReport, FiniteSetTheorems, WellFoundedInduction, TLAPS

\* PgClient.

Place == {"arguments", "binary", "starting", "running", "pausing", "returned"}
Result == {"none", "ok", "error", "present", "absent"}
Process == {"none", "working", "orphaned", "succeeded", "failed", "killed"}

\* What the server has said and done follows what was asked and how the cluster has been: an
\* answer that a look-up reads is a state of the call's time, and a tool ends with success
\* only after its request has been carried out.
ServedRequest ==
  /\ sent = "done" => answer \in {"rows", "nothing"}
  /\ tool = "succeeded" => sent = "done"
  /\ call.method \in RowOfDatabase /\ answer = "rows" => "present" \in seen
  /\ call.method = "DatabaseExists" /\ answer = "nothing" => "absent" \in seen
  /\ call.method = "CreateDatabase" /\ sent = "done" => seen = {"present", "absent"}

\* The inductive invariant: AnswersAreTrue speaks of calls that have returned, so it rests on
\* what is known of the server and the tool before that.
ClientInv == /\ PgTypeOK
             /\ call \in [at : Place, method : Method, result : Result]
             /\ tool \in Process /\ seen \subseteq {"present", "absent"}
             /\ ServedRequest
             /\ AnswersAreTrue

LEMMA ClientInitInv == PgInit => ClientInv
  BY DEF PgInit, ClientInv, PgTypeOK, ServedRequest, AnswersAreTrue, Place, Result, Process,
         Method, Reads, Changes, Streams, Asks, At

\* The call's record after a move, after a return and after a failed step.
LEMMA Moves ==
  ASSUME ClientInv
  PROVE  /\ \A place : To(place) =>
              call' = [at |-> place, method |-> call.method, result |-> call.result]
         /\ \A result : Returns(result) =>
              call' = [at |-> "returned", method |-> call.method, result |-> result]
  BY DEF ClientInv, To, Returns

LEMMA FailMoves ==
  ASSUME ClientInv, Fails
  PROVE  \/ call' = [at |-> "pausing", method |-> call.method, result |-> call.result]
         \/ call' = [at |-> "returned", method |-> call.method, result |-> "error"]
  BY Moves DEF Fails

LEMMA ClientStepInv == ClientInv /\ [PgNext]_pgVars => ClientInv'
<1> SUFFICES ASSUME ClientInv, [PgNext]_pgVars
             PROVE  ClientInv'
  OBVIOUS
<1> USE DEF ClientInv, PgTypeOK, ServedRequest, AnswersAreTrue, Place, Result, Process, At
<1>m. /\ {"DatabaseExists", "CreateDatabase", "WaitForReady"} \subseteq Method
      /\ RowOfDatabase = {"DatabaseExists", "DatabaseLocale"}
      /\ "DatabaseExists" \notin Asks /\ "CreateDatabase" \notin Asks
  BY DEF Method, Reads, Changes, Streams, Asks, RowOfDatabase
<1>1. ASSUME NEW method \in Method, Call(method) PROVE ClientInv'
  BY <1>1, <1>m DEF Call
<1>2. CASE CheckArguments
  BY <1>2, Moves, FailMoves, <1>m DEF CheckArguments
<1>3. CASE FindBinary
  BY <1>3, Moves, FailMoves, <1>m DEF FindBinary
<1>4. CASE Start
  BY <1>4, Moves, FailMoves, <1>m DEF Start
<1>5. CASE Expire
  BY <1>5, <1>m DEF Expire
<1>6. CASE Kill
  BY <1>6, <1>m DEF Kill
<1>7. CASE Return
  <2>1. CASE tool = "succeeded" /\ output = "whole" /\ answer = "rows" /\ Rows
    BY <1>7, <2>1, Moves, <1>m DEF Return, Ended, Rows
  <2>2. CASE tool = "succeeded" /\ output = "whole" /\ answer # "rows" /\ NoRows
    <3>1. \/ call.method = "DatabaseExists" /\ Returns("absent")
          \/ Fails
          \/ call.method # "DatabaseExists" /\ Returns("ok")
      BY <2>2 DEF NoRows
    <3>2. QED
      BY <1>7, <2>2, <3>1, Moves, FailMoves, <1>m DEF Return, Ended
  <2>3. CASE Fails
    BY <1>7, <2>3, FailMoves, <1>m DEF Return, Ended
  <2>4. QED
    BY <1>7, <2>1, <2>2, <2>3 DEF Return
<1>8. CASE GiveUpWaiting
  BY <1>8, Moves, <1>m DEF GiveUpWaiting
<1>9. CASE PingAgain
  BY <1>9, Moves, <1>m DEF PingAgain
<1>10. CASE Send
  BY <1>10, <1>m DEF Send
<1>11. CASE Serve
  BY <1>11, <1>m DEF Serve, Becomes
<1>12. CASE ServeNothing
  BY <1>12, <1>m DEF ServeNothing
<1>13. CASE BreakOutput
  BY <1>13, <1>m DEF BreakOutput
<1>14. CASE ToolEnds
  BY <1>14, <1>m DEF ToolEnds
<1>15. CASE OthersChange
  BY <1>15, <1>m DEF OthersChange, Becomes
<1>16. CASE UNCHANGED pgVars
  BY <1>16 DEF pgVars
<1>17. CASE WorkersFinish
  BY <1>17, <1>m DEF WorkersFinish
<1>18. QED
  BY <1>1, <1>2, <1>3, <1>4, <1>5, <1>6, <1>7, <1>8, <1>9, <1>10, <1>11, <1>12, <1>13,
     <1>14, <1>15, <1>16, <1>17 DEF PgNext, ClientStep

\* What a method of the client answers was so (AnswersAreTrue), in both modes, whatever
\* calls were made before, whichever tools hang, fail or are killed, and whatever other
\* users do to the cluster.
THEOREM ClientAnswersAreTrue == FairPgSpec => [](PgTypeOK /\ AnswersAreTrue)
<1>1. ClientInv => PgTypeOK /\ AnswersAreTrue
  BY DEF ClientInv
<1>2. QED
  BY <1>1, ClientInitInv, ClientStepInv, PTL DEF FairPgSpec
-----------------------------------------------------------------------------
\* ImageReport.

Layers == Seq([size : Nat, command : SUBSET STRING])

LEMMA HistoryIsLayers == History \cup {<<>>} \subseteq Layers
<1>1. \A S : <<>> \in Seq(S)
  OBVIOUS
<1>2. History \subseteq Layers
  BY ImageAssumption, Zenon DEF Layers
<1>3. QED
  BY <1>1, <1>2 DEF Layers

LEMMA VulnerableIsLevels == Vulnerable \cup {<<>>} \subseteq Seq(STRING)
<1>1. <<>> \in Seq(STRING)
  OBVIOUS
<1>2. Vulnerable \subseteq Seq(STRING)
  BY ImageAssumption, Zenon
<1>3. QED
  BY <1>1, <1>2

LEMMA LeastNumber ==
  ASSUME NEW T \in SUBSET Nat, T # {}
  PROVE  \E x \in T : \A y \in T : x <= y
<1>1. PICK x \in T : \A y \in T : <<y, x>> \notin OpToRel(<, Nat)
  BY WFMin, NatLessThanWellFounded, Zenon
<1>2. \A y \in T : ~(y < x)
  BY <1>1 DEF OpToRel
<1>3. QED
  BY <1>2
-----------------------------------------------------------------------------
\* Foremost, for any finite set and any order of it.
Before(D, order, j) == {i \in D : <<i, j>> \in order}
StrictOrder(D, order) ==
  /\ \A i \in D : <<i, i>> \notin order
  /\ \A i, j, k \in D : <<i, j>> \in order /\ <<j, k>> \in order => <<i, k>> \in order

LEMMA FewerBefore ==
  ASSUME NEW D, IsFiniteSet(D), NEW order, StrictOrder(D, order),
         NEW i \in D, NEW j \in D, <<i, j>> \in order
  PROVE  Cardinality(Before(D, order, i)) < Cardinality(Before(D, order, j))
<1>1. IsFiniteSet(Before(D, order, i)) /\ IsFiniteSet(Before(D, order, j))
  BY FS_Subset DEF Before
<1>2. Before(D, order, i) \subseteq Before(D, order, j)
  BY DEF Before, StrictOrder
<1>3. i \in Before(D, order, j) \ Before(D, order, i)
  BY DEF Before, StrictOrder
<1>4. QED
  BY <1>1, <1>2, <1>3, FS_Subset, FS_CardinalityType

\* What comes before one of the foremost is one of them.
LEMMA ForemostLeads ==
  ASSUME NEW D, IsFiniteSet(D), NEW order, StrictOrder(D, order), NEW n \in Int,
         NEW i \in D \ Foremost(D, order, n), NEW j \in Foremost(D, order, n)
  PROVE  <<i, j>> \notin order
<1>1. \A k \in D : Cardinality(Before(D, order, k)) \in Nat
  BY FS_Subset, FS_CardinalityType DEF Before
<1>2. /\ j \in D /\ Cardinality(Before(D, order, j)) < n
      /\ ~(Cardinality(Before(D, order, i)) < n)
  BY DEF Foremost, Before
<1>3. SUFFICES ASSUME <<i, j>> \in order PROVE FALSE
  OBVIOUS
<1>4. Cardinality(Before(D, order, i)) < Cardinality(Before(D, order, j))
  BY <1>2, <1>3, FewerBefore
<1>5. QED
  BY <1>1, <1>2, <1>4

\* If there are any, there are foremost ones.
LEMMA ForemostExists ==
  ASSUME NEW D, IsFiniteSet(D), D # {}, NEW order, StrictOrder(D, order), NEW n \in Nat \ {0}
  PROVE  Foremost(D, order, n) # {}
<1> DEFINE sizes == {Cardinality(Before(D, order, k)) : k \in D}
<1>1. \A k \in D : IsFiniteSet(Before(D, order, k)) /\ Cardinality(Before(D, order, k)) \in Nat
  BY FS_Subset, FS_CardinalityType DEF Before
<1>2. sizes \in SUBSET Nat /\ sizes # {}
  BY <1>1
<1>3. PICK x \in sizes : \A y \in sizes : x <= y
  BY <1>2, LeastNumber
<1>4. PICK j \in D : \A k \in D :
        Cardinality(Before(D, order, j)) <= Cardinality(Before(D, order, k))
  BY <1>3
<1>5. \A i \in D : <<i, j>> \notin order
  BY <1>1, <1>4, FewerBefore
<1>6. Before(D, order, j) = {}
  BY <1>5 DEF Before
<1>7. Cardinality({i \in D : <<i, j>> \in order}) = 0
  BY <1>6, FS_EmptySet DEF Before
<1>8. j \in Foremost(D, order, n)
  BY <1>7 DEF Foremost
<1>9. QED
  BY <1>8

LEMMA SequenceParts ==
  ASSUME NEW S, NEW s \in Seq(S)
  PROVE  DOMAIN s = 1 .. Len(s) /\ Len(s) \in Nat /\ IsFiniteSet(DOMAIN s)
         /\ (DOMAIN s = {} => Len(s) = 0)
         /\ \A k \in DOMAIN s : s[k] \in S
<1>1. DOMAIN s = 1 .. Len(s) /\ Len(s) \in Nat
  OBVIOUS
<1>2. IsFiniteSet(1 .. Len(s))
  BY <1>1, FS_Interval
<1>3. DOMAIN s = {} => Len(s) = 0
  BY <1>1
<1>4. \A k \in DOMAIN s : s[k] \in S
  OBVIOUS
<1>5. QED
  BY <1>1, <1>2, <1>3, <1>4
-----------------------------------------------------------------------------
\* The layers shown, and the vulnerabilities shown.

LEMMA LargerLayersShown ==
  ASSUME NEW h \in Layers, NEW n \in Int,
         NEW i \in TopLayers(h, n), NEW j \in (DOMAIN h) \ TopLayers(h, n)
  PROVE  h[i].size >= h[j].size
<1>1. \A k \in DOMAIN h : h[k].size \in Int
  <2>1. \A k \in DOMAIN h : h[k] \in [size : Nat, command : SUBSET STRING]
    BY SequenceParts, Zenon DEF Layers
  <2>2. QED
    BY <2>1
<1>2. DOMAIN h \subseteq Int /\ IsFiniteSet(DOMAIN h)
  BY SequenceParts DEF Layers
<1>3. StrictOrder(DOMAIN h, Larger(h))
  BY <1>1, <1>2 DEF StrictOrder, Larger
<1>4. <<j, i>> \notin Larger(h)
  BY <1>2, <1>3, ForemostLeads DEF TopLayers
<1>5. i \in DOMAIN h
  BY DEF TopLayers, Foremost
<1>6. QED
  BY <1>1, <1>4, <1>5 DEF Larger

LEMMA RankType == \A s : Rank(s) \in -1 .. 4
  BY DEF Rank

LEMMA WorseIsStrict ==
  ASSUME NEW v \in Seq(STRING)
  PROVE  StrictOrder(DOMAIN v, Worse(v))
<1>1. DOMAIN v \subseteq Int
  BY SequenceParts
<1> DEFINE rank(i) == Rank(Normalize(v[i]))
<1>2. \A i : rank(i) \in Int
  BY RankType
<1>3. Worse(v) = {p \in (DOMAIN v) \X (DOMAIN v) :
                   rank(p[1]) > rank(p[2]) \/ (rank(p[1]) = rank(p[2]) /\ p[1] < p[2])}
  BY DEF Worse
<1> HIDE DEF rank
<1>4. \A i, j \in DOMAIN v :
        <<i, j>> \in Worse(v) <=> rank(i) > rank(j) \/ (rank(i) = rank(j) /\ i < j)
  BY <1>3
<1>5. QED
  BY <1>1, <1>2, <1>4 DEF StrictOrder

LEMMA WorstAreShown ==
  ASSUME NEW v \in Seq(STRING),
         NEW i \in Summary(v).top, NEW j \in (DOMAIN v) \ Summary(v).top
  PROVE  Rank(Normalize(v[i])) >= Rank(Normalize(v[j]))
<1>1. Summary(v).top = Foremost(DOMAIN v, Worse(v), MaxTop) /\ MaxTop \in Int
  BY ImageAssumption DEF Summary
<1>2. i \in DOMAIN v
  BY <1>1 DEF Foremost
<1>3. <<j, i>> \notin Worse(v)
  BY <1>1, WorseIsStrict, SequenceParts, ForemostLeads
<1>4. Rank(Normalize(v[i])) \in Int /\ Rank(Normalize(v[j])) \in Int
  BY RankType
<1>5. QED
  BY <1>2, <1>3, <1>4 DEF Worse

LEMMA SomeAreShown ==
  ASSUME NEW v \in Seq(STRING), Summary(v).top = {}
  PROVE  Len(v) = 0
<1>1. Summary(v).top = Foremost(DOMAIN v, Worse(v), MaxTop) /\ MaxTop \in Nat \ {0}
  BY ImageAssumption DEF Summary
<1>2. DOMAIN v = {}
  BY <1>1, WorseIsStrict, SequenceParts, ForemostExists
<1>3. QED
  BY <1>2, SequenceParts
-----------------------------------------------------------------------------
\* Every vulnerability is counted once: Normalize makes six parts of them.

LEMMA DisjointSum ==
  ASSUME NEW S, IsFiniteSet(S), NEW T, IsFiniteSet(T), S \cap T = {}
  PROVE  /\ IsFiniteSet(S \cup T)
         /\ Cardinality(S \cup T) = Cardinality(S) + Cardinality(T)
<1>1. Cardinality(S \cap T) = 0
  BY FS_EmptySet
<1>2. QED
  BY <1>1, FS_Union, FS_CardinalityType

LEMMA NormalizeType == \A level : Normalize(level) \in Severity
  BY DEF Normalize, Severity

LEMMA AllAreCounted ==
  ASSUME NEW v \in Seq(STRING)
  PROVE  LET count == Summary(v).count IN
           Len(v) = count["critical"] + count["high"] + count["medium"] + count["low"]
                    + count["info"] + count["unknown"]
<1> DEFINE part(s) == {i \in DOMAIN v : Normalize(v[i]) = s}
<1>1. \A s \in Severity : Summary(v).count[s] = Cardinality(part(s))
  BY DEF Summary
<1>2. \A i : i \in DOMAIN v <=> \E s \in Severity : i \in part(s)
  BY NormalizeType
<1>3. \A s : IsFiniteSet(part(s)) /\ Cardinality(part(s)) \in Nat
  BY SequenceParts, FS_Subset, FS_CardinalityType
<1>4. \A s, t : s # t => part(s) \cap part(t) = {}
  OBVIOUS
<1>5. Cardinality(DOMAIN v) = Len(v)
  <2>1. DOMAIN v = 1 .. Len(v) /\ Len(v) \in Nat
    BY SequenceParts
  <2>2. Cardinality(1 .. Len(v)) = IF 1 > Len(v) THEN 0 ELSE Len(v) - 1 + 1
    BY <2>1, FS_Interval
  <2>3. QED
    BY <2>1, <2>2
<1> HIDE DEF part
<1> DEFINE a == part("critical") \cup part("high")
           b == a \cup part("medium")
           c == b \cup part("low")
           d == c \cup part("info")
<1>6. Cardinality(a) = Cardinality(part("critical")) + Cardinality(part("high")) /\ IsFiniteSet(a)
  BY <1>3, <1>4, DisjointSum
<1>7. Cardinality(b) = Cardinality(a) + Cardinality(part("medium")) /\ IsFiniteSet(b)
  <2>1. a \cap part("medium") = {}
    BY <1>4
  <2>2. QED
    BY <1>3, <1>6, <2>1, DisjointSum
<1>8. Cardinality(c) = Cardinality(b) + Cardinality(part("low")) /\ IsFiniteSet(c)
  <2>1. b \cap part("low") = {}
    BY <1>4
  <2>2. QED
    BY <1>3, <1>7, <2>1, DisjointSum
<1>9. Cardinality(d) = Cardinality(c) + Cardinality(part("info")) /\ IsFiniteSet(d)
  <2>1. c \cap part("info") = {}
    BY <1>4
  <2>2. QED
    BY <1>3, <1>8, <2>1, DisjointSum
<1>10. Cardinality(d \cup part("unknown")) = Cardinality(d) + Cardinality(part("unknown"))
  <2>1. d \cap part("unknown") = {}
    BY <1>4
  <2>2. QED
    BY <1>3, <1>9, <2>1, DisjointSum
<1>11. DOMAIN v = d \cup part("unknown")
  BY <1>2 DEF Severity
<1>12. Len(v) = Cardinality(part("critical")) + Cardinality(part("high"))
                  + Cardinality(part("medium")) + Cardinality(part("low"))
                  + Cardinality(part("info")) + Cardinality(part("unknown"))
  <2>1. Cardinality(d \cup part("unknown")) = Len(v)
    BY <1>5, <1>11
  <2> HIDE DEF a, b, c, d
  <2>2. QED
    BY <2>1, <1>6, <1>7, <1>8, <1>9, <1>10
<1>13. QED
  BY <1>1, <1>12 DEF Severity

LEMMA SummaryParts ==
  ASSUME NEW v \in Seq(STRING)
  PROVE  /\ Summary(v) \in [went : {"ok"}, total : Nat, count : [Severity -> Nat],
                             top : SUBSET (DOMAIN v)]
         /\ Summary(v).went = "ok" /\ Summary(v).total = Len(v)
         /\ \A s \in Severity :
              Summary(v).count[s] > 0 <=> \E i \in DOMAIN v : Normalize(v[i]) = s
<1> DEFINE part(s) == {i \in DOMAIN v : Normalize(v[i]) = s}
<1>1. \A s : IsFiniteSet(part(s)) /\ Cardinality(part(s)) \in Nat
  BY SequenceParts, FS_Subset, FS_CardinalityType
<1>2. \A s : Cardinality(part(s)) = 0 <=> part(s) = {}
  BY <1>1, FS_EmptySet
<1>3. Summary(v) = [went |-> "ok", total |-> Len(v),
                    count |-> [s \in Severity |-> Cardinality(part(s))],
                    top |-> Foremost(DOMAIN v, Worse(v), MaxTop)]
  BY DEF Summary
<1>4. Foremost(DOMAIN v, Worse(v), MaxTop) \subseteq DOMAIN v
  BY DEF Foremost
<1>5. [s \in Severity |-> Cardinality(part(s))] \in [Severity -> Nat]
  BY <1>1
<1>6. \A s : Cardinality(part(s)) > 0 <=> \E i \in DOMAIN v : Normalize(v[i]) = s
  <2> SUFFICES ASSUME NEW s
               PROVE  Cardinality(part(s)) > 0 <=> part(s) # {}
    OBVIOUS
  <2>1. Cardinality(part(s)) \in Nat /\ (Cardinality(part(s)) = 0 <=> part(s) = {})
    BY <1>1, <1>2
  <2> HIDE DEF part
  <2>2. QED
    BY <2>1
<1>7. Len(v) \in Nat
  BY SequenceParts
<1> HIDE DEF part
<1>8. QED
  BY <1>3, <1>4, <1>5, <1>6, <1>7
-----------------------------------------------------------------------------
\* The findings.

LEMMA OtherFindings ==
  ASSUME NEW c, NEW f \in PackageFindings(c) \cup SecurityFindings(c) \cup BuildFindings(c)
  PROVE  f.rule # "layer-too-large" /\ f.severity \in Severity
<1>1. CASE f \in PackageFindings(c)
  BY <1>1 DEF PackageFindings, Finds, Severity
<1>2. CASE f \in SecurityFindings(c)
  BY <1>2 DEF SecurityFindings, Finds, Severity
<1>3. CASE f \in BuildFindings(c)
  BY <1>3 DEF BuildFindings, Finds, Severity
<1>4. QED
  BY <1>1, <1>2, <1>3

Huge(size) == HugeLayerSize > 0 /\ size >= HugeLayerSize
TooLarge == [rule |-> "layer-too-large", severity |-> "high"]

LEMMA SizeFindingsAre ==
  ASSUME NEW size
  PROVE  /\ Huge(size) => TooLarge \in SizeFindings(size)
         /\ \A f \in SizeFindings(size) :
              /\ f.severity \in Severity
              /\ f.rule = "layer-too-large" => Huge(size) /\ f = TooLarge
  BY DEF SizeFindings, Finds, Huge, TooLarge, Severity

\* What analyzeLayers finds in one layer, and in the number of COPY layers.
LayerFindings(layer) == SizeFindings(layer.size) \cup PackageFindings(layer.command)
                          \cup SecurityFindings(layer.command) \cup BuildFindings(layer.command)
CopyFindings(h) ==
  Finds(Cardinality({i \in Judged(h) : "copy" \in h[i].command}) >= MultiCopyMin,
        "many-copy-layers", "info")

LEMMA FoundInLayers ==
  ASSUME NEW h
  PROVE  \A f : f \in AnalyzeLayers(h) <=>
                   \/ f \in CopyFindings(h)
                   \/ \E i \in Judged(h) : f \in LayerFindings(h[i])
<1>1. AnalyzeLayers(h) = (UNION {LayerFindings(h[i]) : i \in Judged(h)}) \cup CopyFindings(h)
  BY Zenon DEF AnalyzeLayers, LayerFindings, CopyFindings
<1>2. \A f : f \in UNION {LayerFindings(h[i]) : i \in Judged(h)}
                <=> \E i \in Judged(h) : f \in LayerFindings(h[i])
  BY Zenon
<1>3. QED
  BY <1>1, <1>2, Zenon

\* A layer that is looked at and is huge, and nothing else, makes the finding of that name.
LEMMA FindingsAre ==
  ASSUME NEW h
  PROVE  /\ \A f \in AnalyzeLayers(h) : f.severity \in Severity
         /\ \A f \in AnalyzeLayers(h) : f.rule = "layer-too-large" =>
              f = TooLarge /\ \E i \in Judged(h) : Huge(h[i].size)
         /\ \A i \in Judged(h) : Huge(h[i].size) => TooLarge \in AnalyzeLayers(h)
<1>1. \A f \in CopyFindings(h) : f.severity \in Severity /\ f.rule # "layer-too-large"
  BY DEF Finds, Severity, CopyFindings
<1>2. \A i : \A f \in LayerFindings(h[i]) :
                 \/ f \in SizeFindings(h[i].size)
                 \/ f.rule # "layer-too-large" /\ f.severity \in Severity
  BY OtherFindings DEF LayerFindings
<1>3. \A i : \A f \in SizeFindings(h[i].size) : f \in LayerFindings(h[i])
  BY DEF LayerFindings
<1>4. ASSUME NEW f \in AnalyzeLayers(h)
      PROVE  /\ f.severity \in Severity
             /\ f.rule = "layer-too-large" =>
                  f = TooLarge /\ \E i \in Judged(h) : Huge(h[i].size)
  <2>1. CASE f \in CopyFindings(h)
    BY <2>1, <1>1
  <2>2. CASE f \notin CopyFindings(h)
    <3>1. PICK i \in Judged(h) : f \in LayerFindings(h[i])
      BY <2>2, FoundInLayers
    <3>2. CASE f \in SizeFindings(h[i].size)
      BY <3>2, SizeFindingsAre
    <3>3. CASE f.rule # "layer-too-large" /\ f.severity \in Severity
      BY <3>3
    <3>4. QED
      BY <3>1, <3>2, <3>3, <1>2
  <2>3. QED
    BY <2>1, <2>2
<1>5. ASSUME NEW i \in Judged(h), Huge(h[i].size) PROVE TooLarge \in AnalyzeLayers(h)
  <2>1. TooLarge \in LayerFindings(h[i])
    BY <1>5, <1>3, SizeFindingsAre
  <2>2. QED
    BY FoundInLayers, <2>1
<1>6. QED
  BY <1>4, <1>5
-----------------------------------------------------------------------------
\* The inductive invariant: what has been read, made of it and found so far, by the place the
\* command is at.
CioPlace == {"flags", "history", "inspect", "scanner", "parse", "output", "write", "threshold",
             "exited"}
Threshold == (Severity \ {"unknown"}) \cup {"none"}

ImageTypes ==
  /\ cio \in [at : CioPlace, code : {-1, 0, 1}, failOn : Threshold]
  /\ cio.code = -1 <=> cio.at # "exited"
  /\ layers \in History \cup {<<>>}
  /\ found \in [did : {"nothing", "fail", "write-nothing", "write-no-json", "write-other-json",
                       "report"},
                vulns : Vulnerable \cup {<<>>}]
  /\ reportFile \in {"old", "partial", "whole"}

LayersJudged ==
  /\ cio.at \in {"flags", "history"} => layers = <<>>
  /\ findings = {} \/ findings = AnalyzeLayers(layers)
  /\ cio.at \in {"flags", "history", "inspect"} => findings = {}
  /\ cio.at \in {"scanner", "parse", "output", "write", "threshold"} =>
       findings = AnalyzeLayers(layers)
  /\ topLayers.set = {} \/ (topLayers.n \in Int /\ topLayers.set = TopLayers(layers, topLayers.n))
  /\ cio.at \in {"flags", "history", "inspect"} => topLayers.set = {}

Answer == IF found.did \in Accepted THEN Summary(Parsed)
          ELSE IF found.did = "nothing" THEN NoScan ELSE Failed
ScanIsAnswer ==
  /\ cio.at \in {"flags", "history", "inspect", "scanner"} => found.did = "nothing"
  /\ cio.at \in {"flags", "history", "inspect", "scanner", "parse"} => scan = NoScan
  /\ cio.at = "parse" => found.did # "nothing"
  /\ cio.at \in {"output", "write", "threshold"} => scan = Answer
  /\ scan = NoScan \/ scan = Answer

FileKept ==
  /\ reportFile # "old" => cio.at \in {"write", "threshold", "exited"}
  /\ cio.at = "threshold" => reportFile # "partial"
  /\ (cio.at = "exited" /\ reportFile = "partial") => cio.code = 1

ImageInv == /\ ImageTypes /\ LayersJudged /\ ScanIsAnswer /\ FileKept
            /\ ThresholdIsTrue

LEMMA CioMoves ==
  ASSUME ImageInv
  PROVE  /\ \A place \in CioPlace : Steps(place) =>
              cio' = [at |-> place, code |-> cio.code, failOn |-> cio.failOn]
         /\ \A code, failOn : Quits(code, failOn) =>
              cio' = [at |-> "exited", code |-> code, failOn |-> failOn]
  BY DEF ImageInv, ImageTypes, Steps, Quits

\* What is not a report has no levels.
LEMMA ParsedIs ==
  ASSUME ImageTypes
  PROVE  /\ Parsed \in Seq(STRING)
         /\ found.did = "report" => Parsed = found.vulns
         /\ found.did # "report" => DOMAIN Parsed = {}
  BY VulnerableIsLevels DEF ImageTypes, Parsed

LEMMA AnswerCounts ==
  ASSUME ImageTypes
  PROVE  /\ Answer.count \in [Severity -> Nat]
         /\ \A s \in Severity : Answer.count[s] > 0 <=>
              \E i \in DOMAIN Parsed : Normalize(Parsed[i]) = s
<1>1. CASE found.did \in Accepted
  <2>1. Answer = Summary(Parsed)
    BY <1>1 DEF Answer
  <2>2. QED
    BY <2>1, ParsedIs, SummaryParts
<1>2. CASE found.did \notin Accepted
  <2>1. DOMAIN Parsed = {}
    BY <1>2, ParsedIs DEF Accepted
  <2>2. Answer.count = [s \in Severity |-> 0]
    BY <1>2 DEF Answer, NoScan, Failed, NoCount
  <2>3. QED
    BY <2>1, <2>2
<1>3. QED
  BY <1>1, <1>2

LEMMA RankOrder ==
  /\ \A s \in Severity : Rank(s) \in Int
  /\ Rank("unknown") = -1 /\ Rank("high") = 3
  /\ \A s \in Severity \ {"unknown"} : Rank(s) \in 0 .. 4
  BY DEF Rank, Severity

\* The comparison that runAnalyze makes at its end.
LEMMA ExceedsIsTrue ==
  ASSUME ImageTypes, findings = AnalyzeLayers(layers), scan = Answer,
         NEW failOn \in Severity \ {"unknown"}
  PROVE  ExceedsThreshold(failOn) <=>
           \/ \E i \in Judged(layers) : HugeLayerSize > 0 /\ layers[i].size >= HugeLayerSize
                                        /\ Rank("high") >= Rank(failOn)
           \/ found.did = "report" /\ \E i \in DOMAIN found.vulns : Worthy(found.vulns[i], failOn)
           \/ \E f \in findings : f.rule # "layer-too-large" /\ Rank(f.severity) >= Rank(failOn)
<1>1. \A s : AtLeast(s, failOn) <=> Rank(s) >= Rank(failOn)
  BY DEF AtLeast, Severity
<1>2. (\E f \in findings : AtLeast(f.severity, failOn)) <=>
        \/ \E i \in Judged(layers) : Huge(layers[i].size) /\ Rank("high") >= Rank(failOn)
        \/ \E f \in findings : f.rule # "layer-too-large" /\ Rank(f.severity) >= Rank(failOn)
  <2>1. TooLarge.severity = "high" /\ TooLarge.rule = "layer-too-large"
    BY DEF TooLarge
  <2>2. \A f \in findings : f.rule = "layer-too-large" =>
          f.severity = "high" /\ \E i \in Judged(layers) : Huge(layers[i].size)
    BY <2>1, FindingsAre
  <2>3. (\E i \in Judged(layers) : Huge(layers[i].size)) => TooLarge \in findings
    BY FindingsAre
  <2>4. QED
    BY <1>1, <2>1, <2>2, <2>3
<1>3. (\E s \in Severity : scan.count[s] > 0 /\ AtLeast(s, failOn)) <=>
        found.did = "report" /\ \E i \in DOMAIN found.vulns : Worthy(found.vulns[i], failOn)
  <2>1. \A s \in Severity : AtLeast(s, failOn) => s # "unknown"
    BY <1>1, RankOrder
  <2>2. \A i : Worthy(Parsed[i], failOn) <=> AtLeast(Normalize(Parsed[i]), failOn)
    BY <1>1, <2>1, NormalizeType DEF Worthy
  <2>3. (\E s \in Severity : scan.count[s] > 0 /\ AtLeast(s, failOn)) <=>
          \E i \in DOMAIN Parsed : Worthy(Parsed[i], failOn)
    BY <2>2, AnswerCounts, NormalizeType
  <2>4. QED
    BY <2>3, ParsedIs
<1>4. QED
  BY <1>2, <1>3 DEF ExceedsThreshold, Huge

LEMMA ImageInitInv == ImageInit => ImageInv
<1> SUFFICES ASSUME ImageInit PROVE ImageInv
  OBVIOUS
<1>1. cio.at = "flags" /\ cio.failOn = "none" /\ cio.code = -1
  BY DEF ImageInit
<1>2. ImageTypes
  BY DEF ImageInit, ImageTypes, CioPlace, Threshold
<1>3. LayersJudged /\ ScanIsAnswer /\ FileKept /\ ThresholdIsTrue
  BY <1>1 DEF ImageInit, LayersJudged, ScanIsAnswer, FileKept, ThresholdIsTrue
<1>4. QED
  BY <1>2, <1>3 DEF ImageInv

\* A run that ends before the report is compared has failed, and one that ends under a
\* threshold has said the truth.
LEMMA EndsEarly ==
  ASSUME ImageInv, Quits(1, "none"), UNCHANGED <<layers, findings, topLayers, found, scan>>,
         reportFile' \in {"old", "partial", "whole"}
  PROVE  ImageInv'
<1>1. cio' = [at |-> "exited", code |-> 1, failOn |-> "none"]
  BY CioMoves
<1>2. Answer' = Answer
  BY DEF Answer, Parsed
<1>3. ImageTypes'
  BY <1>1 DEF ImageInv, ImageTypes, CioPlace, Threshold
<1>4. LayersJudged' /\ ScanIsAnswer' /\ FileKept'
  BY <1>1, <1>2 DEF ImageInv, LayersJudged, ScanIsAnswer, FileKept
<1>5. ThresholdIsTrue'
  BY <1>1 DEF ThresholdIsTrue
<1>6. QED
  BY <1>3, <1>4, <1>5 DEF ImageInv

\* While the command goes on, nothing is said of a threshold.
LEMMA GoesOn ==
  ASSUME ImageInv, NEW place \in CioPlace \ {"exited"}, cio.at # "exited", Steps(place)
  PROVE  /\ cio' = [at |-> place, code |-> -1, failOn |-> cio.failOn]
         /\ ThresholdIsTrue'
<1>1. cio' = [at |-> place, code |-> -1, failOn |-> cio.failOn]
  BY CioMoves DEF ImageInv, ImageTypes
<1>2. QED
  BY <1>1 DEF ThresholdIsTrue

LEMMA ImageStepInv == ImageInv /\ [ImageNext]_imageVars => ImageInv'
<1> SUFFICES ASSUME ImageInv, [ImageNext]_imageVars
             PROVE  ImageInv'
  OBVIOUS
<1> USE DEF CioPlace
<1>t. ImageTypes /\ LayersJudged /\ ScanIsAnswer /\ FileKept
  BY DEF ImageInv
<1>a. UNCHANGED found => Answer' = Answer
  BY DEF Answer, Parsed
<1>1. CASE CheckFlags
  <2>1. CASE Steps("history")
    <3>1. cio' = [at |-> "history", code |-> -1, failOn |-> cio.failOn] /\ ThresholdIsTrue'
      BY <1>1, <2>1, GoesOn DEF CheckFlags
    <3>2. QED
      BY <1>1, <1>t, <1>a, <3>1
         DEF CheckFlags, ImageInv, ImageTypes, LayersJudged, ScanIsAnswer, FileKept
  <2>2. CASE Quits(1, "none")
    BY <1>1, <1>t, <2>2, EndsEarly DEF CheckFlags, ImageTypes
  <2>3. QED
    BY <1>1, <2>1, <2>2 DEF CheckFlags
<1>2. CASE ImageHistory
  <2>1. CASE layers' \in History /\ Steps("inspect")
    <3>1. cio' = [at |-> "inspect", code |-> -1, failOn |-> cio.failOn] /\ ThresholdIsTrue'
      BY <1>2, <2>1, GoesOn DEF ImageHistory
    <3>2. findings = {} /\ topLayers.set = {}
      BY <1>2, <1>t DEF ImageHistory, LayersJudged
    <3>3. QED
      BY <1>2, <1>t, <1>a, <2>1, <3>1, <3>2
         DEF ImageHistory, ImageInv, ImageTypes, LayersJudged, ScanIsAnswer, FileKept
  <2>2. CASE Quits(1, "none") /\ UNCHANGED layers
    BY <1>2, <1>t, <2>2, EndsEarly DEF ImageHistory, ImageTypes
  <2>3. QED
    BY <1>2, <2>1, <2>2 DEF ImageHistory
<1>3. CASE InspectAndBuild
  <2>1. CASE Quits(1, "none") /\ UNCHANGED <<findings, topLayers>>
    BY <1>3, <1>t, <2>1, EndsEarly DEF InspectAndBuild, ImageTypes
  <2>2. ASSUME NEW place \in {"scanner", "output"}, Steps(place),
               findings' = AnalyzeLayers(layers), NEW n \in TopFlag,
               topLayers' = [set |-> TopLayers(layers, n), n |-> n]
        PROVE  ImageInv'
    <3>1. cio' = [at |-> place, code |-> -1, failOn |-> cio.failOn] /\ ThresholdIsTrue'
      BY <1>3, <2>2, GoesOn DEF InspectAndBuild
    <3>2. UNCHANGED <<layers, found, scan, reportFile>> /\ cio.at = "inspect" /\ n \in Int
      BY <1>3, ImageAssumption DEF InspectAndBuild
    <3>3. ImageTypes' /\ FileKept'
      BY <1>t, <3>1, <3>2 DEF ImageTypes, FileKept
    <3>4. LayersJudged'
      BY <2>2, <3>1, <3>2 DEF LayersJudged
    <3>5. ScanIsAnswer'
      BY <1>t, <1>a, <3>1, <3>2 DEF ScanIsAnswer, Answer, Accepted
    <3>6. QED
      BY <3>1, <3>3, <3>4, <3>5 DEF ImageInv
  <2>3. QED
    BY <1>3, <2>1, <2>2 DEF InspectAndBuild
<1>4. CASE RunScanner
  <2>1. cio' = [at |-> "parse", code |-> -1, failOn |-> cio.failOn] /\ ThresholdIsTrue'
    BY <1>4, GoesOn DEF RunScanner
  <2>2. UNCHANGED <<layers, findings, topLayers, scan, reportFile>> /\ cio.at = "scanner"
    BY <1>4 DEF RunScanner
  <2>3. scan = NoScan
    BY <1>t, <2>2 DEF ScanIsAnswer
  <2>4. found' \in [did : {"fail", "write-nothing", "write-no-json", "write-other-json", "report"},
                   vulns : Vulnerable]
    BY <1>4 DEF RunScanner
  <2>5. ImageTypes' /\ FileKept'
    BY <1>t, <2>1, <2>2, <2>4 DEF ImageTypes, FileKept
  <2>6. LayersJudged' /\ ScanIsAnswer'
    BY <1>t, <2>1, <2>2, <2>3, <2>4 DEF LayersJudged, ScanIsAnswer
  <2>7. QED
    BY <2>1, <2>5, <2>6 DEF ImageInv
<1>5. CASE ParseScan
  <2>1. cio' = [at |-> "output", code |-> -1, failOn |-> cio.failOn] /\ ThresholdIsTrue'
    BY <1>5, GoesOn DEF ParseScan
  <2>2. UNCHANGED <<layers, findings, topLayers, found, reportFile>> /\ cio.at = "parse"
    BY <1>5 DEF ParseScan
  <2>3. scan' = Answer'
    BY <1>5, <1>t, <1>a, <2>2 DEF ParseScan, ScanIsAnswer, Answer, Accepted
  <2>4. QED
    BY <1>t, <2>1, <2>2, <2>3 DEF ImageInv, ImageTypes, LayersJudged, ScanIsAnswer, FileKept
<1>6. CASE OpenReportFile
  <2>1. CASE Steps("write") /\ reportFile' \in {"old", "partial"}
    <3>1. cio' = [at |-> "write", code |-> -1, failOn |-> cio.failOn] /\ ThresholdIsTrue'
      BY <1>6, <2>1, GoesOn DEF OpenReportFile
    <3>2. QED
      BY <1>6, <1>t, <1>a, <2>1, <3>1
         DEF OpenReportFile, ImageInv, ImageTypes, LayersJudged, ScanIsAnswer, FileKept
  <2>2. CASE Quits(1, "none") /\ UNCHANGED reportFile
    BY <1>6, <1>t, <2>2, EndsEarly DEF OpenReportFile, ImageTypes
  <2>3. QED
    BY <1>6, <2>1, <2>2 DEF OpenReportFile
<1>7. CASE WriteReport
  <2>1. CASE /\ Steps("threshold")
             /\ reportFile' = IF reportFile = "partial" THEN "whole" ELSE reportFile
    <3>1. cio' = [at |-> "threshold", code |-> -1, failOn |-> cio.failOn] /\ ThresholdIsTrue'
      BY <1>7, <2>1, GoesOn DEF WriteReport
    <3>2. QED
      BY <1>7, <1>t, <1>a, <2>1, <3>1
         DEF WriteReport, ImageInv, ImageTypes, LayersJudged, ScanIsAnswer, FileKept
  <2>2. CASE Quits(1, "none") /\ UNCHANGED reportFile
    BY <1>7, <1>t, <2>2, EndsEarly DEF WriteReport, ImageTypes
  <2>3. QED
    BY <1>7, <2>1, <2>2 DEF WriteReport
<1>8. CASE Compare
  <2>1. PICK failOn \in Threshold, code \in {0, 1} :
          Quits(code, failOn) /\ code = IF ExceedsThreshold(failOn) THEN 1 ELSE 0
    BY <1>8 DEF Compare, Threshold
  <2>2. cio' = [at |-> "exited", code |-> code, failOn |-> failOn]
    BY <2>1, CioMoves
  <2>3. UNCHANGED <<layers, findings, topLayers, found, scan, reportFile>> /\ cio.at = "threshold"
    BY <1>8 DEF Compare
  <2>4. ImageTypes' /\ LayersJudged' /\ ScanIsAnswer' /\ FileKept'
    BY <1>t, <1>a, <2>2, <2>3 DEF ImageTypes, LayersJudged, ScanIsAnswer, FileKept
  <2>5. ThresholdIsTrue'
    <3>1. findings = AnalyzeLayers(layers) /\ scan = Answer
      BY <1>t, <2>3 DEF LayersJudged, ScanIsAnswer
    <3>2. CASE failOn = "none"
      BY <2>2, <3>2 DEF ThresholdIsTrue
    <3>3. CASE failOn # "none"
      <4>1. failOn \in Severity \ {"unknown"}
        BY <3>3 DEF Threshold
      <4>2. code = 1 <=>
              \/ \E i \in Judged(layers) : HugeLayerSize > 0 /\ layers[i].size >= HugeLayerSize
                                           /\ Rank("high") >= Rank(failOn)
              \/ /\ found.did = "report"
                 /\ \E i \in DOMAIN found.vulns : Worthy(found.vulns[i], failOn)
              \/ \E f \in findings : f.rule # "layer-too-large"
                                     /\ Rank(f.severity) >= Rank(failOn)
        BY <1>t, <2>1, <3>1, <4>1, ExceedsIsTrue
      <4>3. QED
        BY <2>2, <2>3, <4>2 DEF ThresholdIsTrue
    <3>4. QED
      BY <3>2, <3>3
  <2>6. QED
    BY <2>4, <2>5 DEF ImageInv
<1>9. CASE UNCHANGED imageVars
  <2>1. UNCHANGED <<cio, layers, findings, topLayers, found, scan, reportFile>>
    BY <1>9 DEF imageVars
  <2>2. ImageTypes' /\ LayersJudged' /\ ScanIsAnswer' /\ FileKept'
    BY <1>t, <1>a, <2>1 DEF ImageTypes, LayersJudged, ScanIsAnswer, FileKept
  <2>3. ThresholdIsTrue'
    BY <2>1 DEF ImageInv, ThresholdIsTrue
  <2>4. QED
    BY <2>2, <2>3 DEF ImageInv
<1>10. QED
  BY <1>1, <1>2, <1>3, <1>4, <1>5, <1>6, <1>7, <1>8, <1>9 DEF ImageNext

\* The exit code of cio is true of everything that the layers and a report of the scanner have,
\* however much of it is not shown, and the report calls a scan good only if the scanner ended
\* well and wrote JSON, leaves nothing of its own format out of its counts, shows the largest
\* and the worst, and is never left half written by a run that ends well: for every history of
\* an image and whatever the scanner finds, writes and ends with (ThresholdIsTrue, ReportIsTrue).
\* What a failed scan under a threshold means is not in it.
THEOREM ReportTellsTheTruth == ImageSpec => [](ImageTypeOK /\ ThresholdIsTrue /\ ReportIsTrue)
<1>1. ASSUME ImageInv PROVE scan = NoScan \/ scan = Failed \/
        (Parsed \in Seq(STRING) /\ scan = Summary(Parsed))
  BY <1>1, ParsedIs DEF ImageInv, ImageTypes, ScanIsAnswer, Answer
<1>2. /\ NoScan.went = "not-run" /\ Failed.went = "failed"
      /\ \A D : {NoScan, Failed} \subseteq [went : {"not-run", "failed", "ok"}, total : Nat,
                                           count : [Severity -> Nat], top : SUBSET D]
  BY DEF NoScan, Failed, NoCount
<1>3. ASSUME ImageInv PROVE layers \in Layers
  BY <1>3, HistoryIsLayers DEF ImageInv, ImageTypes
<1>4. ASSUME ImageInv PROVE ImageTypeOK
  <2>1. cio.at \in CioPlace /\ cio.code \in {-1, 0, 1} /\ (cio.code = -1 <=> cio.at # "exited")
    BY <1>4 DEF ImageInv, ImageTypes
  <2>2. \A f \in findings : f.severity \in Severity
    BY <1>4, FindingsAre DEF ImageInv, LayersJudged
  <2>3. topLayers.set \subseteq DOMAIN layers
    BY <1>4 DEF ImageInv, LayersJudged, TopLayers, Foremost
  <2>4. scan \in [went : {"not-run", "failed", "ok"}, total : Nat, count : [Severity -> Nat],
                  top : SUBSET (DOMAIN Parsed)]
    BY <1>4, <1>1, <1>2, SummaryParts
  <2>5. QED
    BY <1>4, <2>1, <2>2, <2>3, <2>4 DEF ImageInv, ImageTypes, ImageTypeOK, CioPlace
<1>5. ASSUME ImageInv PROVE ReportIsTrue
  <2>1. cio.at \in {"output", "write", "threshold"} => (scan.went = "ok" <=> found.did \in Accepted)
    <3>1. Parsed \in Seq(STRING)
      BY <1>5, ParsedIs DEF ImageInv
    <3>2. QED
      BY <1>5, <1>2, <3>1, SummaryParts DEF ImageInv, ScanIsAnswer, Answer
  <2>2. (scan.went = "ok" /\ found.did = "report") =>
          /\ scan.total = Len(found.vulns)
          /\ scan.total = scan.count["critical"] + scan.count["high"] + scan.count["medium"]
                           + scan.count["low"] + scan.count["info"] + scan.count["unknown"]
          /\ scan.top = {} => scan.total = 0
          /\ \A i \in scan.top, j \in (DOMAIN found.vulns) \ scan.top :
               Rank(Normalize(found.vulns[i])) >= Rank(Normalize(found.vulns[j]))
    <3>1. SUFFICES ASSUME found.vulns \in Seq(STRING), scan = Summary(found.vulns)
                   PROVE  /\ scan.total = Len(found.vulns)
                          /\ scan.total = scan.count["critical"] + scan.count["high"]
                                           + scan.count["medium"] + scan.count["low"]
                                           + scan.count["info"] + scan.count["unknown"]
                          /\ scan.top = {} => scan.total = 0
                          /\ \A i \in scan.top, j \in (DOMAIN found.vulns) \ scan.top :
                               Rank(Normalize(found.vulns[i])) >= Rank(Normalize(found.vulns[j]))
      BY <1>1, <1>2, <1>5 DEF Parsed
    <3>2. QED
      BY <3>1, SummaryParts, AllAreCounted, SomeAreShown, WorstAreShown
  <2>3. \A i \in topLayers.set, j \in (DOMAIN layers) \ topLayers.set :
          layers[i].size >= layers[j].size
    BY <1>3, <1>5, LargerLayersShown DEF ImageInv, LayersJudged
  <2>4. /\ reportFile # "old" => cio.at \in {"write", "threshold", "exited"}
        /\ (cio.at = "exited" /\ reportFile = "partial") => cio.code = 1
    BY <1>5 DEF ImageInv, FileKept
  <2>5. QED
    BY <2>1, <2>2, <2>3, <2>4 DEF ReportIsTrue
<1>6. ImageInv => ThresholdIsTrue
  BY DEF ImageInv
<1>7. QED
  BY <1>4, <1>5, <1>6, ImageInitInv, ImageStepInv, PTL DEF ImageSpec
=============================================================================
