------------------------ MODULE LedgerProjectionProofs ------------------------
(***************************************************************************)
(* What an appended event does to the projection of a ledger of any length.*)
(***************************************************************************)
EXTENDS LedgerProjection, NaturalOrder

LEMMA AppendedEvents ==
  ASSUME NEW S, NEW events \in Seq(S), NEW e \in S
  PROVE  LET longer == Append(events, e) IN
         /\ longer \in Seq(S) /\ longer # <<>>
         /\ Len(longer) = Len(events) + 1 /\ Len(events) \in Nat
         /\ DOMAIN events = 1..Len(events) /\ DOMAIN longer = 1..(Len(events) + 1)
         /\ \A i \in DOMAIN events : longer[i] = events[i]
         /\ longer[Len(events) + 1] = e
OBVIOUS

(* Two events at once are one after the other. *)
LEMMA TwoEvents ==
  ASSUME NEW S, NEW events \in Seq(S), NEW e \in S, NEW f \in S
  PROVE  /\ events \o <<e>> = Append(events, e)
         /\ events \o <<e, f>> = Append(Append(events, e), f)
OBVIOUS

(* An event that decides something decides the projection, one that does not
   leaves it as it was. *)
LEMMA ProjectionOfAppended ==
  ASSUME NEW S, NEW events \in Seq(S), NEW e \in S
  PROVE  ProjectOperation(Append(events, e)) =
           IF e \in DOMAIN FinalStateOf THEN FinalStateOf[e]
           ELSE IF events = <<>> THEN "PROPOSED" ELSE ProjectOperation(events)
<1> DEFINE longer == Append(events, e)
           last == Len(events) + 1
<1>1. /\ longer \in Seq(S) /\ longer # <<>>
      /\ last \in Nat /\ last \notin DOMAIN events
      /\ DOMAIN longer = DOMAIN events \cup {last} /\ DOMAIN events \subseteq Nat
      /\ \A i \in DOMAIN events : longer[i] = events[i] /\ i <= last
      /\ longer[last] = e
  BY AppendedEvents
<1> HIDE DEF longer, last
<1>2. CASE e \in DOMAIN FinalStateOf
  <2>1. last \in Deciding(longer) /\ \A i \in Deciding(longer) : last >= i
    BY <1>1, <1>2 DEF Deciding
  <2>2. ASSUME NEW i \in Deciding(longer), \A j \in Deciding(longer) : i >= j
        PROVE  i = last
    BY <1>1, <2>1, <2>2 DEF Deciding
  <2>3. Max(Deciding(longer)) = last
    BY <2>1, <2>2 DEF Max
  <2> QED
    BY <1>1, <1>2, <2>1, <2>3 DEF ProjectOperation, longer
<1>3. CASE e \notin DOMAIN FinalStateOf
  <2>1. Deciding(longer) = Deciding(events)
    BY <1>1, <1>3 DEF Deciding
  <2>2. CASE events = <<>>
    <3>1. Deciding(events) = {}
      BY <2>2 DEF Deciding
    <3> QED
      BY <1>1, <1>3, <2>1, <2>2, <3>1 DEF ProjectOperation, longer
  <2>3. CASE events # <<>> /\ Deciding(events) = {}
    BY <1>1, <1>3, <2>1, <2>3 DEF ProjectOperation, longer
  <2>4. CASE events # <<>> /\ Deciding(events) # {}
    <3>1. Deciding(events) \in SUBSET Nat /\ Len(events) \in Nat
          /\ Deciding(events) \subseteq DOMAIN events
          /\ \A i \in Deciding(events) : i <= Len(events)
      BY DEF Deciding
    <3>2. \E i \in Deciding(events) : \A j \in Deciding(events) : i >= j
      BY <2>4, <3>1, GreatestNat
    <3>3. Max(Deciding(events)) \in Deciding(events)
      BY <3>2 DEF Max
    <3> QED
      BY <1>1, <1>3, <2>1, <2>4, <3>1, <3>3 DEF ProjectOperation, longer
  <2> QED
    BY <2>2, <2>3, <2>4
<1> QED
  BY <1>2, <1>3

(* A projected state was decided by one of the events. *)
LEMMA ProjectionIsDecided ==
  ASSUME NEW S, NEW events \in Seq(S),
         ProjectOperation(events) \notin {"NO_EVENTS", "PROPOSED"}
  PROVE  \E i \in Deciding(events) :
           FinalStateOf[events[i]] = ProjectOperation(events)
<1>1. events # <<>> /\ Deciding(events) # {}
  BY DEF ProjectOperation
<1>2. /\ Deciding(events) \in SUBSET Nat /\ Len(events) \in Nat
      /\ \A i \in Deciding(events) : i <= Len(events)
  BY DEF Deciding
<1>3. \E i \in Deciding(events) : \A j \in Deciding(events) : i >= j
  BY <1>1, <1>2, GreatestNat
<1>4. Max(Deciding(events)) \in Deciding(events)
  BY <1>3 DEF Max
<1> QED
  BY <1>1, <1>4 DEF ProjectOperation

(* It shows its own stage besides those that were seen before, it disturbs
   none that was seen, and what was seen came before it. *)
LEMMA StagesOfAppended ==
  ASSUME NEW S, NEW events \in Seq(S), NEW e \in S
  PROVE  LET longer == Append(events, e) IN
         /\ StagesSeen(longer) =
              StagesSeen(events) \cup (IF e \in DOMAIN StageOf THEN {StageOf[e]} ELSE {})
         /\ \A a, b : SeenBefore(events, a, b) => SeenBefore(longer, a, b)
         /\ \A a \in StagesSeen(events), b \in Stages \ StagesSeen(events) :
              SeenBefore(longer, a, b)
<1> DEFINE longer == Append(events, e)
           last == Len(events) + 1
<1>1. /\ last \in Nat /\ last \notin DOMAIN events
      /\ DOMAIN longer = DOMAIN events \cup {last} /\ DOMAIN events \subseteq Nat
      /\ \A i \in DOMAIN events : longer[i] = events[i] /\ i < last
      /\ longer[last] = e
  BY AppendedEvents
<1> HIDE DEF longer, last
<1>2. ASSUME NEW stage
      PROVE  Positions(longer, stage) =
               Positions(events, stage) \cup
                 (IF e \in DOMAIN StageOf /\ StageOf[e] = stage THEN {last} ELSE {})
  BY <1>1 DEF Positions
<1>3. e \in DOMAIN StageOf => StageOf[e] \in Stages
  BY DEF StageOf, Stages
<1>4. \A stage : Positions(events, stage) \subseteq DOMAIN events
  BY DEF Positions
<1>5. StagesSeen(longer) =
        StagesSeen(events) \cup (IF e \in DOMAIN StageOf THEN {StageOf[e]} ELSE {})
  BY <1>2, <1>3 DEF StagesSeen
<1>6. ASSUME NEW a, NEW b, SeenBefore(events, a, b) PROVE SeenBefore(longer, a, b)
  BY <1>1, <1>2, <1>4, <1>6 DEF SeenBefore
<1>7. ASSUME NEW a \in StagesSeen(events), NEW b \in Stages \ StagesSeen(events)
      PROVE  SeenBefore(longer, a, b)
  BY <1>1, <1>2, <1>4 DEF SeenBefore, StagesSeen
<1> QED
  BY <1>5, <1>6, <1>7 DEF longer

=============================================================================
