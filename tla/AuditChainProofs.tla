--------------------------- MODULE AuditChainProofs ---------------------------
(***************************************************************************)
(* What holds of every ledger whatever the payloads, the number of ledgers *)
(* and the bounds: an appended entry continues the chain and breaks none   *)
(* of the entries before it; and an entry of a copy that the check has got *)
(* past vouches, hash by hash, for all that came before it.                *)
(***************************************************************************)
EXTENDS AuditChain, NaturalOrder, SequenceTheorems

(* Append needs to know that a ledger is a sequence, of whatever it holds. *)
LedgersAreSequences ==
  /\ DOMAIN ledgers = Ledgers
  /\ \A l \in Ledgers : \E S : ledgers[l] \in Seq(S)

Intact(entries) == \A i \in 1..Len(entries) : FaultAt(entries, i) = "none"

(* The inductive invariant: appending looks at the last hash only, so the
   chain has to be intact entry by entry for the next one to fit. *)
ChainInv ==
  /\ ledgers = [l \in Ledgers |-> ledgers[l]]
  /\ LedgersAreSequences
  /\ \A l \in Ledgers : Intact(ledgers[l])

(* buildLedgerEntry, given the next position and the last hash, keeps an
   intact chain intact. *)
LEMMA BuiltEntryFits ==
  ASSUME NEW S, NEW entries \in Seq(S), Intact(entries), NEW payload
  PROVE  LET next == Len(entries) + 1 IN
         Intact(Append(entries, BuildLedgerEntry(payload, next, LinkAt(entries, next))))
<1> DEFINE next == Len(entries) + 1
           entry == BuildLedgerEntry(payload, next, LinkAt(entries, next))
           longer == Append(entries, entry)
<1>1. longer \in Seq(S \cup {entry}) /\ Len(longer) = next /\ next \in Nat
  OBVIOUS
<1>2. longer[next] = entry /\ \A i \in 1..Len(entries) : longer[i] = entries[i]
  OBVIOUS
<1>3. SUFFICES ASSUME NEW i \in 1..next PROVE FaultAt(longer, i) = "none"
  BY <1>1 DEF Intact
<1>4. LinkAt(longer, i) = LinkAt(entries, i)
  BY <1>2 DEF LinkAt
<1>5. CASE i = next
  <2>1. /\ entry.sequence = next
        /\ entry.prevHash = LinkAt(entries, next)
        /\ entry.hash = EntryHash(next, entry.payload, entry.prevHash)
    BY DEF BuildLedgerEntry
  <2> QED
    BY <1>2, <1>4, <1>5, <2>1 DEF FaultAt
<1>6. CASE i # next
  <2>1. i \in 1..Len(entries)
    BY <1>6
  <2> QED
    BY <1>2, <1>4, <2>1 DEF FaultAt, Intact
<1> QED
  BY <1>5, <1>6

(* The invariant holds initially: there is nothing to check. *)
LEMMA ChainInvInitially == Init => ChainInv
<1> SUFFICES ASSUME Init PROVE ChainInv
  OBVIOUS
<1>1. \A l \in Ledgers : ledgers[l] = <<>> /\ Len(ledgers[l]) = 0 /\ ledgers[l] \in Seq({})
  BY DEF Init
<1> QED
  BY <1>1 DEF Init, ChainInv, LedgersAreSequences, Intact

(* append extends one ledger by an entry that fits. *)
LEMMA AppendKeepsChains ==
  ASSUME ChainInv, NEW l \in Ledgers, NEW payload \in Payloads, AppendEntry(l, payload)
  PROVE  ChainInv'
<1> DEFINE next == Len(ledgers[l]) + 1
           entry == BuildLedgerEntry(payload, next, LinkAt(ledgers[l], next))
           longer == Append(ledgers[l], entry)
<1>1. ledgers' = [ledgers EXCEPT ![l] = longer]
  BY DEF AppendEntry
<1>2. ledgers'[l] = longer /\ \A m \in Ledgers \ {l} : ledgers'[m] = ledgers[m]
  BY <1>1 DEF ChainInv
<1>3. PICK S : ledgers[l] \in Seq(S)
  BY DEF ChainInv, LedgersAreSequences
<1>4. longer \in Seq(S \cup {entry})
  BY <1>3
<1>5. Intact(longer)
  <2>1. Intact(ledgers[l])
    BY DEF ChainInv
  <2> QED
    BY <1>3, <2>1, BuiltEntryFits
<1>6. \A m \in Ledgers : Intact(ledgers'[m])
  BY <1>2, <1>5 DEF ChainInv
<1>7. \A m \in Ledgers : \E T : ledgers'[m] \in Seq(T)
  <2>1. \E T : ledgers'[l] \in Seq(T)
    BY <1>2, <1>4
  <2>2. ASSUME NEW m \in Ledgers, m # l PROVE \E T : ledgers'[m] \in Seq(T)
    <3>1. PICK T : ledgers[m] \in Seq(T)
      BY DEF ChainInv, LedgersAreSequences
    <3> QED
      BY <1>2, <2>2, <3>1
  <2> QED
    BY <2>1, <2>2
<1>8. ledgers' = [m \in Ledgers |-> ledgers'[m]] /\ DOMAIN ledgers' = Ledgers
  BY <1>1 DEF ChainInv
<1>9. \A m \in Ledgers : Intact(ledgers[m])'
  <2> SUFFICES ASSUME NEW m \in Ledgers PROVE Intact(ledgers[m])'
    OBVIOUS
  <2>1. Intact(ledgers'[m])
    BY <1>6
  <2> QED
    BY <2>1 DEF Intact, FaultAt, LinkAt
<1> QED
  BY <1>7, <1>8, <1>9 DEF ChainInv, LedgersAreSequences

(* Nothing but append touches a ledger. *)
LEMMA ChainInvKept == ChainInv /\ [Next]_vars => ChainInv'
<1> SUFFICES ASSUME ChainInv, [Next]_vars PROVE ChainInv'
  OBVIOUS
<1>1. ASSUME NEW l \in Ledgers, NEW payload \in Payloads, AppendEntry(l, payload)
      PROVE  ChainInv'
  BY <1>1, AppendKeepsChains
<1>2. ASSUME UNCHANGED ledgers PROVE ChainInv'
  BY <1>2 DEF ChainInv, LedgersAreSequences, Intact, FaultAt, LinkAt
<1>3. ASSUME NEW l \in Ledgers, Export(l) \/ NoteCount(l) PROVE UNCHANGED ledgers
  BY <1>3 DEF Export, NoteCount
<1>4. ASSUME Edit PROVE UNCHANGED ledgers
  BY <1>4 DEF Edit, Rewrite, RemoveEntry, Exchange, Splice, Rebuild, Becomes
<1>5. ASSUME UNCHANGED vars PROVE UNCHANGED ledgers
  BY <1>5 DEF vars
<1> QED
  BY <1>1, <1>2, <1>3, <1>4, <1>5 DEF Next

(* A ledger that only append has touched verifies, however long it is and
   whatever was redacted, with its own length as the expected count too. *)
UntouchedLedgerVerifies ==
  \A l \in Ledgers : Verifies(ledgers[l], Len(ledgers[l]))

(* An intact chain has no broken entry, and it is as long as it is. *)
LEMMA IntactVerifies == ChainInv => UntouchedLedgerVerifies
<1> SUFFICES ASSUME ChainInv, NEW l \in Ledgers
             PROVE  Verifies(ledgers[l], Len(ledgers[l]))
  BY DEF UntouchedLedgerVerifies
<1>1. PICK S : ledgers[l] \in Seq(S)
  BY DEF ChainInv, LedgersAreSequences
<1>2. DOMAIN ledgers[l] = 1..Len(ledgers[l])
  BY <1>1
<1> QED
  BY <1>2 DEF ChainInv, Intact, Verifies, Broken

(* Whatever is appended, in whatever order and to however many ledgers, a
   ledger that only AuditLedger.append has touched passes
   verifyLedgerIntegrity, with its length as the expected count. *)
THEOREM LedgersVerify == Spec => []UntouchedLedgerVerifies
<1>1. Init => ChainInv
  BY ChainInvInitially
<1>2. ChainInv /\ [Next]_vars => ChainInv'
  BY ChainInvKept
<1>3. ChainInv => UntouchedLedgerVerifies
  BY IntactVerifies
<1> QED
  BY <1>1, <1>2, <1>3, PTL DEF Spec

-----------------------------------------------------------------------------
(* What the lists hold.                                                     *)

IsEntry(e) ==
  /\ e = [sequence |-> e.sequence, payload |-> e.payload,
          prevHash |-> e.prevHash, hash |-> e.hash]
  /\ e.sequence \in 1..MaxEntries
  /\ e.payload \in Contents

(* A list of entries, short enough for its positions to be sequence numbers. *)
Listed(entries) ==
  /\ \E S : entries \in Seq(S) /\ \A e \in S : IsEntry(e)
  /\ Len(entries) <= MaxEntries

ListsInv ==
  /\ \A l \in Ledgers : Listed(ledgers[l])
  /\ Listed(copy)
  /\ edits \in 0..MaxEdits
  /\ noted # Unknown => noted.ledger \in Ledgers /\ Listed(noted.entries)

LEMMA ListedEntries ==
  ASSUME NEW entries, Listed(entries)
  PROVE  /\ DOMAIN entries = 1..Len(entries) /\ Len(entries) \in 0..MaxEntries
         /\ \A i \in 1..Len(entries) : IsEntry(entries[i])
<1>1. PICK S : entries \in Seq(S) /\ \A e \in S : IsEntry(e)
  BY DEF Listed
<1>2. Len(entries) \in Nat /\ DOMAIN entries = 1..Len(entries)
  BY <1>1
<1>3. \A i \in 1..Len(entries) : entries[i] \in S
  BY <1>1, ElementOfSeq
<1> QED
  BY <1>1, <1>2, <1>3, ChainAssumption DEF Listed

LEMMA ReplacedEntry ==
  ASSUME NEW entries, Listed(entries), NEW i \in 1..Len(entries), NEW e, IsEntry(e)
  PROVE  LET other == [entries EXCEPT ![i] = e] IN
         Listed(other) /\ Len(other) = Len(entries)
<1>1. PICK S : entries \in Seq(S) /\ \A f \in S : IsEntry(f)
  BY DEF Listed
<1>2. entries \in Seq(S \cup {e})
  BY <1>1, SeqMonotonic
<1>3. /\ [entries EXCEPT ![i] = e] \in Seq(S \cup {e})
      /\ Len([entries EXCEPT ![i] = e]) = Len(entries)
  BY <1>2, ExceptSeq
<1> QED
  BY <1>1, <1>3 DEF Listed

LEMMA RemovedEntry ==
  ASSUME NEW entries, Listed(entries), NEW i \in 1..Len(entries)
  PROVE  Listed(RemoveAt(entries, i))
<1> DEFINE before == SubSeq(entries, 1, i - 1)
           after == SubSeq(entries, i + 1, Len(entries))
<1>1. PICK S : entries \in Seq(S) /\ \A e \in S : IsEntry(e)
  BY DEF Listed
<1>2. Len(entries) \in Nat /\ \A j \in 1..Len(entries) : entries[j] \in S
  BY <1>1, ElementOfSeq
<1>3. before \in Seq(S) /\ Len(before) = i - 1
  <2>1. 1 \in Int /\ i - 1 \in Int /\ \A j \in 1..(i - 1) : entries[j] \in S
    BY <1>2
  <2> QED
    BY <2>1, SubSeqProperties
<1>4. after \in Seq(S) /\ Len(after) = Len(entries) - i
  <2>1. i + 1 \in Int /\ Len(entries) \in Int
        /\ \A j \in (i + 1)..Len(entries) : entries[j] \in S
    BY <1>2
  <2> QED
    BY <1>2, <2>1, SubSeqProperties
<1>5. before \o after \in Seq(S) /\ Len(before \o after) = Len(entries) - 1
  <2> HIDE DEF before, after
  <2> QED
    BY <1>2, <1>3, <1>4, ConcatProperties
<1>6. Len(before \o after) <= MaxEntries
  <2>1. Len(entries) <= MaxEntries
    BY DEF Listed
  <2>2. MaxEntries \in Nat
    BY ChainAssumption
  <2> HIDE DEF before, after
  <2> QED
    BY <1>2, <1>5, <2>1, <2>2
<1> QED
  BY <1>1, <1>5, <1>6 DEF Listed, RemoveAt

(* redactPayload leaves nothing of a credential. *)
LEMMA BuiltEntryIsTyped ==
  ASSUME NEW payload \in Payloads, NEW sequence \in 1..MaxEntries, NEW prevHash
  PROVE  IsEntry(BuildLedgerEntry(payload, sequence, prevHash))
BY ChainAssumption DEF IsEntry, BuildLedgerEntry, RedactPayload, Contents

LEMMA AppendedEntry ==
  ASSUME NEW entries, Listed(entries), Len(entries) + 1 <= MaxEntries, NEW e, IsEntry(e)
  PROVE  Listed(Append(entries, e))
<1>1. PICK S : entries \in Seq(S) /\ \A f \in S : IsEntry(f)
  BY DEF Listed
<1>2. Append(entries, e) \in Seq(S \cup {e}) /\ Len(Append(entries, e)) = Len(entries) + 1
  BY <1>1
<1> QED
  BY <1>1, <1>2 DEF Listed

LEMMA ListsInvInitially == Init => ListsInv
<1>1. Listed(<<>>)
  <2> DEFINE nothing == {}
  <2>1. <<>> \in Seq(nothing) /\ (\A e \in nothing : IsEntry(e)) /\ Len(<<>>) = 0
    OBVIOUS
  <2>2. 0 <= MaxEntries
    BY ChainAssumption
  <2> HIDE DEF nothing
  <2> QED
    BY <2>1, <2>2 DEF Listed
<1> QED
  BY <1>1, ChainAssumption DEF Init, ListsInv

(* Every change leaves a list of entries. *)
LEMMA EditsKeepLists ==
  ASSUME ChainInv, ListsInv, Edit
  PROVE  ListsInv'
<1>1. SUFFICES ASSUME NEW entries, Becomes(entries), Listed(entries) PROVE ListsInv'
  <2>1. Listed(copy) /\ DOMAIN copy = 1..Len(copy) /\ Len(copy) \in 0..MaxEntries
        /\ \A i \in 1..Len(copy) : IsEntry(copy[i])
    BY ListedEntries DEF ListsInv
  <2>2. ASSUME NEW i \in 1..Len(copy), NEW content \in Contents, Rewrite(i, content)
        PROVE  \E entries : Becomes(entries) /\ Listed(entries)
    <3> DEFINE e == [copy[i] EXCEPT !.payload = content]
    <3>1. IsEntry(e)
      BY <2>1 DEF IsEntry
    <3>2. [copy EXCEPT ![i].payload = content] = [copy EXCEPT ![i] = e]
      OBVIOUS
    <3> HIDE DEF e
    <3> QED
      BY <2>1, <2>2, <3>1, <3>2, ReplacedEntry DEF Rewrite
  <2>3. ASSUME NEW i \in 1..Len(copy), RemoveEntry(i)
        PROVE  \E entries : Becomes(entries) /\ Listed(entries)
    BY <2>1, <2>3, RemovedEntry DEF RemoveEntry
  <2>4. ASSUME NEW i \in 1..Len(copy), NEW j \in 1..Len(copy), Exchange(i, j)
        PROVE  \E entries : Becomes(entries) /\ Listed(entries)
    <3> DEFINE once == [copy EXCEPT ![i] = copy[j]]
               twice == [once EXCEPT ![j] = copy[i]]
    <3>1. Listed(once) /\ Len(once) = Len(copy)
      BY <2>1, ReplacedEntry
    <3>2. [copy EXCEPT ![i] = copy[j], ![j] = copy[i]] = twice
      OBVIOUS
    <3> HIDE DEF once
    <3>3. Listed(twice)
      BY <2>1, <3>1, ReplacedEntry
    <3> QED
      BY <2>4, <3>2, <3>3 DEF Exchange
  <2>5. ASSUME NEW i \in 1..Len(copy), NEW l \in Ledgers, NEW j \in DOMAIN ledgers[l],
               Splice(i, l, j)
        PROVE  \E entries : Becomes(entries) /\ Listed(entries)
    <3>1. IsEntry(ledgers[l][j])
      <4>1. Listed(ledgers[l])
        BY DEF ListsInv
      <4> QED
        BY <4>1, ListedEntries
    <3>2. Listed([copy EXCEPT ![i] = ledgers[l][j]])
      BY <2>1, <3>1, ReplacedEntry
    <3> QED
      BY <2>5, <3>2 DEF Splice
  <2>6. ASSUME NEW i \in 1..Len(copy), Rebuild(i)
        PROVE  \E entries : Becomes(entries) /\ Listed(entries)
    <3> DEFINE e == [sequence |-> i, payload |-> copy[i].payload, prevHash |-> LinkAt(copy, i),
                     hash |-> EntryHash(i, copy[i].payload, LinkAt(copy, i))]
    <3>1. i \in 1..MaxEntries
      BY <2>1, ChainAssumption
    <3>2. copy[i].payload \in Contents
      BY <2>1 DEF IsEntry
    <3>3. IsEntry(e)
      BY <3>1, <3>2 DEF IsEntry
    <3>4. Becomes([copy EXCEPT ![i] = e])
      BY <2>6 DEF Rebuild
    <3> HIDE DEF e
    <3> QED
      BY <2>1, <3>3, <3>4, ReplacedEntry
  <2>7. \E entries : Becomes(entries) /\ Listed(entries)
    BY <2>1, <2>2, <2>3, <2>4, <2>5, <2>6 DEF Edit
  <2> QED
    BY <2>7
<1>2. /\ copy' = entries /\ edits' = edits + 1 /\ edits < MaxEdits
      /\ UNCHANGED <<ledgers, noted>>
  BY <1>1 DEF Becomes
<1>3. edits' \in 0..MaxEdits
  BY <1>2, ChainAssumption DEF ListsInv
<1>4. Listed(copy')
  BY <1>1, <1>2
<1> QED
  BY <1>2, <1>3, <1>4 DEF ListsInv, Listed

LEMMA ListsInvKept == ChainInv /\ ListsInv /\ [Next]_vars => ListsInv'
<1> SUFFICES ASSUME ChainInv, ListsInv, [Next]_vars PROVE ListsInv'
  OBVIOUS
<1>1. ASSUME NEW l \in Ledgers, NEW payload \in Payloads, AppendEntry(l, payload)
      PROVE  ListsInv'
  <2> DEFINE next == Len(ledgers[l]) + 1
             entry == BuildLedgerEntry(payload, next, LinkAt(ledgers[l], next))
             longer == Append(ledgers[l], entry)
  <2>1. /\ next <= MaxEntries /\ ledgers' = [ledgers EXCEPT ![l] = longer]
        /\ UNCHANGED <<copy, edits, noted>>
    BY <1>1 DEF AppendEntry
  <2>2. Listed(ledgers[l])
    BY DEF ListsInv
  <2>3. next \in 1..MaxEntries
    BY <2>1, <2>2, ListedEntries, ChainAssumption
  <2>4. Listed(longer)
    BY <2>1, <2>2, <2>3, BuiltEntryIsTyped, AppendedEntry
  <2> HIDE DEF longer
  <2>5. \A m \in Ledgers : Listed(ledgers'[m])
    BY <2>1, <2>4 DEF ChainInv, ListsInv
  <2> QED
    BY <2>1, <2>5 DEF ListsInv, Listed
<1>2. ASSUME NEW l \in Ledgers, Export(l) PROVE ListsInv'
  <2>1. Listed(ledgers[l]) /\ 0 \in 0..MaxEdits
    BY ChainAssumption DEF ListsInv
  <2>2. Listed(copy')
    BY <1>2, <2>1 DEF Export
  <2> QED
    BY <1>2, <2>1, <2>2 DEF Export, ListsInv, Listed
<1>3. ASSUME NEW l \in Ledgers, NoteCount(l) PROVE ListsInv'
  <2>1. Listed(ledgers[l])
    BY DEF ListsInv
  <2>2. noted'.ledger \in Ledgers /\ Listed(noted'.entries)
    BY <1>3, <2>1 DEF NoteCount
  <2> QED
    BY <1>3, <2>2 DEF NoteCount, ListsInv, Listed
<1>4. ASSUME UNCHANGED vars PROVE ListsInv'
  BY <1>4 DEF vars, ListsInv, Listed
<1> QED
  BY <1>1, <1>2, <1>3, <1>4, EditsKeepLists DEF Next

THEOREM ListsAreKept == Spec => [](ChainInv /\ ListsInv)
BY ChainInvInitially, ChainInvKept, ListsInvInitially, ListsInvKept, PTL DEF Spec

(* Ledgers and copies hold numbered, redacted entries. *)
THEOREM ListsAreTyped == Spec => []TypeOK
<1>1. ListsInv => TypeOK
  <2> SUFFICES ASSUME ListsInv PROVE TypeOK
    OBVIOUS
  <2>1. ASSUME NEW entries, Listed(entries)
        PROVE  Len(entries) <= MaxEntries /\ EntriesTyped(entries)
    BY <2>1, ListedEntries DEF EntriesTyped, IsEntry, Listed
  <2> QED
    BY <2>1 DEF ListsInv, TypeOK
<1> QED
  BY <1>1, ListsAreKept, PTL

-----------------------------------------------------------------------------
(* What an entry vouches for.                                               *)

(* Whatever the loop has got past has no fault. *)
LEMMA CheckedHaveNoFault ==
  ASSUME NEW entries, Listed(entries), NEW i \in 1..CheckedEntries(entries)
  PROVE  /\ i \in 1..Len(entries)
         /\ \A j \in 1..i : FaultAt(entries, j) = "none"
<1>1. DOMAIN entries = 1..Len(entries) /\ Len(entries) \in Nat
  BY ListedEntries, ChainAssumption
<1>2. CASE Broken(entries) = {}
  BY <1>1, <1>2 DEF CheckedEntries, Broken
<1>3. CASE Broken(entries) # {}
  <2> DEFINE first == Min(Broken(entries))
  <2>1. Broken(entries) \in SUBSET Nat /\ Broken(entries) \subseteq 1..Len(entries)
    BY <1>1 DEF Broken
  <2>2. \E n \in Broken(entries) : \A m \in Broken(entries) : n <= m
    BY <1>3, <2>1, LeastNat
  <2>3. first \in Broken(entries) /\ \A m \in Broken(entries) : first <= m
    BY <2>2 DEF Min
  <2>4. CheckedEntries(entries) = first - 1
    BY <1>3 DEF CheckedEntries
  <2> HIDE DEF first
  <2>5. first \in 1..Len(entries)
    BY <2>1, <2>3
  <2>6. i \in 1..Len(entries) /\ i < first
    BY <1>1, <2>4, <2>5
  <2>7. ASSUME NEW j \in 1..i PROVE FaultAt(entries, j) = "none"
    <3>1. j \in 1..Len(entries) /\ ~ (first <= j)
      BY <1>1, <2>5, <2>6
    <3>2. j \notin Broken(entries)
      BY <2>3, <3>1
    <3> QED
      BY <1>1, <3>1, <3>2 DEF Broken
  <2> QED
    BY <2>6, <2>7
<1> QED
  BY <1>2, <1>3

(* What an entry without a fault is, but for its payload and its link. *)
LEMMA FaultlessEntry ==
  ASSUME NEW entries, NEW i, FaultAt(entries, i) = "none"
  PROVE  /\ entries[i].sequence = i
         /\ entries[i].prevHash = LinkAt(entries, i)
         /\ entries[i].hash = EntryHash(i, entries[i].payload, entries[i].prevHash)
BY DEF FaultAt

(* The only property of the hash that is used. *)
LEMMA HashesDiffer ==
  ASSUME NEW m, NEW n, NEW p, NEW q, NEW g, NEW h, EntryHash(m, p, g) = EntryHash(n, q, h)
  PROVE  m = n /\ p = q /\ g = h
BY DEF EntryHash

(* Two faultless lists that agree on one hash agree on all that comes before:
   there is no last position before it at which they do not. *)
LEMMA EqualHashesEqualPasts ==
  ASSUME NEW entries, NEW issued, NEW i \in Nat \ {0}, NEW k \in Nat,
         \A j \in 1..i : FaultAt(entries, j) = "none",
         \A j \in 1..k : FaultAt(issued, j) = "none",
         k # 0, entries[i].hash = issued[k].hash
  PROVE  i = k /\ \A j \in 1..i : /\ entries[j].sequence = issued[j].sequence
                                  /\ entries[j].payload = issued[j].payload
                                  /\ entries[j].prevHash = issued[j].prevHash
                                  /\ entries[j].hash = issued[j].hash
<1>1. ASSUME NEW m \in 1..i, NEW n \in 1..k, entries[m].hash = issued[n].hash
      PROVE  m = n /\ entries[m].payload = issued[n].payload
                   /\ entries[m].prevHash = issued[n].prevHash
  <2>1. /\ entries[m].hash = EntryHash(m, entries[m].payload, entries[m].prevHash)
        /\ issued[n].hash = EntryHash(n, issued[n].payload, issued[n].prevHash)
    BY FaultlessEntry
  <2>2. EntryHash(m, entries[m].payload, entries[m].prevHash) =
          EntryHash(n, issued[n].payload, issued[n].prevHash)
    BY <1>1, <2>1
  <2> QED
    BY <2>2, HashesDiffer
<1>2. i = k
  BY <1>1
<1>3. ASSUME NEW j \in 1..i PROVE entries[j].hash = issued[j].hash
  <2> DEFINE differing == {m \in 1..i : entries[m].hash # issued[m].hash}
  <2>1. SUFFICES ASSUME differing # {} PROVE FALSE
    BY <2>1
  <2>2. differing \in SUBSET Nat /\ \A m \in differing : m <= i
    OBVIOUS
  <2>3. PICK n \in differing : \A m \in differing : n >= m
    <3> HIDE DEF differing
    <3> QED
      BY <2>1, <2>2, GreatestNat
  <2>4. n \in 1..i /\ n # i /\ n + 1 \in 1..i /\ n + 1 \notin differing
    BY <1>2, <2>3
  <2>5. entries[n + 1].hash = issued[n + 1].hash
    BY <2>4
  <2>6. entries[n + 1].prevHash = issued[n + 1].prevHash
    BY <1>1, <1>2, <2>4, <2>5
  <2>7. entries[n + 1].prevHash = entries[n].hash /\ issued[n + 1].prevHash = issued[n].hash
    <3>1. n + 1 # 1 /\ (n + 1) - 1 = n
      BY <2>4
    <3>2. LinkAt(entries, n + 1) = entries[n].hash /\ LinkAt(issued, n + 1) = issued[n].hash
      BY <3>1 DEF LinkAt
    <3> QED
      BY <1>2, <2>4, <3>2, FaultlessEntry
  <2> QED
    BY <2>3, <2>6, <2>7
<1>4. ASSUME NEW j \in 1..i
      PROVE  /\ entries[j].sequence = issued[j].sequence
             /\ entries[j].payload = issued[j].payload
             /\ entries[j].prevHash = issued[j].prevHash
             /\ entries[j].hash = issued[j].hash
  BY <1>1, <1>2, <1>3, FaultlessEntry
<1> QED
  BY <1>2, <1>4

LEMMA EqualEntriesPrefix ==
  ASSUME NEW entries, Listed(entries), NEW issued, Listed(issued),
         NEW i \in 1..Len(entries), i <= Len(issued),
         \A j \in 1..i : entries[j] = issued[j]
  PROVE  IsPrefix(SubSeq(entries, 1, i), issued)
<1> DEFINE part == SubSeq(entries, 1, i)
<1>1. PICK S : entries \in Seq(S) /\ \A e \in S : IsEntry(e)
  BY DEF Listed
<1>2. Len(entries) \in Nat /\ i \in Int /\ 1 \in Int
  BY <1>1
<1>3. \A j \in 1..i : entries[j] \in S
  BY <1>1, <1>2, ElementOfSeq
<1>4. /\ part \in Seq(S) /\ Len(part) = i
      /\ \A j \in 1..i : part[j] = entries[j]
  BY <1>2, <1>3, SubSeqProperties
<1>5. /\ SubSeq(issued, 1, i) \in Seq(S) /\ Len(SubSeq(issued, 1, i)) = i
      /\ \A j \in 1..i : SubSeq(issued, 1, i)[j] = issued[j]
  BY <1>2, <1>3, SubSeqProperties
<1> HIDE DEF part
<1>6. SubSeq(issued, 1, i) = part
  BY <1>4, <1>5, SeqEqual
<1>7. SubSeq(part, 1, i) = part
  BY <1>4, SubSeqFull
<1> QED
  BY <1>4, <1>6, <1>7 DEF IsPrefix, part

LEMMA CheckedEntriesVouch ==
  ASSUME ChainInv, ListsInv, NEW l \in Ledgers, NEW i \in 1..CheckedEntries(copy),
         IssuedBy(l, copy[i].hash)
  PROVE  /\ i <= Len(ledgers[l])
         /\ \A j \in 1..i : copy[j] = ledgers[l][j]
         /\ IsPrefix(SubSeq(copy, 1, i), ledgers[l])
<1> DEFINE issued == ledgers[l]
<1>2. PICK k \in DOMAIN issued : issued[k].hash = copy[i].hash
  BY DEF IssuedBy
<1>3. Listed(copy) /\ Listed(issued) /\ Intact(issued)
  BY DEF ListsInv, ChainInv
<1> HIDE DEF issued
<1>4. /\ i \in 1..Len(copy) /\ Len(copy) \in Nat
      /\ \A j \in 1..i : FaultAt(copy, j) = "none"
  BY <1>3, CheckedHaveNoFault, ListedEntries, ChainAssumption
<1>5. k \in 1..Len(issued) /\ Len(issued) \in Nat
  BY <1>3, ListedEntries, ChainAssumption
<1>6. \A j \in 1..k : FaultAt(issued, j) = "none"
  BY <1>3, <1>5 DEF Intact
<1>7. i = k /\ \A j \in 1..i : /\ copy[j].sequence = issued[j].sequence
                              /\ copy[j].payload = issued[j].payload
                              /\ copy[j].prevHash = issued[j].prevHash
                              /\ copy[j].hash = issued[j].hash
  BY <1>2, <1>4, <1>5, <1>6, EqualHashesEqualPasts
<1>8. ASSUME NEW j \in 1..i PROVE copy[j] = issued[j]
  <2>1. j \in 1..Len(copy) /\ j \in 1..Len(issued)
    BY <1>4, <1>5, <1>7
  <2>2. IsEntry(copy[j]) /\ IsEntry(issued[j])
    BY <1>3, <2>1, ListedEntries
  <2> QED
    BY <1>7, <2>2 DEF IsEntry
<1>9. IsPrefix(SubSeq(copy, 1, i), issued)
  BY <1>3, <1>4, <1>5, <1>7, <1>8, EqualEntriesPrefix
<1> QED
  BY <1>5, <1>7, <1>8, <1>9 DEF issued

(* A checked entry with a hash that a ledger computed is preceded, in the
   copy, by just what precedes it in the ledger. *)
THEOREM EntriesVouch == Spec => []EntryVouchesForItsPast
<1>1. ChainInv /\ ListsInv => EntryVouchesForItsPast
  <2> SUFFICES ASSUME ChainInv, ListsInv, NEW i \in 1..CheckedEntries(copy),
                      Issued(copy[i].hash)
               PROVE  IsHistory(SubSeq(copy, 1, i))
    BY DEF EntryVouchesForItsPast
  <2>1. PICK l \in Ledgers : IssuedBy(l, copy[i].hash)
    BY DEF Issued
  <2> QED
    BY <2>1, CheckedEntriesVouch DEF IsHistory
<1> QED
  BY <1>1, ListsAreKept, PTL

-----------------------------------------------------------------------------
(* What a noted count adds.                                                 *)

(* A ledger is only ever continued, so what it held when its count was noted
   is still its beginning. *)
NotedInv ==
  noted # Unknown =>
    /\ Len(noted.entries) <= Len(ledgers[noted.ledger])
    /\ \A i \in 1..Len(noted.entries) : ledgers[noted.ledger][i] = noted.entries[i]

LEMMA NotedInvKept ==
  ASSUME ChainInv, ListsInv, NotedInv, [Next]_vars
  PROVE  NotedInv'
<1>1. ASSUME NEW l \in Ledgers, NEW payload \in Payloads, AppendEntry(l, payload)
      PROVE  NotedInv'
  <2> DEFINE next == Len(ledgers[l]) + 1
             entry == BuildLedgerEntry(payload, next, LinkAt(ledgers[l], next))
  <2>1. ledgers' = [ledgers EXCEPT ![l] = Append(ledgers[l], entry)] /\ noted' = noted
    BY <1>1 DEF AppendEntry
  <2>2. PICK S : ledgers[l] \in Seq(S)
    BY DEF ChainInv, LedgersAreSequences
  <2> HIDE DEF entry
  <2>3. /\ Len(Append(ledgers[l], entry)) = Len(ledgers[l]) + 1 /\ Len(ledgers[l]) \in Nat
        /\ \A i \in 1..Len(ledgers[l]) : Append(ledgers[l], entry)[i] = ledgers[l][i]
    BY <2>2
  <2>4. SUFFICES ASSUME noted # Unknown
                 PROVE  /\ Len(noted.entries) <= Len(ledgers'[noted.ledger])
                        /\ \A i \in 1..Len(noted.entries) :
                             ledgers'[noted.ledger][i] = noted.entries[i]
    BY <2>1 DEF NotedInv
  <2>5. /\ noted.ledger \in Ledgers /\ Len(noted.entries) \in Nat
        /\ Len(noted.entries) <= Len(ledgers[noted.ledger])
        /\ \A i \in 1..Len(noted.entries) : ledgers[noted.ledger][i] = noted.entries[i]
    BY <2>4, ListedEntries, ChainAssumption DEF ListsInv, NotedInv
  <2>6. CASE noted.ledger = l
    <3>1. ledgers'[l] = Append(ledgers[l], entry)
      BY <2>1 DEF ChainInv
    <3> QED
      BY <2>3, <2>5, <2>6, <3>1
  <2>7. CASE noted.ledger # l
    <3>1. ledgers'[noted.ledger] = ledgers[noted.ledger]
      BY <2>1, <2>5, <2>7 DEF ChainInv
    <3> QED
      BY <2>5, <3>1
  <2> QED
    BY <2>6, <2>7
<1>2. ASSUME NEW l \in Ledgers, NoteCount(l) PROVE NotedInv'
  <2>1. noted'.ledger = l /\ noted'.entries = ledgers[l] /\ ledgers' = ledgers
    BY <1>2 DEF NoteCount
  <2>2. Len(ledgers[l]) \in Nat
    BY ListedEntries, ChainAssumption DEF ListsInv
  <2> QED
    BY <2>1, <2>2 DEF NotedInv
<1>3. ASSUME UNCHANGED <<ledgers, noted>> PROVE NotedInv'
  BY <1>3 DEF NotedInv
<1>4. ASSUME NEW l \in Ledgers, Export(l) PROVE UNCHANGED <<ledgers, noted>>
  BY <1>4 DEF Export
<1>5. ASSUME Edit PROVE UNCHANGED <<ledgers, noted>>
  BY <1>5 DEF Edit, Rewrite, RemoveEntry, Exchange, Splice, Rebuild, Becomes
<1>6. ASSUME UNCHANGED vars PROVE UNCHANGED <<ledgers, noted>>
  BY <1>6 DEF vars
<1> QED
  BY <1>1, <1>2, <1>3, <1>4, <1>5, <1>6 DEF Next

(* The beginning of an intact ledger verifies. *)
LEMMA NotedVerifies ==
  ASSUME ChainInv, ListsInv, NotedInv, noted # Unknown
  PROVE  Verifies(noted.entries, Len(noted.entries))
<1> DEFINE l == noted.ledger
           entries == noted.entries
<1>1. /\ l \in Ledgers /\ DOMAIN entries = 1..Len(entries)
      /\ Len(entries) \in Nat /\ Len(ledgers[l]) \in Nat
      /\ Len(entries) <= Len(ledgers[l])
      /\ \A i \in 1..Len(entries) : ledgers[l][i] = entries[i]
  BY ListedEntries, ChainAssumption DEF ListsInv, NotedInv
<1> HIDE DEF l, entries
<1>2. ASSUME NEW i \in 1..Len(entries) PROVE FaultAt(entries, i) = "none"
  <2>1. LinkAt(entries, i) = LinkAt(ledgers[l], i)
    BY <1>1 DEF LinkAt
  <2>2. i \in 1..Len(ledgers[l]) /\ entries[i] = ledgers[l][i]
    BY <1>1
  <2>3. FaultAt(ledgers[l], i) = "none"
    BY <1>1, <2>2 DEF ChainInv, Intact
  <2> QED
    BY <2>1, <2>2, <2>3 DEF FaultAt
<1>3. Broken(entries) = {}
  BY <1>1, <1>2 DEF Broken
<1> QED
  BY <1>3 DEF Verifies, entries

(* A count that was noted tells what the ledger held then from everything else
   that ends in an entry of it, shorter or longer. *)
THEOREM CountsPin == Spec => []CountPinsTheCopy
<1>1. Init => NotedInv
  BY DEF Init, NotedInv
<1>2. ChainInv /\ ListsInv /\ NotedInv => CountPinsTheCopy
  <2> SUFFICES ASSUME ChainInv, ListsInv, NotedInv, noted # Unknown,
                      copy # <<>> => IssuedBy(noted.ledger, Last(copy).hash)
               PROVE  Verifies(copy, Len(noted.entries)) <=> copy = noted.entries
    BY DEF CountPinsTheCopy
  <2>1. copy = noted.entries => Verifies(copy, Len(noted.entries))
    BY NotedVerifies
  <2>2. ASSUME Verifies(copy, Len(noted.entries)) PROVE copy = noted.entries
    <3>1. PICK S : copy \in Seq(S)
      BY DEF ListsInv, Listed
    <3>2. PICK T : noted.entries \in Seq(T)
      BY DEF ListsInv, Listed
    <3>3. Broken(copy) = {} /\ Len(copy) = Len(noted.entries)
      <4>1. Len(noted.entries) \in Nat
        BY <3>2
      <4> QED
        BY <2>2, <4>1, ChainAssumption DEF Verifies
    <3>4. CASE copy = <<>>
      BY <3>2, <3>3, <3>4, EmptySeq
    <3>5. CASE copy # <<>>
      <4>1. Len(copy) \in Nat \ {0}
        BY <3>1, <3>5, EmptySeq
      <4>2. Len(copy) \in 1..CheckedEntries(copy)
        BY <3>3, <4>1 DEF CheckedEntries
      <4>3. noted.ledger \in Ledgers /\ IssuedBy(noted.ledger, copy[Len(copy)].hash)
        BY <3>5 DEF Last, ListsInv
      <4>4. \A j \in 1..Len(copy) : copy[j] = ledgers[noted.ledger][j]
        BY <4>2, <4>3, CheckedEntriesVouch
      <4>5. \A j \in 1..Len(copy) : copy[j] = noted.entries[j]
        BY <3>3, <4>4 DEF NotedInv
      <4> QED
        BY <3>1, <3>2, <3>3, <4>5, SeqEqual
    <3> QED
      BY <3>4, <3>5
  <2> QED
    BY <2>1, <2>2
<1>3. ChainInv /\ ListsInv /\ NotedInv /\ [Next]_vars => NotedInv'
  BY NotedInvKept
<1> QED
  BY <1>1, <1>2, <1>3, ChainInvInitially, ChainInvKept, ListsInvInitially, ListsInvKept,
     PTL DEF Spec

=============================================================================
