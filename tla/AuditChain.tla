------------------------------ MODULE AuditChain ------------------------------
(***************************************************************************)
(* The hash chain of the audit ledgers and the check that recomputes it.   *)
(*                                                                         *)
(* Each ledger appends entries; somebody exports a copy and may also note  *)
(* a ledger's length; the copy is changed out of the ledger's reach; and   *)
(* verifyLedgerIntegrity is asked about it.  The check is a pure function, *)
(* so the properties ask it in every state instead of in an action.        *)
(*                                                                         *)
(* SHA-256 over canonical JSON is an injective operator: a hash is the     *)
(* tuple of what it was computed from.  A payload stands for every field   *)
(* of an entry besides its sequence number and its two hashes.             *)
(***************************************************************************)
EXTENDS Naturals, Sequences, SequencesExt

CONSTANTS
  Ledgers,     \* one AuditLedger per run
  Payloads,    \* what callers append
  Secrets,     \* the payloads that hold a credential
  Redacted,    \* what redaction leaves of them
  Unknown,     \* no expected count was supplied
  MaxEntries,  \* bound: length of a ledger
  MaxEdits     \* bound: changes made to the copy

ASSUME ChainAssumption ==
  /\ Secrets \subseteq Payloads
  /\ Redacted \notin Payloads
  /\ Unknown \notin Nat
  /\ MaxEntries \in Nat
  /\ MaxEdits \in Nat

VARIABLES
  ledgers,   \* per ledger: AuditLedger.entries
  copy,      \* an exported list, and what has become of it
  edits,     \* how many changes the copy has seen
  noted      \* the ledger whose length somebody noted and, as history that
             \* only the properties read, what it held; or Unknown

vars == <<ledgers, copy, edits, noted>>

Contents == (Payloads \ Secrets) \cup {Redacted}

-----------------------------------------------------------------------------
(* Building the chain. *)

Genesis == <<>>

(* computeEntryHash: prevHash is one of the hashed fields. *)
EntryHash(sequence, payload, prevHash) == <<sequence, payload, prevHash>>

\* Mutant: redaction looks at no payload.
RedactNothing(payload) == payload

RedactPayload(payload) == IF payload \in Secrets THEN Redacted ELSE payload

BuildLedgerEntry(payload, sequence, prevHash) ==
  LET redacted == RedactPayload(payload) IN
  [sequence |-> sequence, payload |-> redacted, prevHash |-> prevHash,
   hash |-> EntryHash(sequence, redacted, prevHash)]

(* The hash the entry at position i has to link to. *)
LinkAt(entries, i) == IF i = 1 THEN Genesis ELSE entries[i - 1].hash

-----------------------------------------------------------------------------
(* verifyLedgerIntegrity. *)

\* Mutant: entries are checked one by one, their links are not.
FaultUnlinked(entries, i) ==
  LET entry == entries[i] IN
  CASE entry.sequence # i -> "SEQUENCE_GAP"
    [] entry.sequence = i /\ entry.hash # EntryHash(i, entry.payload, entry.prevHash) ->
         "HASH_MISMATCH"
    [] OTHER -> "none"

FaultAt(entries, i) ==
  LET entry == entries[i] IN
  IF entry.sequence # i THEN "SEQUENCE_GAP"
  ELSE IF entry.prevHash # LinkAt(entries, i) THEN "PREV_HASH_MISMATCH"
  ELSE IF entry.hash # EntryHash(i, entry.payload, entry.prevHash) THEN "HASH_MISMATCH"
  ELSE "none"

Broken(entries) == {i \in DOMAIN entries : FaultAt(entries, i) # "none"}

(* The loop stops at the first fault; without one it has checked them all. *)
CheckedEntries(entries) ==
  IF Broken(entries) = {} THEN Len(entries) ELSE Min(Broken(entries)) - 1

\* Mutant: the expected count is taken for an upper bound.
VerifiesUpTo(entries, expected) ==
  /\ Broken(entries) = {}
  /\ expected # Unknown => Len(entries) <= expected

(* result.ok *)
Verifies(entries, expected) ==
  /\ Broken(entries) = {}
  /\ expected # Unknown => Len(entries) = expected

-----------------------------------------------------------------------------

Init ==
  /\ ledgers = [l \in Ledgers |-> <<>>]
  /\ copy = <<>>
  /\ edits = 0
  /\ noted = Unknown

(* AuditLedger.append *)
AppendEntry(l, payload) ==
  LET position == Len(ledgers[l]) + 1 IN
  /\ position <= MaxEntries
  /\ ledgers' = [ledgers EXCEPT ![l] =
                   Append(@, BuildLedgerEntry(payload, position,
                                              LinkAt(ledgers[l], position)))]
  /\ UNCHANGED <<copy, edits, noted>>

(* AuditLedger.list, taken out of the process. *)
Export(l) ==
  /\ copy' = ledgers[l]
  /\ edits' = 0
  /\ UNCHANGED <<ledgers, noted>>

(* Somebody notes how many entries there are, for expectedSequenceCount. *)
NoteCount(l) ==
  /\ noted' = [ledger |-> l, entries |-> ledgers[l]]
  /\ UNCHANGED <<ledgers, copy, edits>>

-----------------------------------------------------------------------------
(* What happens to the copy. *)

Becomes(entries) ==
  /\ edits < MaxEdits
  /\ entries # copy
  /\ copy' = entries
  /\ edits' = edits + 1
  /\ UNCHANGED <<ledgers, noted>>

Rewrite(i, content) == Becomes([copy EXCEPT ![i].payload = content])

RemoveEntry(i) == Becomes(RemoveAt(copy, i))

Exchange(i, j) == Becomes([copy EXCEPT ![i] = copy[j], ![j] = copy[i]])

(* An entry is replaced by one that some ledger did append. *)
Splice(i, l, j) == Becomes([copy EXCEPT ![i] = ledgers[l][j]])

(* An entry is built again where it stands, with a hash that fits. *)
Rebuild(i) ==
  LET link == LinkAt(copy, i) IN
  Becomes([copy EXCEPT ![i] =
             [sequence |-> i, payload |-> copy[i].payload, prevHash |-> link,
              hash |-> EntryHash(i, copy[i].payload, link)]])

Edit ==
  \E i \in DOMAIN copy :
    \/ \E content \in Contents : Rewrite(i, content)
    \/ RemoveEntry(i)
    \/ \E j \in DOMAIN copy : i < j /\ Exchange(i, j)
    \/ \E l \in Ledgers : \E j \in DOMAIN ledgers[l] : Splice(i, l, j)
    \/ Rebuild(i)

Next ==
  \/ \E l \in Ledgers :
       \/ \E payload \in Payloads : AppendEntry(l, payload)
       \/ Export(l)
       \/ NoteCount(l)
  \/ Edit

Spec == Init /\ [][Next]_vars

-----------------------------------------------------------------------------
(* Properties. *)

EntriesTyped(entries) ==
  \A i \in DOMAIN entries : /\ entries[i].sequence \in 1..MaxEntries
                            /\ entries[i].payload \in Contents

(* Ledgers and copies hold numbered entries, and no entry holds a credential
   (redactPayload runs before an entry is hashed and stored). *)
TypeOK ==
  /\ \A l \in Ledgers : Len(ledgers[l]) <= MaxEntries /\ EntriesTyped(ledgers[l])
  /\ Len(copy) <= MaxEntries /\ EntriesTyped(copy)
  /\ edits \in 0..MaxEdits
  /\ noted # Unknown => /\ noted.ledger \in Ledgers
                        /\ Len(noted.entries) <= MaxEntries
                        /\ EntriesTyped(noted.entries)

IssuedBy(l, hash) == \E i \in DOMAIN ledgers[l] : ledgers[l][i].hash = hash
Issued(hash) == \E l \in Ledgers : IssuedBy(l, hash)

IsHistory(entries) == \E l \in Ledgers : IsPrefix(entries, ledgers[l])

(* An entry the check has got past vouches for everything before it: if its
   hash is one a ledger computed, then it and all its predecessors are the
   beginning of what that ledger appended.  So a change is only hidden by
   building every later entry again. *)
EntryVouchesForItsPast ==
  \A i \in 1..CheckedEntries(copy) :
    Issued(copy[i].hash) => IsHistory(SubSeq(copy, 1, i))

(* A count noted of a ledger, however long ago, pins what that ledger held
   then: a copy that ends in an entry of the same ledger is accepted with it
   exactly if it is what the ledger held.  So a copy from which the newest
   entries are missing is refused, which the chain alone cannot see; and so
   is a complete one that was exported after more had been appended.  And
   what was exported untouched is accepted, whatever was redacted in it. *)
CountPinsTheCopy ==
  /\ noted # Unknown
  /\ copy # <<>> => IssuedBy(noted.ledger, Last(copy).hash)
  => (Verifies(copy, Len(noted.entries)) <=> copy = noted.entries)

=============================================================================
