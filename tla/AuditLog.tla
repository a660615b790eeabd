------------------------------ MODULE AuditLog -------------------------------
(***************************************************************************)
(* The hash-chained audit log of services/audit (AuditLogService).         *)
(*                                                                         *)
(* The fields of an event that the caller or the clock provides (event_id  *)
(* to details) are one value, its data.  compute_hash() is fed their bytes *)
(* one after the other with nothing in between, so it does not see where   *)
(* one field ends and the next begins: data that differ only in that have  *)
(* the same Bytes.  A SHA-256 value is represented by what it commits to:  *)
(* the <<sequence number, bytes>> pairs of its event and, through          *)
(* prev_hash, of every event before it.  Two such values are equal exactly *)
(* when all they commit to is equal, that is, SHA-256 is taken to be free  *)
(* of collisions.  Sequence number and prev_hash have a fixed length.      *)
(*                                                                         *)
(* Every operation holds the write or the read half of one RwLock from its *)
(* first to its last access, so each is one step.                          *)
(***************************************************************************)
EXTENDS Integers, Sequences

CONSTANTS
    Data,           \* what the data of an event may be
    Bytes,          \* for each of Data, its fields written one after the other
    MaxEvents       \* bound on the length of the chain (the code has none)

ASSUME AuditAssumption == MaxEvents \in Nat

VARIABLES
    chain,          \* AuditLogService::chain
    logged          \* ghost: the data that log_event() was called with

auditVars == <<chain, logged>>

HashValue == Seq(Nat \X {Bytes[data] : data \in Data})

GenesisPrevHash == << >>

AuditEvent == [sequence_number : Nat, data : Data, prev_hash : HashValue, hash : HashValue]

ComputeHash(sequence_number, data, prev_hash) ==
    Append(prev_hash, <<sequence_number, Bytes[data]>>)

\* The hash the next event is chained to.
HeadHash(c) == IF c = << >> THEN GenesisPrevHash ELSE c[Len(c)].hash

\* Mutant: the hash is taken over the event alone.
NewEventUnchained(c, data) ==
    [sequence_number |-> Len(c), data |-> data, prev_hash |-> HeadHash(c),
     hash |-> ComputeHash(Len(c), data, GenesisPrevHash)]

NewEvent(c, data) ==
    [sequence_number |-> Len(c),
     data            |-> data,
     prev_hash       |-> HeadHash(c),
     hash            |-> ComputeHash(Len(c), data, HeadHash(c))]

\* The prev_hash that verify_integrity() expects of event i, having accepted
\* the events before it.
ExpectedPrevHash(c, i) == IF i = 1 THEN GenesisPrevHash ELSE c[i - 1].hash

\* Mutant: only the links are verified, not the events.
EventVerifiesLinkOnly(c, i) == c[i].prev_hash = ExpectedPrevHash(c, i)

EventVerifies(c, i) ==
    /\ c[i].prev_hash = ExpectedPrevHash(c, i)
    /\ c[i].hash = ComputeHash(c[i].sequence_number, c[i].data, c[i].prev_hash)

\* verify_integrity(): the verdict, and the first event that does not verify
\* (0 when all do).
IsValid(c) == \A i \in 1 .. Len(c) : EventVerifies(c, i)

\* Mutant: the report names the last event that does not verify.
TamperedEventLast(c) ==
    IF IsValid(c) THEN 0
    ELSE CHOOSE i \in 1 .. Len(c) :
            /\ ~EventVerifies(c, i)
            /\ \A j \in i + 1 .. Len(c) : EventVerifies(c, j)

TamperedEvent(c) ==
    IF IsValid(c) THEN 0
    ELSE CHOOSE i \in 1 .. Len(c) :
            /\ ~EventVerifies(c, i)
            /\ \A j \in 1 .. i - 1 : EventVerifies(c, j)

-----------------------------------------------------------------------------
AuditInit ==
    /\ chain = << >>
    /\ logged = << >>

\* Mutant: an event that repeats the previous one is dropped.
LogEventDeduplicated(data) ==
    /\ Len(chain) < MaxEvents
    /\ chain' = IF chain # << >> /\ chain[Len(chain)].data = data THEN chain
                ELSE Append(chain, NewEvent(chain, data))
    /\ logged' = Append(logged, data)

LogEvent(data) ==
    /\ Len(chain) < MaxEvents
    /\ chain' = Append(chain, NewEvent(chain, data))
    /\ logged' = Append(logged, data)

\* Someone edits a stored event behind the service's back, as
\* corrupt_entry_for_testing() does: the hashes stay as they were.
CorruptEntry(i, data) ==
    /\ i <= Len(chain)
    /\ chain' = [chain EXCEPT ![i].data = data]
    /\ UNCHANGED logged

AuditNext ==
    \/ \E data \in Data : LogEvent(data)
    \/ \E i \in 1 .. Len(chain), data \in Data : CorruptEntry(i, data)

AuditSpec == AuditInit /\ [][AuditNext]_auditVars

-----------------------------------------------------------------------------
(***************************************************************************)
(* Properties.                                                             *)
(***************************************************************************)

\* The chain is a vector of events, one for each call of log_event().
AuditTypeOK ==
    /\ chain \in Seq(AuditEvent)
    /\ logged \in Seq(Data)
    /\ Len(chain) = Len(logged)

\* An edit that changed the text of event i.  One that only moved text from the
\* end of a field to the start of the next did not.
TextEdited(i) == Bytes[chain[i].data] # Bytes[logged[i]]

\* Tamper evidence: verify_integrity() rejects the log exactly when the text of
\* some event is not what it was logged with.  Such an edit is not hidden by
\* events logged after it, and undoing it makes the log valid again; an edit that
\* only shifts text between neighbouring fields is never noticed.
TamperEvident ==
    IsValid(chain) <=> \A i \in 1 .. Len(chain) : ~TextEdited(i)

\* The report blames the first event whose text was edited, not one chained to it
\* nor one before it whose fields were only shifted.
BlamesFirstEdited ==
    LET t == TamperedEvent(chain)
    IN  t # 0 => TextEdited(t) /\ \A j \in 1 .. t - 1 : ~TextEdited(j)

\* A head hash commits to the whole past: it fixes the number and the text of
\* every event logged so far, through any edits of what is stored.
\* (The strengthening that makes TamperEvident inductive.)
HashCommitsToPast ==
    \A i \in 1 .. Len(chain) :
        /\ chain[i].sequence_number = i - 1
        /\ chain[i].prev_hash = ExpectedPrevHash(chain, i)
        /\ chain[i].hash = ComputeHash(i - 1, logged[i], chain[i].prev_hash)

=============================================================================
