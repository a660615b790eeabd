---------------------------- MODULE ClientHistory ----------------------------
(***************************************************************************)
(* The connection history over runs of the client: connection_history.json *)
(* is read when the client starts and written in every event that changes  *)
(* the list.  A save truncates the file and then writes it; the client may *)
(* be killed between events, or in a save between the two.  A file cut     *)
(* short is no JSON array.  A save that cannot open the file is passed     *)
(* over in silence.  A start that cannot open it, be it absent or only     *)
(* unreadable, shows two sample records and saves them in its place.       *)
(*                                                                         *)
(* A record that leaves the list as it was, the list being full of records *)
(* like it, is not saved again here.                                       *)
(***************************************************************************)
EXTENDS SessionClient

VARIABLES
    running,    \* the client is up
    saving,     \* it is in saveConnectionHistory(), with the file truncated
    disk,       \* the file: absent, an array of records, or something else
    lastSeen,   \* ghost: the list when the client went down
    unsaved     \* ghost: the last change of the list is not in the file

fileVars == <<running, saving, disk, lastSeen, unsaved>>
historyVars == <<vars, fileVars>>

SampleHistory ==
    <<[target |-> "Local Linux Agent", reason |-> "User Disconnect"],
      [target |-> "Dev Workstation", reason |-> "Network Timeout"]>>

ASSUME SampleAssumption == MaxHistory >= 2

NoFile == [kind |-> "none", records |-> << >>]
TornFile == [kind |-> "torn", records |-> << >>]
JsonFile(records) == [kind |-> "json", records |-> records]

\* Before the first start of the client there is no file.
HistoryInit ==
    /\ Init
    /\ running = FALSE
    /\ saving = FALSE
    /\ disk = NoFile
    /\ lastSeen = << >>
    /\ unsaved = FALSE

-----------------------------------------------------------------------------
\* saveConnectionHistory() truncates the file, or cannot open it.
BeginSave ==
    /\ unsaved' = TRUE
    /\ \/ disk' = TornFile /\ saving' = TRUE
       \/ UNCHANGED <<disk, saving>>

FinishSave ==
    /\ saving
    /\ saving' = FALSE
    /\ disk' = JsonFile(client.connectionHistory)
    /\ unsaved' = FALSE
    /\ UNCHANGED <<vars, running, lastSeen>>

\* The list that loadConnectionHistory() leaves in memory: any file that cannot
\* be opened, not only an absent one, gives the samples.
Loaded(opened) == IF opened THEN disk.records ELSE SampleHistory

\* The constructor.  The samples are saved at once, a list that was read is not.
Start ==
    /\ ~running
    /\ running' = TRUE
    /\ \E opened \in {FALSE, disk.kind # "none"} :
          /\ client' = [InitClient EXCEPT !.connectionHistory = Loaded(opened)]
          /\ IF opened THEN UNCHANGED <<saving, disk, unsaved>> ELSE BeginSave
    /\ lastSeen' = << >>
    /\ UNCHANGED <<sock, pendingClose>>

\* Mutant: clearing the list does not save it.
ClientStepKeepsCleared ==
    /\ running /\ ~saving
    /\ Next
    /\ IF client'.connectionHistory \in {client.connectionHistory, << >>}
       THEN UNCHANGED <<saving, disk, unsaved>>
       ELSE BeginSave
    /\ UNCHANGED <<running, lastSeen>>

\* An event of the client; one that changes the list saves it.
ClientStep ==
    /\ running /\ ~saving
    /\ Next
    /\ IF client'.connectionHistory = client.connectionHistory
       THEN UNCHANGED <<saving, disk, unsaved>>
       ELSE BeginSave
    /\ UNCHANGED <<running, lastSeen>>

\* The client is closed or killed; its socket goes with it.
Kill ==
    /\ running
    /\ running' = FALSE
    /\ saving' = FALSE
    /\ lastSeen' = client.connectionHistory
    /\ client' = InitClient
    /\ sock' = "Unconnected"
    /\ pendingClose' = FALSE
    /\ UNCHANGED <<disk, unsaved>>

HistoryNext == Start \/ ClientStep \/ FinishSave \/ Kill

\* The fairness of the client; nothing is assumed of starts and kills.
HistorySpec ==
    /\ HistoryInit /\ [][HistoryNext]_historyVars
    /\ Fairness /\ WF_historyVars(FinishSave)

-----------------------------------------------------------------------------
(***************************************************************************)
(* Properties.                                                             *)
(***************************************************************************)

\* The list a client starts with is the one there was when the last one went
\* down, with no cleared or dropped record in it, unless that one's last save
\* was cut short or could not open the file, or this start cannot open it (and
\* has the samples to save: unsaved').
HistorySurvives ==
    [][~running /\ running' /\ ~unsaved' => client'.connectionHistory = lastSeen]_historyVars

=============================================================================
