-------------------------------- MODULE Agenda --------------------------------
(***************************************************************************)
(* main/register.c as the agenda handlers of main/http_server.c drive it:  *)
(* a table in RAM that control_task reads, one NVS key per register, and   *)
(* requests served one at a time.                                          *)
(*                                                                         *)
(* The keys have no other writer, so a step is one NVS call, or the        *)
(* critical section under s_reg_mutex.                                     *)
(***************************************************************************)
EXTENDS AgendaData

CONSTANTS
  Faults,     \* what may go wrong: "change" (nvs_open or nvs_set_blob),
              \* "erase" (nvs_open or nvs_erase_key), "commit", "read"
  PowerCuts   \* whether the board may lose power

ASSUME FaultsAssumption ==
  Faults \subseteq {"change", "erase", "commit", "read"} /\ PowerCuts \in BOOLEAN

VARIABLES
  ram,       \* s_registers
  blob,      \* reg_01.. as nvs_get_blob would return them
  durable,   \* reg_01.. as of the last nvs_commit
  req,       \* the request being served
  step,      \* where its handler is
  reply      \* status of the last answered request

agendaVars == <<ram, blob, durable, req, step, reply>>

Blank == [i \in Registers |-> Empty]

Init ==
  /\ ram = Blank
  /\ blob = Blank
  /\ durable = Blank
  /\ req = None
  /\ step = "idle"
  /\ reply = "none"

Answer(status) ==
  /\ req' = None
  /\ step' = "idle"
  /\ reply' = status

-----------------------------------------------------------------------------

\* Mutant: RAM first, as if the order of registers_update did not matter
InstallFirst(r) ==
  /\ step = "idle"
  /\ Valid(r)
  /\ req' = r
  /\ step' = "store"
  /\ reply' = "none"
  /\ ram' = [ram EXCEPT ![r.reg] = Contents(r)]
  /\ UNCHANGED <<blob, durable>>

Accept(r) ==
  /\ step = "idle"
  /\ Valid(r)
  /\ req' = r
  /\ step' = "store"
  /\ reply' = "none"
  /\ UNCHANGED <<ram, blob, durable>>

Reject(r) ==
  /\ step = "idle"
  /\ ~Valid(r)
  /\ Answer("400")
  /\ UNCHANGED <<ram, blob, durable>>

\* Mutant: registers_erase does not commit
StoreForgetsCommit ==
  /\ step = "store"
  /\ blob' = [blob EXCEPT ![req.reg] = Contents(req)]
  /\ step' = IF req.kind = "erase" THEN "install" ELSE "commit"
  /\ UNCHANGED <<ram, durable, req, reply>>

\* nvs_open, then nvs_set_blob or nvs_erase_key
Store ==
  /\ step = "store"
  /\ blob' = [blob EXCEPT ![req.reg] = Contents(req)]
  /\ step' = "commit"
  /\ UNCHANGED <<ram, durable, req, reply>>

\* registers_update gives up at the first error; registers_erase skips the
\* rest when nvs_open fails and ignores an error of nvs_erase_key
StoreFails ==
  /\ step = "store"
  /\ req.kind \in Faults
  /\ \/ /\ req.kind = "change"
        /\ Answer("400")
     \/ /\ req.kind = "erase"
        /\ step' \in {"install", "commit"}
        /\ UNCHANGED <<req, reply>>
  /\ UNCHANGED <<ram, blob, durable>>

Commit ==
  /\ step = "commit"
  /\ durable' = blob
  /\ step' = "install"
  /\ UNCHANGED <<ram, blob, req, reply>>

\* Mutant: registers_update ignores the result of nvs_commit too
CommitErrorIgnored ==
  /\ step = "commit"
  /\ "commit" \in Faults
  /\ step' = "install"
  /\ UNCHANGED <<ram, blob, durable, req, reply>>

CommitFails ==
  /\ step = "commit"
  /\ "commit" \in Faults
  /\ \/ /\ req.kind = "change"
        /\ Answer("400")
     \/ /\ req.kind = "erase"
        /\ step' = "install"
        /\ UNCHANGED <<req, reply>>
  /\ UNCHANGED <<ram, blob, durable>>

\* nvs_commit, one way or the other
CommitCall == step = "commit" /\ (Commit \/ CommitFails)

\* The critical section, then the answer, which carries the agenda
Install ==
  /\ step = "install"
  /\ ram' = [ram EXCEPT ![req.reg] = Contents(req)]
  /\ Answer("200")
  /\ UNCHANGED <<blob, durable>>

\* Power is lost and registers_init runs: an uncommitted key may or may not
\* have reached the flash, and one that cannot be read counts as inactive
PowerCut ==
  /\ PowerCuts
  /\ \E written \in SUBSET Registers,
        lost \in IF "read" \in Faults THEN SUBSET Registers ELSE {{}} :
       /\ durable' = [i \in Registers |->
                        IF i \in written THEN blob[i] ELSE durable[i]]
       /\ blob' = durable'
       /\ ram' = [i \in Registers |-> IF i \in lost THEN Empty ELSE durable'[i]]
  /\ Answer("none")

Next ==
  \/ \E r \in Requests : Accept(r) \/ Reject(r)
  \/ Store
  \/ StoreFails
  \/ CommitCall
  \/ Install
  \/ PowerCut

Spec == Init /\ [][Next]_agendaVars

-----------------------------------------------------------------------------
(* Properties *)

\* Every variable has its type, and a handler past its checks has a valid
\* request to work on.
TypeOK ==
  /\ ram \in Tables
  /\ blob \in Tables
  /\ durable \in Tables
  /\ req \in Requests \cup {None}
  /\ step \in {"idle", "store", "commit", "install"}
  /\ step # "idle" => req # None /\ Valid(req)
  /\ step = "idle" => req = None
  /\ reply \in {"none", "200", "400"}

Erasing(i) == req # None /\ req.kind = "erase" /\ req.reg = i

\* An entry the board acts on is not lost by a reboot: flash holds an entry
\* for the register, whatever call failed or was interrupted, as long as
\* nobody is erasing it.
NoActiveEntryLost ==
  \A i \in Registers :
    ram[i] # Empty /\ ~Erasing(i) => durable[i] # Empty /\ blob[i] # Empty

\* Between requests RAM and flash agree, so a reboot changes nothing (for
\* instances in which neither an erase nor a commit can fail).
RamIsFlash ==
  step = "idle" => ram = durable /\ durable = blob

\* An entry whose erasure was answered with 200 is gone for good: the next
\* boot does not bring it back (for instances in which only the NVS calls of
\* an erase can fail).
ErasedStaysErased ==
  [][reply = "200" /\ reply' = "none" /\ step = "idle" /\ step' = "idle"
       => \A i \in Registers : ram[i] = Empty => ram'[i] = Empty]_agendaVars

\* The agenda implements the table AgendaTable describes.
Table == INSTANCE AgendaTable
           WITH table <- durable, pending <- req, answer <- reply

ImplementsTable == Table!Spec

=============================================================================
