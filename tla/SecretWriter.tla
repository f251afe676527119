------------------------------ MODULE SecretWriter ------------------------------
(***************************************************************************)
(* The writer of the environment file on the private drive                  *)
(* (awiki_secret_writer.AWikiSecretWriter): insert, rotate or delete one    *)
(* key.  A writer captures the file, computes the new one from its lines,   *)
(* writes it to a temporary file, looks at the target again, replaces it,   *)
(* reads the key back and puts the captured bytes back when that fails.     *)
(* There is no lock: other writers, and editors, change the file between    *)
(* the steps.  The identity of the file (inode, size, times) is a number    *)
(* that every change of it increases; a look at it before and one after a   *)
(* read that agree are therefore one look.                                  *)
(***************************************************************************)
EXTENDS Naturals, Sequences, FiniteSets, SequencesExt

CONSTANTS
  Files,      \* the files it may start with: sequences of lines
  Keys,       \* the keys
  Allowed,    \* the keys that may be written
  Values,     \* the values that may be given
  Writers,    \* the writers
  EditKeys,   \* the keys that editors change
  MaxOps,     \* bound on the operations
  MaxEdits,   \* bound on the edits of others
  MaxFaults,  \* bound on the failures of the file system
  None        \* nothing

SecretAssumption == Allowed \subseteq Keys /\ EditKeys \subseteq Keys /\ MaxOps \in Nat /\ MaxEdits \in Nat /\ MaxFaults \in Nat

VARIABLES
  file,     \* the lines of the target
  ident,    \* the identity of the target
  op,       \* the operation of each writer: None or a record
  temps,    \* the operations whose temporary file exists
  ops,      \* operations, edits and failures so far
  edits,
  faults,
  lost      \* what overwrote the change of another: [step, fenced]

secretVars == <<file, ident, op, temps, ops, edits, faults, lost>>

(* A line: its owner (a key or None), its kind ("plain", "export",          *)
(* "other"), its value and its terminator ("lf", "crlf", or "no" for the    *)
(* last one).  A file that ends with a terminator has an empty last line.   *)
(* (_classify_line, _split_line_units)                                      *)
Line(k, kind, v, t) == [key |-> k, kind |-> kind, value |-> v, term |-> t]
Blank == Line(None, "other", 0, "no")

(* _parse_env_file: the last assignment of a key counts; 0 is no value. *)
Owned(units, k) == {i \in DOMAIN units : units[i].key = k /\ units[i].kind # "other"}
Projection(units) ==
  [k \in Keys |-> IF Owned(units, k) = {} THEN 0
                  ELSE units[CHOOSE i \in Owned(units, k) : \A j \in Owned(units, k) : j <= i].value]

(* _dominant_terminator: CRLF when there is no LF. *)
DominantTerminator(units) ==
  IF (\E i \in DOMAIN units : units[i].term = "crlf") /\ ~ \E i \in DOMAIN units : units[i].term = "lf"
  THEN "crlf" ELSE "lf"

(* _execute: whose lines are they.  The code of a refusal, or "OK". *)
Plain(units, k) == {i \in Owned(units, k) : units[i].kind = "plain"}
Exported(units, k) == Owned(units, k) \ Plain(units, k)
Admits(kind, units, k) ==
  LET plain == Cardinality(Plain(units, k))
      exported == Exported(units, k) # {}
  IN IF kind = "insert"
     THEN CASE plain > 1 -> "DUPLICATE_KEY_ASSIGNMENT"
            [] plain = 1 -> "KEY_ALREADY_EXISTS"
            [] plain = 0 /\ exported -> "EXPORT_SYNTAX_UNSUPPORTED"
            [] OTHER -> "OK"
     ELSE CASE plain > 1 \/ (plain = 1 /\ exported) -> "DUPLICATE_KEY_ASSIGNMENT"
            [] plain = 0 /\ exported -> "EXPORT_SYNTAX_UNSUPPORTED"
            [] plain = 0 /\ ~exported -> "KEY_NOT_FOUND"
            [] OTHER -> "OK"

Inserted(units, line) ==
  LET last == units[Len(units)]
  IN IF units = <<>> THEN <<line>>
     ELSE IF last = Blank THEN [units EXCEPT ![Len(units)] = line]
     ELSE IF last.term = "no" THEN Append([units EXCEPT ![Len(units)].term = line.term], line)
     ELSE Append(units, line)
NewUnits(kind, units, k, v) ==
  LET line == Line(k, "plain", v, DominantTerminator(units))
      at == CHOOSE i \in Plain(units, k) : TRUE
  IN CASE kind = "insert" -> Inserted(units, line)
       [] kind = "rotate" -> [units EXCEPT ![at] = [line EXCEPT !.term = units[at].term]]
       [] OTHER -> RemoveAt(units, at)

(* What is written and read again: a file whose last line is terminated     *)
(* ends with an empty one.                                                  *)
Rendered(units) == IF units # <<>> /\ units[Len(units)].term # "no" THEN Append(units, Blank) ELSE units

SecretInit ==
  /\ file \in Files /\ ident = 0
  /\ op = [p \in Writers |-> None] /\ temps = {}
  /\ ops = 0 /\ edits = 0 /\ faults = 0 /\ lost = {}

At(p, pc) == op[p] # None /\ op[p].pc = pc
Set(p, pc, code) == op' = [op EXCEPT ![p].pc = pc, ![p].code = code]
Fault == faults < MaxFaults /\ faults' = faults + 1
Ended(p, code) == Set(p, "done", code)

(* insert, rotate, delete: the key, and the first look at the target. *)
Start(p) ==
  \E kind \in {"insert", "rotate", "delete"}, k \in Keys, v \in Values :
    /\ op[p] = None /\ ops < MaxOps /\ ops' = ops + 1
    /\ kind = "delete" => v = CHOOSE w \in Values : TRUE
    /\ op' = [op EXCEPT ![p] =
         [n |-> ops + 1, kind |-> kind, key |-> k, value |-> IF kind = "delete" THEN 0 ELSE v, seen |-> ident,
          captured |-> <<>>, desired |-> <<>>, expected |-> Projection(<<>>), touched |-> FALSE, fenced |-> FALSE,
          pc |-> IF k \in Allowed THEN "capture" ELSE "done", code |-> IF k \in Allowed THEN "OK" ELSE "KEY_NOT_ALLOWED"]]
    /\ UNCHANGED <<file, ident, temps, edits, faults, lost>>

(* The bytes of the target, which has not changed since the first look. *)
Capture(p) ==
  /\ At(p, "capture")
  /\ IF ident # op[p].seen THEN Ended(p, "TARGET_DRIFTED")
     ELSE op' = [op EXCEPT ![p].captured = file, ![p].pc = "plan"]
  /\ UNCHANGED <<file, ident, temps, ops, edits, faults, lost>>

(* _cleanup_owned_temp: the operation ends without its temporary file, or   *)
(* with what is left and the answer that recovery is required.              *)
Left(p, left) ==
  op[p].n \in left /\ temps' = left /\ Ended(p, "RECOVERY_REQUIRED")
Discard(p, left, code) ==
  \/ temps' = temps \ {op[p].n} /\ Ended(p, code) /\ UNCHANGED faults
  \/ Fault /\ Left(p, left)
With(p) == temps \union {op[p].n}

(* The target is parsed, from the disk again, and the new lines are         *)
(* computed from the captured bytes and written to a temporary file, which  *)
(* must parse to the old assignments with the new one.                      *)
Plan(p) ==
  LET o == op[p]
      admits == Admits(o.kind, o.captured, o.key)
      desired == NewUnits(o.kind, o.captured, o.key, o.value)
  IN /\ At(p, "plan")
     /\ IF admits # "OK" THEN Ended(p, admits) /\ UNCHANGED <<temps, faults>>
        ELSE IF Projection(desired) # [Projection(file) EXCEPT ![o.key] = o.value]
        THEN Discard(p, With(p), "WRITE_VERIFICATION_FAILED")
        ELSE /\ op' = [op EXCEPT ![p].desired = Rendered(desired), ![p].pc = "fence"]
             /\ temps' = With(p) /\ UNCHANGED faults
     /\ UNCHANGED <<file, ident, ops, edits, lost>>

(* A disk that refuses: the temporary file, its mode, or the second look at *)
(* the target.  It may refuse the clean-up too.                             *)
Refused(p, left, code) ==
  /\ Fault
  /\ (temps' = temps \ {op[p].n} /\ Ended(p, code)) \/ Left(p, left)
  /\ UNCHANGED <<file, ident, ops, edits, lost>>
PlanFails(p) ==
  /\ At(p, "plan") /\ Admits(op[p].kind, op[p].captured, op[p].key) = "OK"
  /\ \E code \in {"WRITE_FAILED", "TARGET_INSPECTION_FAILED"} : Refused(p, With(p), code)
FenceFails(p) == At(p, "fence") /\ Refused(p, temps, "TARGET_READ_FAILED")

(* _atomic_replace: the target is still what was captured. *)
(* Mutant: only the size of the target is compared. *)
FenceBySize(p) ==
  /\ At(p, "fence")
  /\ IF Len(file) # Len(op[p].captured) THEN Discard(p, temps, "TARGET_DRIFTED")
     ELSE op' = [op EXCEPT ![p].pc = "replace", ![p].fenced = (ident = op[p].seen)] /\ UNCHANGED <<temps, faults>>
  /\ UNCHANGED <<file, ident, ops, edits, lost>>
Fence(p) ==
  /\ At(p, "fence")
  /\ IF file # op[p].captured \/ ident # op[p].seen THEN Discard(p, temps, "TARGET_DRIFTED")
     ELSE op' = [op EXCEPT ![p].pc = "replace", ![p].fenced = (ident = op[p].seen)] /\ UNCHANGED <<temps, faults>>
  /\ UNCHANGED <<file, ident, ops, edits, lost>>

(* What a writer puts over the change of another. *)
Overwrites(p, step, known) ==
  lost' = IF file = known THEN lost ELSE lost \union {[step |-> step, fenced |-> op[p].fenced]}

(* os.replace. *)
Replace(p) ==
  /\ At(p, "replace")
  /\ file' = op[p].desired /\ ident' = ident + 1 /\ temps' = temps \ {op[p].n}
  /\ Overwrites(p, "replace", op[p].captured)
  /\ op' = [op EXCEPT ![p].pc = "verify", ![p].touched = TRUE]
  /\ UNCHANGED <<ops, edits, faults>>

(* os.replace raises, with or without its effect, and the target is looked  *)
(* at again.                                                                *)
ReplaceRaises(p) ==
  /\ At(p, "replace") /\ Fault
  /\ \/ /\ file' = op[p].desired /\ ident' = ident + 1 /\ temps' = temps \ {op[p].n}
        /\ Overwrites(p, "replace", op[p].captured)
        /\ op' = [op EXCEPT ![p].pc = "observe", ![p].touched = TRUE]
     \/ Set(p, "observe", "OK") /\ UNCHANGED <<file, ident, temps, lost>>
  /\ UNCHANGED <<ops, edits>>
Observe(p) ==
  /\ At(p, "observe")
  /\ CASE file = op[p].captured -> Discard(p, temps, "REPLACE_FAILED")
       [] file # op[p].captured /\ file = op[p].desired -> Set(p, "rollback", "OK") /\ UNCHANGED <<temps, faults>>
       [] OTHER -> Discard(p, temps, "RECOVERY_REQUIRED")
  /\ UNCHANGED <<file, ident, ops, edits, lost>>
ObserveFails(p) == At(p, "observe") /\ Refused(p, temps, "RECOVERY_REQUIRED")

(* _verify_after_write: the key is read back. *)
Verify(p) ==
  /\ At(p, "verify")
  /\ IF Projection(file)[op[p].key] = op[p].value THEN Ended(p, "DONE") ELSE Set(p, "rollback", "OK")
  /\ UNCHANGED <<file, ident, temps, ops, edits, faults, lost>>
VerifyFails(p) ==
  /\ At(p, "verify") /\ Fault /\ Set(p, "rollback", "OK")
  /\ UNCHANGED <<file, ident, temps, ops, edits, lost>>

(* _rollback: the captured bytes replace the target. *)
Rollback(p) ==
  /\ At(p, "rollback")
  /\ file' = op[p].captured /\ ident' = ident + 1
  /\ Overwrites(p, "rollback", op[p].desired)
  /\ Set(p, "restored", "OK")
  /\ UNCHANGED <<temps, ops, edits, faults>>
RollbackFails(p) == At(p, "rollback") /\ Refused(p, With(p), "RECOVERY_REQUIRED")

(* The restored bytes, and the mode, are proven, or are not; the temporary  *)
(* file of a replacement that did not happen is cleaned up at last.         *)
Restored(p) ==
  /\ At(p, "restored")
  /\ Discard(p, temps, IF file = op[p].captured THEN "WRITE_ROLLED_BACK" ELSE "RECOVERY_REQUIRED")
  /\ UNCHANGED <<file, ident, ops, edits, lost>>
RestoredFails(p) == At(p, "restored") /\ Refused(p, temps, "RECOVERY_REQUIRED")

(* The operation returns. *)
Return(p) ==
  /\ At(p, "done") /\ op' = [op EXCEPT ![p] = None]
  /\ UNCHANGED <<file, ident, temps, ops, edits, faults, lost>>

(* An editor gives a key another value. *)
Edit ==
  /\ edits < MaxEdits /\ edits' = edits + 1
  /\ \E k \in EditKeys, v \in Values : \E i \in Owned(file, k) :
       file[i].value # v /\ file' = [file EXCEPT ![i].value = v]
  /\ ident' = ident + 1
  /\ UNCHANGED <<op, temps, ops, faults, lost>>

SecretNext ==
  \/ \E p \in Writers :
       \/ Start(p) \/ Capture(p) \/ Plan(p) \/ PlanFails(p) \/ Fence(p) \/ FenceFails(p)
       \/ Replace(p) \/ ReplaceRaises(p) \/ Observe(p) \/ ObserveFails(p)
       \/ Verify(p) \/ VerifyFails(p) \/ Rollback(p) \/ RollbackFails(p)
       \/ Restored(p) \/ RestoredFails(p) \/ Return(p)
  \/ Edit
SecretSpec == SecretInit /\ [][SecretNext]_secretVars

-----------------------------------------------------------------------------
(* The type of the state: what an operation captured and made has lines in  *)
(* which only the last one lacks a terminator, so that it can be read again.*)
WellFormed(units) ==
  units = <<>> \/ \A i \in DOMAIN units : units[i].term = "no" <=> i = Len(units)
SecretTypeOK ==
  /\ WellFormed(file) /\ temps \subseteq 1..ops
  /\ ops \in 0..MaxOps /\ edits \in 0..MaxEdits /\ faults \in 0..MaxFaults
  /\ \A p \in Writers : op[p] # None =>
       /\ WellFormed(op[p].captured) /\ WellFormed(op[p].desired)
       /\ op[p].pc \in {"capture", "plan", "fence", "replace", "observe", "verify", "rollback",
                    "restored", "done"}

(* _execute: nothing but the line of the key changes.  Every other line of  *)
(* the captured file, comments and exports too, is in the new one, in its   *)
(* order, and only the missing last terminator may be added.                *)
Rest(units, k) == SelectSeq(units, LAMBDA l : ~(l.key = k /\ l.kind = "plain") /\ l # Blank)
UnrelatedPreserved ==
  \A p \in Writers : op[p] # None /\ op[p].pc \in {"fence", "replace", "verify"} =>
    LET o == op[p]
        was == Rest(o.captured, o.key)
        is == Rest(o.desired, o.key)
    IN /\ Len(was) = Len(is)
       /\ \A i \in DOMAIN was : was[i] = is[i] \/ (i = Len(was) /\ was[i].term = "no" /\ [was[i] EXCEPT !.term = is[i].term] = is[i])
       /\ Projection(o.desired)[o.key] = o.value

(* "Ambiguous outcomes return distinct typed errors": an operation that     *)
(* answers with a refusal, and not with a rollback or the need of recovery, *)
(* has not touched the target.  (REPLACE_FAILED says only that the captured *)
(* bytes were there after os.replace raised: a writer of the same bytes, or *)
(* an editor that put them back, gets it from a replacement too.)           *)
RefusedUntouched ==
  \A p \in Writers : At(p, "done") /\ op[p].code \notin {"DONE", "WRITE_ROLLED_BACK", "RECOVERY_REQUIRED", "REPLACE_FAILED"}
    => ~op[p].touched

(* "Owned temporary files are never abandoned silently": an operation that  *)
(* leaves its temporary file behind says that recovery is required.         *)
NoTempLeft == \A p \in Writers : At(p, "done") /\ op[p].n \in temps => op[p].code = "RECOVERY_REQUIRED"

(* _atomic_replace: what a write overwrites was changed after the look at   *)
(* the target that precedes it, never before.                               *)
DriftSeenBeforeFence == \A l \in lost : l.fenced

=================================================================================
