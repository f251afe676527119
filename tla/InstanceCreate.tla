---------------------------- MODULE InstanceCreate ----------------------------
(***************************************************************************)
(* The creation of connector instances (instance_create.create_instance and *)
(* desktop_control.create_instance, which copy a reference instance, and    *)
(* setup_wizard.FirstInstanceCreator, which needs none).  An instance is a  *)
(* directory of files; a creator writes them one at a time and may die in   *)
(* between.  Names are numbers, in the order of the directory listing; the  *)
(* contents of a file are the creator that wrote it and the port it gave.   *)
(*                                                                          *)
(* What becomes of the start script is a machine of its own, below: a copy  *)
(* of the reference's start.ps1 is first made to keep the logs of the       *)
(* previous run and to end with the exit code of the runtime.  A script is  *)
(* a sequence of lines: statements the code knows by a pattern, openings    *)
(* and closings of blocks, others.  The scripts are what some edits make of *)
(* generated ones.  The five preflight guards are one, as are the two forms *)
(* of a launch and of the line that makes the archive; a statement that     *)
(* matches nothing is "other", and one the lexer cannot vouch for is in     *)
(* Escapes.                                                                 *)
(***************************************************************************)
EXTENDS Naturals, Sequences, FiniteSets, FiniteSetsExt, SequencesExt

CONSTANTS
  Names,      \* the names of instances
  Creators,   \* calls of either creator
  None,       \* no file
  BasePort,   \* the port next_health_port answers for no instance: 18011
  Overlap,    \* do creators of two processes run at the same time
  Extras      \* does the user put a second Start-*.cmd into an instance

InstanceAssumption ==
  /\ BasePort \in Nat /\ Overlap \in BOOLEAN /\ Extras \in BOOLEAN
  /\ Names \subseteq Nat \ {0}

VARIABLES
  made,    \* made[n]: the directory of n exists
  file,    \* file[n][f]: what is in file f of n
  extra,   \* extra[n]: n has two Start-*.cmd
  call     \* call[c]: where creator c is

instanceVars == <<made, file, extra, call>>

Files == {"instance", "start", "stop", "startCmd", "stopCmd", "template", "config"}
(* The files in the order each creator writes them. *)
CopyOrder == <<"instance", "start", "startCmd", "stop", "stopCmd", "template", "config">>
WizardOrder == <<"instance", "start", "stop", "startCmd", "stopCmd", "template", "config">>
OrderOf(c) == IF call[c].kind = "wizard" THEN WizardOrder ELSE CopyOrder

InstanceInit ==
  /\ made = [n \in Names |-> FALSE]
  /\ file = [n \in Names |-> [f \in Files |-> None]]
  /\ extra = [n \in Names |-> FALSE]
  /\ call = [c \in Creators |-> [pc |-> "idle", kind |-> "copy", name |-> 0, port |-> 0,
                                reference |-> 0, next |-> 0]]

(* discover_local_instances: an instance is a directory with an instance.ps1. *)
Discovered == {n \in Names : file[n]["instance"] # None}
PortOf(n) == file[n]["instance"].port

NextPort(ns) == IF ns = {} THEN BasePort ELSE Max({PortOf(n) : n \in ns}) + 1

Running == {c \in Creators : call[c].pc \in {"asked", "checked", "writing", "verify"}}
MayStart == Overlap \/ Running = {}
Give(c, r) == call' = [call EXCEPT ![c] = r]
To(c, pc) == Give(c, [call[c] EXCEPT !.pc = pc])

(* desktop_control.create_instance: the port and the reference, from one    *)
(* look at the instances; without an instance the reference is looked for   *)
(* when the call gets to it (_reference_root).                              *)
Ask(c, n) ==
  /\ call[c].pc = "idle" /\ MayStart
  /\ Give(c, [pc |-> "asked", kind |-> "copy", name |-> n, port |-> NextPort(Discovered),
              reference |-> IF Discovered = {} THEN 0 ELSE Min(Discovered), next |-> 1])
  /\ UNCHANGED <<made, file, extra>>

ReferenceValid(r) == \A f \in Files \ {"instance"} : file[r][f] # None

Check(c) ==
  /\ call[c].pc = "asked"
  /\ IF made[call[c].name] THEN To(c, "refused")
     ELSE LET r == IF call[c].reference # 0 THEN call[c].reference
                   ELSE IF Discovered = {} THEN 0 ELSE Min(Discovered)
          IN IF r = 0 \/ (r # 0 /\ ~ReferenceValid(r)) THEN To(c, "refused")
             ELSE Give(c, [call[c] EXCEPT !.pc = "checked", !.reference = r])
  /\ UNCHANGED <<made, file, extra>>

(* FirstInstanceCreator.create: the port is the default of its argument. *)
StartWizard(c, n) ==
  /\ call[c].pc = "idle" /\ MayStart
  /\ Give(c, [pc |-> IF made[n] THEN "refused" ELSE "checked", kind |-> "wizard", name |-> n,
              port |-> BasePort, reference |-> 0, next |-> 1])
  /\ UNCHANGED <<made, file, extra>>

(* mkdir with exist_ok: it does not say who made the directory. *)
MakeDirectories(c) ==
  /\ call[c].pc = "checked"
  /\ made' = [made EXCEPT ![call[c].name] = TRUE]
  /\ To(c, "writing")
  /\ UNCHANGED <<file, extra>>

(* The Start-*.cmd of the reference: by its canonical name, or the only one. *)
(* The wizard names the file of its instance otherwise.                     *)
WizardMade(r) == file[r]["startCmd"] # None /\ file[r]["startCmd"].kind = "wizard"
CmdSourceFound(r) == ~(WizardMade(r) /\ extra[r])

(* The next file.  A source that cannot be told apart ends the call here;   *)
(* the configuration is copied when the reference has one.                  *)
WriteFile(c) ==
  /\ call[c].pc = "writing"
  /\ LET x == call[c]
         f == OrderOf(c)[x.next]
         content == [by |-> c, kind |-> x.kind, port |-> x.port]
         found == (x.kind = "copy" /\ f # "instance") =>
                    file[x.reference][f] # None /\ (f = "startCmd" => CmdSourceFound(x.reference))
         last == x.next = Len(OrderOf(c))
         then == [x EXCEPT !.pc = IF last THEN "verify" ELSE "writing",
                           !.next = IF last THEN @ ELSE @ + 1]
     IN \/ /\ found \/ f = "config"
           /\ file' = IF found THEN [file EXCEPT ![x.name][f] = content] ELSE file
           /\ Give(c, then)
        \/ ~found /\ f # "config" /\ To(c, "refused") /\ UNCHANGED file
  /\ UNCHANGED <<made, extra>>

(* The new instance is among those discovered now; the wizard does not look. *)
Verify(c) ==
  /\ call[c].pc = "verify"
  /\ To(c, IF call[c].kind = "wizard" \/ call[c].name \in Discovered THEN "returned" ELSE "refused")
  /\ UNCHANGED <<made, file, extra>>

Die(c) ==
  /\ call[c].pc \in {"checked", "writing", "verify"}
  /\ To(c, "dead")
  /\ UNCHANGED <<made, file, extra>>

AddCmd(n) ==
  /\ Extras /\ ~extra[n] /\ file[n]["startCmd"] # None
  /\ extra' = [extra EXCEPT ![n] = TRUE]
  /\ UNCHANGED <<made, file, call>>

InstanceNext ==
  \/ \E c \in Creators :
       \/ \E n \in Names : Ask(c, n) \/ StartWizard(c, n)
       \/ Check(c) \/ MakeDirectories(c) \/ WriteFile(c) \/ Verify(c) \/ Die(c)
  \/ \E n \in Names : AddCmd(n)
InstanceSpec == InstanceInit /\ [][InstanceNext]_instanceVars

--------------------------------------------------------------------------------
InstanceTypeOK ==
  /\ made \in [Names -> BOOLEAN] /\ extra \in [Names -> BOOLEAN]
  /\ \A n \in Names, f \in Files : file[n][f] # None =>
       made[n] /\ file[n][f].port \in BasePort..(BasePort + Cardinality(Creators))
  /\ \A c \in Creators : call[c].name \in Names \cup {0} /\ call[c].next \in 0..Len(CopyOrder)

(* An instance that was reported as created has all its files, although its *)
(* reference may be the unfinished work of another creator, alive or dead.  *)
ReturnedIsComplete ==
  \A c \in Creators : call[c].pc = "returned" => \A f \in Files : file[call[c].name][f] # None

(* A refused creator has written nothing, unless its reference has two       *)
(* Start-*.cmd of which none has the canonical name: that is found out only  *)
(* when the file is copied (instance_create.py:1076), against the comment    *)
(* at line 1001, "a bad reference never leaves a half-built skeleton folder  *)
(* behind".                                                                  *)
RefusedLeavesNothing ==
  \A c \in Creators : call[c].pc = "refused" =>
    \/ \A n \in Names, f \in Files : file[n][f] # None => file[n][f].by # c
    \/ call[c].reference # 0 /\ ~CmdSourceFound(call[c].reference)

(* When creators run one after the other, what was reported as created is    *)
(* the work of one of them.                                                  *)
OneAuthor ==
  \A c \in Creators : call[c].pc = "returned" => \A f \in Files : file[call[c].name][f].by = c

(* Instances that were copied one after the other listen on different ports. *)
CopiesListenApart ==
  \A m, n \in Discovered :
    (m # n /\ file[m]["instance"].kind = "copy" /\ file[n]["instance"].kind = "copy") => PortOf(m) # PortOf(n)

--------------------------------------------------------------------------------
(* The start script *)

CONSTANTS
  Scripts,    \* the scripts the edits start from
  Insertable, \* the lines an edit inserts
  MaxEdits    \* bound on the edits

ScriptAssumption == MaxEdits \in Nat

VARIABLES script, edits
scriptVars == <<script, edits>>

(* A line is code, or inside of a comment, a here-string or a quoted string *)
(* (_lex_powershell).  open is the line where a string begins that never    *)
(* ends, or 0: then the text does not lex.                                  *)
Kinds == {"code", "comment", "here", "quoted"}
Line(t, k) == [text |-> t, kind |-> k]
Plain(ts) == [lines |-> [i \in DOMAIN ts |-> Line(ts[i], "code")], open |-> 0]
LexValid(s) == s.open = 0

Conditional == {"testpath", "if0", "guard", "legacyif", "block"}
Opening == Conditional \cup {"foreach", "else", "try", "finally", "failfn"}
Closing == {"close", "else"}        \* "} else {" closes one block and opens another

ArchiveBlock == <<"mkdir", "stamp", "foreach", "testpath", "leaf", "archived", "move", "close", "close">>
ExitBlock == <<"wait", "refresh", "capture", "if0", "stopped", "else", "failedlog", "close", "exit">>
MethodWait == <<"wait", "legacyif", "fail", "close">>

--------------------------------------------------------------------------------
(* The views.  Executable lines are those a pattern may search; Filtered    *)
(* drops the matches that begin inside a string.                            *)
Executable(s) == {i \in DOMAIN s.lines : s.lines[i].kind \in {"code", "quoted"}}
Filtered(s) == {i \in DOMAIN s.lines : s.lines[i].kind = "code" /\ (s.open = 0 \/ i < s.open)}
At(s, view, t) == {i \in view : s.lines[i].text = t}

(* _scan_block_spans: the blocks, by a scan of the braces outside strings. *)
Braces(s, t, n) == Cardinality({i \in Filtered(s) : i <= n /\ s.lines[i].text \in t})
Level(s, n) == Braces(s, Opening, n - 1) - Braces(s, Closing, n - 1)    \* before line n
OpensAt(s, o) == IF s.lines[o].text = "else" THEN Level(s, o) - 1 ELSE Level(s, o)
Balanced(s) ==
  LET n == Len(s.lines)
  IN /\ Braces(s, Opening, n) = Braces(s, Closing, n)
     /\ \A i \in Filtered(s) : s.lines[i].text \in Closing =>
          Braces(s, Opening, i - 1) > Braces(s, Closing, i - 1)
Closes(s, o) == {j \in Filtered(s) : j > o /\ s.lines[j].text \in Closing /\ Level(s, j) - 1 = OpensAt(s, o)}
Spans(s) ==
  {[head |-> s.lines[o].text, open |-> o, close |-> Min(Closes(s, o)), level |-> OpensAt(s, o)] :
     o \in {i \in Filtered(s) : s.lines[i].text \in Opening}}

(* pairing_valid: the scan remembers ONE try that awaits its finally, at    *)
(* its level; the next opener of that level must be the finally, with only  *)
(* comments between.  It looks at the openings and closings in order.       *)
PairingValid(s, sp) ==
  LET Nothing == [level |-> 0, at |-> 0]
      Opened(p, x) ==
        CASE x.head = "finally" ->
               [p EXCEPT !.ok = /\ p.ok
                                /\ p.pending.at # 0
                                /\ p.pending.level = x.level
                                /\ \A i \in (p.pending.at + 1)..(x.open - 1) : s.lines[i].kind = "comment",
                         !.pending = Nothing]
          [] x.head # "finally" /\ p.pending.at # 0 /\ p.pending.level = x.level -> [p EXCEPT !.ok = FALSE]
          [] OTHER -> p
      Closed(p, x) == IF x.head = "try" THEN [p EXCEPT !.pending = [level |-> x.level, at |-> x.close]] ELSE p
      Visit(p, i) ==
        LET shut == {x \in sp : x.close = i}
            begun == {x \in sp : x.open = i}
            q == IF shut = {} THEN p ELSE Closed(p, CHOOSE x \in shut : TRUE)
        IN IF begun = {} THEN q ELSE Opened(q, CHOOSE x \in begun : TRUE)
      end == FoldLeft(Visit, [ok |-> TRUE, pending |-> Nothing], [i \in DOMAIN s.lines |-> i])
  IN end.ok /\ end.pending.at = 0

(* _enclosing_from_spans: the headers around a line, innermost first. *)
Enclosing(sp, i) ==
  LET around == {x \in sp : x.open < i /\ i < x.close}
      inner(x, y) == x.open > y.open
      order == SetToSortSeq(around, inner)
  IN [k \in DOMAIN order |-> order[k].head]

(* _validated_helper_exemptions: the helper and the guard occur once, at    *)
(* the top level, with exactly the body they are generated with.            *)
Body(s, x) == SubSeq(s.lines, x.open + 1, x.close - 1)
HelpersValid(s, sp) ==
  \A x \in sp : x.head \in {"failfn", "guard"} =>
     /\ \A y \in sp : y.head = x.head => y = x
     /\ ~\E y \in sp : y.open < x.open /\ x.close < y.close
     /\ Body(s, x) = <<Line(IF x.head = "failfn" THEN "exit1" ELSE "fail", "code")>>

(* _terminal_control_flow_is_canonical: apart from the helper, the one      *)
(* token that ends the script is the exit marker; no break, no continue.    *)
(* Mutant: terminal tokens are not looked for. *)
TerminalAnywhere(s, sp) == TRUE
TerminalCanonical(s, sp) ==
  /\ At(s, Filtered(s), "break") = {}
  /\ At(s, Filtered(s), "throw") = {}
  /\ \A i \in At(s, Filtered(s), "exit1") : \E x \in sp : x.head = "failfn" /\ x.open < i /\ i < x.close
  /\ Cardinality(At(s, Filtered(s), "exit")) = 1

(* The markers, in their order, and where each may stand. *)
Markers == <<"archiveDir", "mkdir", "stamp", "foreach", "testpath", "leaf", "archived", "move",
             "starting", "launch", "wait", "refresh", "capture", "stopped", "failedlog", "exit">>
InTry(around) == {around, Append(around, "try")}
AllowedAround(t) ==
  CASE t \in {"archiveDir", "mkdir", "stamp", "foreach", "starting"} -> {<<>>}
    [] t = "testpath" -> {<<"foreach">>}
    [] t \in {"leaf", "archived", "move"} -> {<<"testpath", "foreach">>}
    [] t \in {"launch", "wait", "refresh", "capture", "exit"} -> InTry(<<>>)
    [] t = "stopped" -> InTry(<<"if0">>)
    [] t = "failedlog" -> InTry(<<"else">>)

(* _contains_smart_quotes, _expandable_interpolation_is_supported and the    *)
(* backticks: no smart quote anywhere, no interpolation in what PowerShell   *)
(* expands, no backtick in code but in the launch.                           *)
Escapes == {"smart", "interp", "tick"}
Vouched(s) ==
  \A i \in DOMAIN s.lines :
    CASE s.lines[i].text = "smart" -> FALSE
      [] s.lines[i].text = "interp" -> s.lines[i].kind = "comment"
      [] s.lines[i].text = "tick" -> s.lines[i].kind # "code"
      [] OTHER -> TRUE

(* _is_runtime_forensics_hardened *)
Hardened(s) ==
  LET code == Filtered(s)
      places == [k \in DOMAIN Markers |-> At(s, code, Markers[k])]
  IN /\ LexValid(s) /\ Vouched(s)
     /\ \A k \in DOMAIN Markers : Cardinality(places[k]) = 1
     /\ At(s, code, "waitproc") = {} /\ At(s, code, "legacyif") = {}
     /\ Balanced(s)
     /\ LET sp == Spans(s)
            place(k) == CHOOSE i \in places[k] : TRUE
        IN /\ PairingValid(s, sp)
           /\ HelpersValid(s, sp)
           /\ \A x \in sp : x.head # "block"
           /\ \A i \in At(s, code, "fail") : \E x \in sp : x.head = "guard" /\ x.open < i /\ i < x.close
           /\ TerminalCanonical(s, sp)
           /\ \A k \in DOMAIN Markers : Enclosing(sp, place(k)) \in AllowedAround(Markers[k])
           /\ \A k \in 2..Len(Markers) : place(k - 1) < place(k)

(* _has_runtime_forensics_structural_signal: does any line look like a part *)
(* of a script of either form; strings count when the text does not lex.    *)
Distinctive == (Range(Markers) \ {"starting", "launch"}) \cup {"waitproc", "legacyif"}
Signal(s) ==
  \E i \in (IF LexValid(s) THEN Filtered(s) ELSE Executable(s)) : s.lines[i].text \in Distinctive

(* _harden_start_script_runtime_forensics *)
MethodWaits(s) ==
  {i \in Filtered(s) : /\ i + 3 <= Len(s.lines)
                       /\ SubSeq(s.lines, i, i + 3) = Plain(MethodWait).lines}
Spliced(s, i, k, ts) ==      \* k lines from line i on give way to ts
  [s EXCEPT !.lines = SubSeq(@, 1, i - 1) \o Plain(ts).lines \o SubSeq(@, i + k, Len(@)),
            !.open = IF @ >= i THEN @ + Len(ts) - k ELSE @]
TheLine(s, t) == CHOOSE i \in At(s, Filtered(s), t) : TRUE
HasSeams(s) ==
  LET one(t) == Cardinality(At(s, Filtered(s), t)) = 1
  IN /\ one("stdout") /\ one("stderr") /\ one("starting")
     /\ Cardinality(At(s, Filtered(s), "waitproc")) + Cardinality(MethodWaits(s)) = 1
     /\ TheLine(s, "stderr") < TheLine(s, "starting")
Harden(s) ==
  IF At(s, Executable(s), "archiveDir") \cup At(s, Executable(s), "capture") # {} \/ ~HasSeams(s)
  THEN s
  ELSE LET a == Spliced(s, TheLine(s, "stderr") + 1, 0, <<"archiveDir">>)
           b == Spliced(a, TheLine(a, "starting"), 0, ArchiveBlock)
       IN IF At(b, Filtered(b), "waitproc") # {}
          THEN Spliced(b, TheLine(b, "waitproc"), 1, ExitBlock)
          ELSE Spliced(b, Min(MethodWaits(b)), Len(MethodWait), ExitBlock)

(* _classify_start_script_runtime_forensics: the text to use and its state. *)
Classify(s) ==
  LET h == Harden(s)
  IN IF h # s
     THEN IF Hardened(h) THEN [text |-> h, state |-> "TRANSFORMED"]
          ELSE [text |-> s, state |-> "REFUSED_AMBIGUOUS"]
     ELSE [text |-> s,
           state |-> IF Hardened(s) THEN "ALREADY_HARDENED"
                     ELSE IF Signal(s) THEN "REFUSED_AMBIGUOUS" ELSE "PASSTHROUGH_UNRECOGNIZED"]

--------------------------------------------------------------------------------
(* What people do to a script.  A string that is left open comes last. *)
ScriptInit == script \in Scripts /\ edits = 0
Edit(s) == edits < MaxEdits /\ LexValid(script) /\ edits' = edits + 1 /\ script' = s
Delete(i) == Edit(Spliced(script, i, 1, <<>>))
Duplicate(i) == Edit([script EXCEPT !.lines = SubSeq(@, 1, i) \o SubSeq(@, i, Len(@))])
MoveUp(i) ==
  /\ i > 1
  /\ Edit([script EXCEPT !.lines = [@ EXCEPT ![i] = script.lines[i - 1], ![i - 1] = script.lines[i]]])
Insert(i, t) == Edit(Spliced(script, i, 0, <<t>>))
Wrap(i, k) == script.lines[i].kind = "code" /\ Edit([script EXCEPT !.lines[i].kind = k])
LeaveOpen(i) == Edit([Spliced(script, i, 0, <<"other">>) EXCEPT !.open = i])

ScriptNext ==
  \E i \in DOMAIN script.lines :
    \/ Delete(i)
    \/ Duplicate(i)
    \/ MoveUp(i)
    \/ \E t \in Insertable : Insert(i, t)
    \/ \E k \in Kinds \ {"code"} : Wrap(i, k)
    \/ LeaveOpen(i)
ScriptSpec == ScriptInit /\ [][ScriptNext]_scriptVars

--------------------------------------------------------------------------------
(* What a script does, independently of how it is recognised. *)

(* PowerShell accepts an else only after a conditional, and a try only with *)
(* its finally.                                                             *)
TriesPaired(s) ==
  LET sp == Spans(s)
      follows(f, t) == /\ f.head = "finally" /\ f.level = t.level /\ f.open > t.close
                       /\ \A i \in (t.close + 1)..(f.open - 1) : s.lines[i].kind = "comment"
  IN /\ \A t \in sp : t.head = "try" => \E f \in sp : follows(f, t)
     /\ \A f \in sp : f.head = "finally" => \E t \in sp : t.head = "try" /\ follows(f, t)
Parses(s) ==
  /\ LexValid(s) /\ Balanced(s) /\ TriesPaired(s)
  /\ \A x \in Spans(s) : x.head = "else" =>
       \E y \in Spans(s) : y.close = x.open /\ y.head \in Conditional

(* The lines that run when the conditions of the blocks in taken hold. *)
Runs(s, sp, taken) ==
  {i \in Filtered(s) :
     \A x \in sp : (x.open < i /\ i < x.close) =>
        /\ x.head # "failfn"
        /\ x.head \in Conditional => x \in taken
        /\ x.head = "else" => ~\E y \in taken : y.close = x.open}
(* An escape may spell any command, also one that ends the script. *)
Ends(s, run) == {i \in run : s.lines[i].text \in {"exit", "exit1", "throw", "fail", "break"} \cup Escapes}

(* Whichever conditions hold: a run that launches has archived the logs     *)
(* before, waits for the runtime, and ends with the exit code it read after *)
(* that; a run that does not launch ends in a failure of the preflight.     *)
Forensic(s) ==
  LET sp == Spans(s)
      ifs == {x \in sp : x.head \in Conditional}
  IN \A taken \in SUBSET ifs :
       LET all == Runs(s, sp, taken)
           ends == Ends(s, all)
           last == IF ends = {} THEN Len(s.lines) + 1 ELSE Min(ends)
           run == {i \in all : i <= last}
           Order(ts) ==      \* the statements ts run, once and in this order
             /\ \A k \in DOMAIN ts : Cardinality(At(s, run, ts[k])) = 1
             /\ \A k \in 2..Len(ts) : Min(At(s, run, ts[k - 1])) < Min(At(s, run, ts[k]))
       IN /\ ends # {}
          /\ IF At(s, run, "launch") = {} THEN s.lines[last].text = "fail"
             ELSE /\ Order(<<"archiveDir", "mkdir", "stamp", "launch", "wait", "refresh", "capture", "exit">>)
                  /\ (\A x \in ifs : x.head = "testpath" => x \in taken) =>
                       Order(<<"stamp", "leaf", "archived", "move", "launch">>)

ScriptTypeOK ==
  /\ edits \in 0..MaxEdits
  /\ script.open \in 0..Len(script.lines)
  /\ \A i \in DOMAIN script.lines : script.lines[i].kind \in Kinds

(* A script that is taken for hardened, or was made so, and that PowerShell *)
(* accepts, archives and reports the exit code whatever happens.            *)
HardenedIsForensic ==
  LET c == Classify(script)
  IN (c.state \in {"TRANSFORMED", "ALREADY_HARDENED"} /\ Parses(c.text)) => Forensic(c.text)

(* The hardening keeps every other line, in its order: credentials,         *)
(* preflight and the finally of the reference survive it; and the script it *)
(* makes is known as hardened when it is a reference itself.                *)
Embeds(a, b) ==
  LET step(k, x) == IF k <= Len(a) /\ a[k] = x THEN k + 1 ELSE k
  IN FoldLeft(step, 1, b) = Len(a) + 1
WithoutWait(s) ==
  IF At(s, Filtered(s), "waitproc") # {} THEN Spliced(s, TheLine(s, "waitproc"), 1, <<>>)
  ELSE Spliced(s, Min(MethodWaits(s)), Len(MethodWait), <<>>)
HardeningKeepsTheRest ==
  LET c == Classify(script)
  IN c.state = "TRANSFORMED" =>
       /\ Embeds(WithoutWait(script).lines, c.text.lines)
       /\ Classify(c.text) = [text |-> c.text, state |-> "ALREADY_HARDENED"]

================================================================================
