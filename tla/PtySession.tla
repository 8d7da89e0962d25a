------------------------------ MODULE PtySession ------------------------------
(***************************************************************************)
(* The interactive guard: runPtySession forwards what the user types to    *)
(* the tool at once, keeps a shadow of the tool's input box with           *)
(* LineReconstructor, and at each Enter scans the shadow line before it    *)
(* sends the carriage return, or clears the box.  Keystrokes that arrive   *)
(* while a scan is awaited wait in a queue.                                *)
(*                                                                         *)
(* A keystroke is a token: a character, one of the keys below, or Enter.   *)
(* The shadow holds the bytes of the text, one by one.  The tool (external) *)
(* keeps its own input box, which Ctrl+U clears.                           *)
(***************************************************************************)
EXTENDS Naturals, Sequences

CONSTANTS Keystrokes,   \* the tokens the user may type
          MaxTyped      \* bound: tokens typed in a session

(* Chars, of one byte each; a character of several bytes; then: backspace, *)
(* Ctrl+W, Ctrl+U or Ctrl+C; a cursor or function key; Escape, which also  *)
(* begins every Alt combination; the markers around a bracketed paste; the *)
(* end marker when it arrives in two chunks; Enter.                        *)
Chars == {"x", "/", " "}
Tokens == Chars \cup {"WIDE", "BS", "WORD", "KILL", "KEY", "ESC", "PASTE", "END", "SPLIT", "ENTER"}

ASSUME PtyAssumption == Keystrokes \subseteq Tokens /\ MaxTyped \in Nat

VARIABLES queue, slice,           \* chunks not yet drained; the slice being processed
          gate,                   \* "open", or the step of gateLine
          line,                   \* the line at the gate
          buffer, dirty, pasting, \* LineReconstructor
          escaped,                \* its pending: a lone escape character
          box, boxPasting,        \* the tool's input box and its paste mode (external)
          submitted,              \* lines the tool acted on
          astray,                 \* history: the shadow has missed an edit, unflagged
          typed, over

shadow == <<buffer, dirty, pasting, escaped>>
tool == <<box, boxPasting, submitted>>
ptyVars == <<queue, slice, gate, line, shadow, tool, astray, typed, over>>

NoLine == [text |-> <<>>, dirty |-> FALSE]

PtyInit ==
  /\ queue = <<>> /\ slice = <<>> /\ gate = "open" /\ line = NoLine
  /\ buffer = <<>> /\ dirty = FALSE /\ pasting = FALSE /\ escaped = FALSE
  /\ box = <<>> /\ boxPasting = FALSE /\ submitted = {}
  /\ astray = FALSE /\ typed = 0 /\ over = FALSE

ButLast(s) == IF s = <<>> THEN s ELSE SubSeq(s, 1, Len(s) - 1)
Space == {" ", "\n"}
Blank(t) == \A i \in 1..Len(t) : t[i] \in Space
Slash(t) == t # <<>> /\ Head(t) = "/"
Wide(t) == t # <<>> /\ t[Len(t)] = "w"
Bytes(k) == CASE k \in Chars -> <<k>> [] k = "WIDE" -> <<"w", "w">> [] OTHER -> <<"x">>

(* The last word and the blanks after it, if there is a word. *)
DropWord(t) ==
  LET word == {i \in 1..Len(t) : t[i] \notin Space}
      before == {i \in 1..Len(t) : t[i] \in Space /\ \E j \in word : i < j}
      cut == CHOOSE i \in before \cup {0} : \A j \in before : j <= i
  IN IF word = {} THEN t ELSE SubSeq(t, 1, cut)
-----------------------------------------------------------------------------
(* Faulty variant: Ctrl+C leaves the shadow line as it is. *)
PushKeepsKilled(k) ==
  /\ buffer' = (CASE k \in Chars -> Append(buffer, k) [] k = "BS" -> ButLast(buffer) [] OTHER -> buffer)
  /\ dirty' = (dirty \/ k = "KEY") /\ pasting' = (k = "PASTE") /\ escaped' = (k = "ESC")

(* Keys whose bytes begin with an escape character. *)
Escapes == {"KEY", "PASTE", "END", "SPLIT"}

(* LineReconstructor.push of anything but Enter.  While it is pasting,     *)
(* every byte is text until a chunk holds the whole end marker.  A lone    *)
(* escape character waits, and the next byte is taken for the rest of an   *)
(* untracked sequence: of a key that is a sequence itself, what follows    *)
(* its escape character becomes text.                                      *)
Push(k) ==
  CASE pasting ->
         /\ pasting' = (k # "END")
         /\ buffer' = IF k = "END" THEN buffer ELSE buffer \o Bytes(k)
         /\ UNCHANGED <<dirty, escaped>>
    [] ~pasting /\ escaped ->
         /\ escaped' = FALSE /\ dirty' = TRUE /\ UNCHANGED pasting
         /\ buffer' = (CASE k \in Escapes -> Append(buffer, "x")
                         [] k = "WIDE" -> Append(buffer, "w")
                         [] OTHER -> buffer)
    [] ~pasting /\ ~escaped ->
         /\ buffer' = (CASE k \in Chars \cup {"WIDE"} -> buffer \o Bytes(k)
                         [] k = "BS"   -> ButLast(buffer)
                         [] k = "WORD" -> DropWord(buffer)
                         [] k = "KILL" -> <<>>
                         [] OTHER      -> buffer)
         /\ dirty' = (k # "KILL" /\ (dirty \/ k \in {"KEY", "END", "SPLIT"}))
         /\ pasting' = (k = "PASTE")
         /\ escaped' = (k = "ESC")

(* What the same bytes do to the input box.  Backspace may take a whole    *)
(* character, Ctrl+W also takes blanks alone, and a cursor key or Escape   *)
(* may recall an earlier line.                                             *)
Type(k) ==
  IF boxPasting
  THEN /\ boxPasting' = (k \notin {"END", "SPLIT"})
       /\ box' = IF k \in {"END", "SPLIT"} THEN box ELSE box \o Bytes(k)
       /\ UNCHANGED submitted
  ELSE /\ box' \in (CASE k \in Chars \cup {"WIDE"} -> {box \o Bytes(k)}
                      [] k = "BS"   -> {ButLast(box)} \cup
                                       (IF Wide(box) THEN {ButLast(ButLast(box))} ELSE {})
                      [] k = "WORD" -> {IF Blank(box) THEN <<>> ELSE DropWord(box)}
                      [] k = "KILL" -> {<<>>}
                      [] k \in {"KEY", "ESC"} -> {box, <<"x", "x">>}
                      [] OTHER      -> {box})
       /\ boxPasting' = (k = "PASTE")
       /\ UNCHANGED submitted

(* Edits the shadow follows wrongly without calling the line dirty: it     *)
(* misses the end of a paste, or the start of one after a lone escape; it  *)
(* takes one byte of a character; it keeps blanks that Ctrl+W takes.       *)
GoesAstray(k) ==
  \/ pasting /\ k = "SPLIT"
  \/ escaped /\ k = "PASTE"
  \/ ~pasting /\ k = "BS" /\ Wide(box)
  \/ ~pasting /\ k = "WORD" /\ Blank(box)

(* child.write('\r'): a newline inside a paste, otherwise the box is sent. *)
Return(free, scanned, was) ==
  IF boxPasting
  THEN box' = Append(box, "\n") /\ UNCHANGED <<boxPasting, submitted>>
  ELSE /\ submitted' = submitted \cup {[text |-> box, free |-> free, scanned |-> scanned, dirty |-> was]}
       /\ box' = <<>> /\ UNCHANGED boxPasting
-----------------------------------------------------------------------------
(* onStdin: the chunk is queued. *)
OnStdin(k) ==
  /\ ~over /\ typed < MaxTyped
  /\ queue' = Append(queue, k) /\ typed' = typed + 1
  /\ UNCHANGED <<slice, gate, line, shadow, tool, astray, over>>

(* Faulty variant: a slice is one chunk, and more than one is not foreseen. *)
DrainSingle ==
  /\ ~over /\ gate = "open" /\ slice = <<>> /\ Len(queue) = 1
  /\ slice' = queue /\ queue' = <<>>
  /\ UNCHANGED <<gate, line, shadow, tool, astray, typed, over>>

(* drain takes all that is queued as one slice, once the last is done. *)
Drain ==
  /\ ~over /\ gate = "open" /\ slice = <<>> /\ queue # <<>>
  /\ slice' = queue /\ queue' = <<>>
  /\ UNCHANGED <<gate, line, shadow, tool, astray, typed, over>>

(* processSlice, the bytes before an Enter: to the shadow and to the tool. *)
Forward ==
  /\ ~over /\ gate = "open" /\ slice # <<>> /\ Head(slice) # "ENTER"
  /\ Push(Head(slice)) /\ Type(Head(slice))
  /\ slice' = Tail(slice)
  /\ astray' = (astray \/ GoesAstray(Head(slice)))
  /\ UNCHANGED <<queue, gate, line, typed, over>>

(* processSlice, an Enter: no line inside a paste, and none after a lone   *)
(* escape, which swallows it in the shadow while the tool takes the two    *)
(* for Alt+Enter or submits; a blank line or a slash command is not        *)
(* scanned; any other line goes to the gate.                               *)
Enter ==
  /\ ~over /\ gate = "open" /\ slice # <<>> /\ Head(slice) = "ENTER"
  /\ slice' = Tail(slice)
  /\ \/ /\ pasting
        /\ buffer' = Append(buffer, "\n") /\ Return(TRUE, <<>>, dirty)
        /\ UNCHANGED <<gate, line, dirty, pasting, escaped>>
     \/ /\ ~pasting /\ escaped
        /\ escaped' = FALSE /\ dirty' = TRUE
        /\ Return(TRUE, <<>>, TRUE) \/ (box' = Append(box, "\n") /\ UNCHANGED <<boxPasting, submitted>>)
        /\ UNCHANGED <<gate, line, buffer, pasting>>
     \/ /\ ~pasting /\ ~escaped
        /\ buffer' = <<>> /\ dirty' = FALSE /\ UNCHANGED <<pasting, escaped>>
        /\ IF Blank(buffer) \/ Slash(buffer)
           THEN Return(TRUE, <<>>, dirty) /\ UNCHANGED <<gate, line>>
           ELSE gate' = "scan" /\ line' = [text |-> buffer, dirty |-> dirty] /\ UNCHANGED tool
  /\ UNCHANGED <<queue, astray, typed, over>>

(* gateLine answers: the carriage return, or the clear sequence. *)
Proceed == Return(FALSE, line.text, line.dirty)
Clear == box' = (IF boxPasting THEN Append(box, "x") ELSE <<>>) /\ UNCHANGED <<boxPasting, submitted>>

(* The decision: allow and a low warning proceed; a block, a high warning  *)
(* and a failed scan clear; a medium warning asks the acknowledgement file *)
(* (AckStore), whose error ends the process.                               *)
GateLine(v) ==
  /\ ~over /\ gate = "scan"
  /\ CASE v \in {"allow", "low"} -> Proceed
       [] v = "medium" -> Proceed \/ Clear
       [] OTHER -> Clear
  /\ gate' = "open" /\ line' = NoLine
  /\ UNCHANGED <<queue, slice, shadow, astray, typed, over>>

AckStoreFails ==
  /\ ~over /\ gate = "scan" /\ over' = TRUE
  /\ UNCHANGED <<queue, slice, gate, line, shadow, tool, astray, typed>>

ChildExit ==
  /\ ~over /\ over' = TRUE
  /\ UNCHANGED <<queue, slice, gate, line, shadow, tool, astray, typed>>

Verdicts == {"allow", "block", "low", "medium", "high", "fail"}

SessionStep == Drain \/ Forward \/ Enter \/ \E v \in Verdicts : GateLine(v)

PtyNext == SessionStep \/ AckStoreFails \/ ChildExit \/ \E k \in Keystrokes : OnStdin(k)
-----------------------------------------------------------------------------
Texts == Seq(Chars \cup {"w", "\n"})

PtyTypeOK ==
  /\ queue \in Seq(Tokens) /\ slice \in Seq(Tokens) /\ gate \in {"open", "scan"}
  /\ buffer \in Texts /\ box \in Texts
  /\ {dirty, pasting, escaped, boxPasting, astray, over} \subseteq BOOLEAN
  /\ typed \in 0..MaxTyped

(* A line the tool acts on passed the gate: it was scanned and let through *)
(* with exactly the text the tool held, or that text is blank or a slash   *)
(* command.  Nothing is claimed of a line LineReconstructor flagged dirty: *)
(* one whose shadow is blank is not even scanned.  Nor is anything after   *)
(* an edit it misses unflagged (GoesAstray).                               *)
LineGated ==
  \A l \in submitted : ~astray =>
    l.dirty \/ (IF l.free THEN Blank(l.text) \/ Slash(l.text) ELSE l.scanned = l.text)

(* The shadow is the tool's input box, outside edits it cannot follow;     *)
(* while a line is at the gate, the box still holds that line, whatever    *)
(* has been typed since: nobody races past the scan.                       *)
ShadowInStep ==
  ~astray => /\ pasting = boxPasting
             /\ gate = "open" /\ ~dirty /\ ~escaped => buffer = box
             /\ gate = "scan" => buffer = <<>> /\ ~escaped /\ (line.dirty \/ line.text = box)

(* What cli-connectors/README.md says: the guard "scans each line as you   *)
(* press Enter", and lines edited with keys it cannot follow "are flagged  *)
(* internally and still scanned".                                          *)
EachLineScanned ==
  \A l \in submitted : l.free => Blank(l.text) \/ Slash(l.text)
================================================================================
