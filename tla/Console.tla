------------------------------- MODULE Console -------------------------------
(***************************************************************************)
(* The terminal the program asks on: Tty, EchoGuard and the two line reads  *)
(* of bin/tawara.rs, on both platforms.                                     *)
(*                                                                          *)
(* What is typed is a sequence of units, bytes of UTF-8 or UTF-16 words: a  *)
(* character of one unit, the two halves of one that takes two, a Ctrl-Z.   *)
(* Trimming, and a read that was interrupted and is made again, are left    *)
(* out.  What happens between two prompts is the caller's (cli/create.rs).  *)
(***************************************************************************)
EXTENDS Integers, Sequences

CONSTANTS
  None,      \* an absent option
  Typed,     \* what an operator may type before Enter
  ReadUnits  \* the most units one read asks for; 169 on Windows

VARIABLES
  windows,   \* which build this is
  echo,      \* whether the device shows what is typed; it outlives a process
  tty,       \* the Tty: its state, and its echo guard; with it, it asks a secret
  reading,   \* the line being read
  heard      \* the line last read, and what the program took it for

consoleVars == <<windows, echo, tty, reading, heard>>

Unit == {"a", "high", "low", "Z"}
LF   == "enter"

\* Enter ends a line: it is in none.
ASSUME ConsoleAssumption == Typed \subseteq Seq(Unit)

\* What a prompt can come to.
END_OF_INPUT == [said |-> "end of input", text |-> <<>>]
Unreadable   == [said |-> "cannot read", text |-> <<>>]
LineOf(text) == [said |-> "line", text |-> text]

\* "closed", "open", "asking", "answered" or "refused"; whether its echo guard
\* is held, and the echo that guard found.
Tty(state, guarded, found) == [state |-> state, guarded |-> guarded, found |-> found]
NoTty  == Tty("closed", FALSE, TRUE)
Failed == Tty("refused", FALSE, TRUE)

ConsoleInit ==
  /\ windows \in BOOLEAN
  /\ echo = TRUE
  /\ tty = NoTty
  /\ reading = None
  /\ heard = None

-----------------------------------------------------------------------------
(* Echo.                                                                    *)

\* open_terminal: no device, or one whose echo does not go off, is refused.
OpenTerminal ==
  /\ tty.state = "closed"
  /\ \/ /\ echo' = FALSE
        /\ tty' = Tty("open", TRUE, echo)
     \/ tty' = Failed /\ UNCHANGED echo
  /\ UNCHANGED <<windows, reading, heard>>

\* EchoGuard::restore: `stty echo`, or the mode found.
Restored == IF windows THEN tty.found ELSE TRUE

\* EchoGuard::drop: the same, and whether it worked is not asked.
DropGuard == echo' \in IF tty.guarded THEN {Restored, echo} ELSE {echo}

Refuse ==
  /\ DropGuard
  /\ tty' = Failed
  /\ reading' = None
  /\ UNCHANGED <<windows, heard>>

\* A prompt is on the screen and the operator types: Enter ends the line, or
\* the input does.  A Windows console's input ends inside no line.
Prompted ==
  \E typed \in Typed, enter \in BOOLEAN :
    /\ windows /\ ~enter => typed = <<>>
    /\ reading' = [typed |-> typed, enter |-> enter, line |-> <<>>, lineStart |-> TRUE,
                   left |-> IF enter THEN Append(typed, LF) ELSE typed]

CanAsk == tty.state \in {"open", "answered"} /\ tty.guarded

ReadSecretLine ==
  /\ CanAsk
  /\ \/ /\ Prompted
        /\ tty' = [tty EXCEPT !.state = "asking"]
        /\ heard' = None
        /\ UNCHANGED <<windows, echo>>
     \/ Refuse

\* Variant: the restore is made and not asked about, as a drop makes it.
RestoreUnchecked == DropGuard

\* The restore worked.
RestoreChecked == echo' = Restored

\* The guard is released first, checked; nothing is asked when it was not.
ReadVisibleLine ==
  /\ CanAsk
  /\ \/ /\ RestoreChecked
        /\ Prompted
        /\ tty' = [tty EXCEPT !.state = "asking", !.guarded = FALSE]
        /\ heard' = None
        /\ UNCHANGED windows
     \/ Refuse

\* The Tty goes out of scope; one that was refused is gone already.
CloseTerminal ==
  /\ tty.state \in {"open", "answered", "refused"}
  /\ DropGuard
  /\ tty' = NoTty /\ heard' = None
  /\ UNCHANGED <<windows, reading>>

\* A process that is killed puts nothing back.
KillTty ==
  /\ tty' = NoTty /\ reading' = None /\ heard' = None
  /\ UNCHANGED <<windows, echo>>

\* The shell sets the modes it wants before it reads.
ShellRestoresEcho ==
  /\ tty = NoTty /\ ~echo
  /\ echo' = TRUE
  /\ UNCHANGED <<windows, tty, reading, heard>>

-----------------------------------------------------------------------------
(* Lines.                                                                   *)

\* Every half of a character beside its other half.
WellFormed(units) ==
  /\ \A i \in 1..Len(units) :
       /\ units[i] = "high" => i < Len(units) /\ units[i + 1] = "low"
       /\ units[i] = "low" => i > 1 /\ units[i - 1] = "high"

\* How many units a read that got n takes: on Windows one more when the last
\* is the first half of a character.
Taken(n) == IF windows /\ reading.left[n] = "high" THEN n + 1 ELSE n

\* Variant: every read begins a line.
LineStartEachRead == TRUE

LineStart == reading.lineStart

\* read_scrubbed_line, when the input or the line has ended.
Answered(line) ==
  IF line = <<>> THEN END_OF_INPUT
  ELSE IF ~WellFormed(line) THEN Unreadable
  ELSE LineOf(IF line[Len(line)] = LF THEN SubSeq(line, 1, Len(line) - 1) ELSE line)

Deliver(got) ==
  /\ heard' = [typed |-> reading.typed, enter |-> reading.enter, got |-> got]
  /\ tty' = [tty EXCEPT !.state = "answered"]
  /\ reading' = None
  /\ UNCHANGED <<windows, echo>>

\* One read of n units, Console::read on Windows: Ctrl-Z as the first of a line
\* ends the input; a read that does not decode ends the read of the line.
Read ==
  /\ tty.state = "asking" /\ reading.left # <<>>
  /\ \E n \in 1..ReadUnits :
       /\ n <= Len(reading.left) /\ Taken(n) <= Len(reading.left)
       /\ LET units == SubSeq(reading.left, 1, Taken(n))
              line  == reading.line \o units
              last  == units[Len(units)]
          IN  IF windows /\ LineStart /\ units[1] = "Z" THEN Deliver(Answered(reading.line))
              ELSE IF windows /\ ~WellFormed(units) THEN Deliver(Unreadable)
              ELSE IF last = LF THEN Deliver(Answered(line))
              ELSE /\ reading' = [reading EXCEPT !.line = line, !.lineStart = FALSE,
                         !.left = SubSeq(@, Taken(n) + 1, Len(@))]
                   /\ UNCHANGED <<windows, echo, tty, heard>>

\* A read of nothing: the input has ended.
ReadEnd ==
  /\ tty.state = "asking" /\ reading.left = <<>>
  /\ Deliver(Answered(reading.line))

\* The device went away.
ReadError ==
  /\ tty.state = "asking"
  /\ Refuse

ReadLine == Read \/ ReadEnd \/ ReadError

-----------------------------------------------------------------------------

\* A secret is asked on a silent terminal and a confirmation on one that shows
\* it, whatever an earlier process left behind and whatever restore came to;
\* except that a Windows console found silent is put back silent
\* (open_terminal; read_visible_line; EchoGuard::restore).
AnswersAreTypedAsAsked ==
  tty.state = "asking" =>
    IF tty.guarded THEN ~echo ELSE echo \/ (windows /\ ~tty.found)

\* The line taken is the line typed, however it was broken into reads, and
\* ends of input are told from lines: nothing typed, or on Windows a line that
\* begins with Ctrl-Z.  Half a character is never passed on
\* (read_scrubbed_line; Console::read).
LineIsWhatWasTyped ==
  heard # None =>
    LET typed == heard.typed
    IN  IF \/ typed = <<>> /\ ~heard.enter
           \/ windows /\ typed # <<>> /\ typed[1] = "Z"
        THEN heard.got = END_OF_INPUT
        ELSE IF WellFormed(typed) THEN heard.got = LineOf(typed)
        ELSE heard.got = Unreadable
=============================================================================
