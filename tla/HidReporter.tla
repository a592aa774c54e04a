----------------------------- MODULE HidReporter -----------------------------
(***************************************************************************)
(* From a command line to reports and back to text: processCommand of      *)
(* src/src/ipc_server.cpp, src/src/hid_reporter.cpp with one caller at a   *)
(* time, and a host that turns the reports it is sent into text again.     *)
(* (What several callers do to each other is ReportPath's subject.)  A     *)
(* report is its modifier byte [0] and its key byte [2].  The host is      *)
(* reached by notifications of the BLE application, as long as that is     *)
(* registered, or over the Classic channel; it may come and go.            *)
(***************************************************************************)
EXTENDS Integers, Sequences, SequencesExt

CONSTANTS
    Chars,          \* the characters TYPE may contain
    MaxText,        \* bound: length of a text
    Strokes,        \* what a caller of keyCombo asks for
    Words,          \* what a client may send as a number
    Links,          \* how a host may be reached
    MaxCommands,    \* bound: commands
    TextFrom        \* bound: commands before the first text

ASSUME HidAssumption ==
    /\ MaxText \in Nat /\ MaxCommands \in Nat /\ TextFrom \in Nat
    /\ Strokes \subseteq [mod : 0..255, key : 0..255]
    /\ Words \subseteq [neg : BOOLEAN, digits : Nat]
    /\ Links \subseteq {"ble", "classic"}

Zero == [mod |-> 0, key |-> 0]
HID_KEY_NONE == 0
MOD_NONE == 0
MOD_LSHIFT == 2

-----------------------------------------------------------------------------
(* Tables: a set of rows, found by their first column.  Characters other   *)
(* than letters and digits have the names that X11 gives them.             *)
Row(table, x) == CHOOSE row \in table : row[1] = x
Has(table, x) == \E row \in table : row[1] = x
LookUp(table, x, default) ==
    IF Has(table, x) THEN Row(table, x)[2] ELSE default

(* charToKeyCode's switch, with the values of enum KeyCode.                *)
KeyCodes ==
    {<<"a", 4>>, <<"b", 5>>, <<"c", 6>>, <<"d", 7>>, <<"e", 8>>, <<"f", 9>>,
     <<"g", 10>>, <<"h", 11>>, <<"i", 12>>, <<"j", 13>>, <<"k", 14>>,
     <<"l", 15>>, <<"m", 16>>, <<"n", 17>>, <<"o", 18>>, <<"p", 19>>,
     <<"q", 20>>, <<"r", 21>>, <<"s", 22>>, <<"t", 23>>, <<"u", 24>>,
     <<"v", 25>>, <<"w", 26>>, <<"x", 27>>, <<"y", 28>>, <<"z", 29>>,
     <<"1", 30>>, <<"2", 31>>, <<"3", 32>>, <<"4", 33>>, <<"5", 34>>,
     <<"6", 35>>, <<"7", 36>>, <<"8", 37>>, <<"9", 38>>, <<"0", 39>>,
     <<"newline", 40>>, <<"tab", 43>>, <<"space", 44>>, <<"minus", 45>>,
     <<"equal", 46>>, <<"bracketleft", 47>>, <<"bracketright", 48>>,
     <<"backslash", 49>>, <<"semicolon", 51>>, <<"apostrophe", 52>>,
     <<"grave", 53>>, <<"comma", 54>>, <<"period", 55>>, <<"slash", 56>>}

(* std::isupper and std::tolower in the "C" locale.                        *)
Capitals ==
    {<<"A", "a">>, <<"B", "b">>, <<"C", "c">>, <<"D", "d">>, <<"E", "e">>,
     <<"F", "f">>, <<"G", "g">>, <<"H", "h">>, <<"I", "i">>, <<"J", "j">>,
     <<"K", "k">>, <<"L", "l">>, <<"M", "m">>, <<"N", "n">>, <<"O", "o">>,
     <<"P", "p">>, <<"Q", "q">>, <<"R", "r">>, <<"S", "s">>, <<"T", "t">>,
     <<"U", "u">>, <<"V", "v">>, <<"W", "w">>, <<"X", "x">>, <<"Y", "y">>,
     <<"Z", "z">>}

tolower(c) == LookUp(Capitals, c, c)
charToKeyCode(c) == LookUp(KeyCodes, tolower(c), HID_KEY_NONE)

(* typeString's switch: the key that gives the character with Shift.       *)
ShiftedKeys ==
    {<<"exclam", 30>>, <<"at", 31>>, <<"numbersign", 32>>, <<"dollar", 33>>,
     <<"percent", 34>>, <<"asciicircum", 35>>, <<"ampersand", 36>>,
     <<"asterisk", 37>>, <<"parenleft", 38>>, <<"parenright", 39>>,
     <<"underscore", 45>>, <<"plus", 46>>, <<"braceleft", 47>>,
     <<"braceright", 48>>, <<"bar", 49>>, <<"colon", 51>>, <<"quotedbl", 52>>,
     <<"less", 54>>, <<"greater", 55>>, <<"question", 56>>,
     <<"asciitilde", 53>>}

(* What typeString presses for a character.                                *)
StrokeOf(c) ==
    [mod |-> IF Has(Capitals, c) \/ Has(ShiftedKeys, c) THEN MOD_LSHIFT
                                                       ELSE MOD_NONE,
     key |-> LookUp(ShiftedKeys, tolower(c), charToKeyCode(c))]

Mapped(c) == StrokeOf(c).key # HID_KEY_NONE

-----------------------------------------------------------------------------
(* The host: the Keyboard page of the HID Usage Tables, for a US layout,   *)
(* plain and with Shift; Escape, Backspace and the key beside Enter that   *)
(* these keyboards lack give no character.                                 *)
UsLayout ==
    {<<4, "a", "A">>, <<5, "b", "B">>, <<6, "c", "C">>, <<7, "d", "D">>,
     <<8, "e", "E">>, <<9, "f", "F">>, <<10, "g", "G">>, <<11, "h", "H">>,
     <<12, "i", "I">>, <<13, "j", "J">>, <<14, "k", "K">>, <<15, "l", "L">>,
     <<16, "m", "M">>, <<17, "n", "N">>, <<18, "o", "O">>, <<19, "p", "P">>,
     <<20, "q", "Q">>, <<21, "r", "R">>, <<22, "s", "S">>, <<23, "t", "T">>,
     <<24, "u", "U">>, <<25, "v", "V">>, <<26, "w", "W">>, <<27, "x", "X">>,
     <<28, "y", "Y">>, <<29, "z", "Z">>, <<30, "1", "exclam">>,
     <<31, "2", "at">>, <<32, "3", "numbersign">>, <<33, "4", "dollar">>,
     <<34, "5", "percent">>, <<35, "6", "asciicircum">>,
     <<36, "7", "ampersand">>, <<37, "8", "asterisk">>,
     <<38, "9", "parenleft">>, <<39, "0", "parenright">>,
     <<40, "newline", "newline">>, <<43, "tab", "tab">>,
     <<44, "space", "space">>, <<45, "minus", "underscore">>,
     <<46, "equal", "plus">>, <<47, "bracketleft", "braceleft">>,
     <<48, "bracketright", "braceright">>, <<49, "backslash", "bar">>,
     <<51, "semicolon", "colon">>, <<52, "apostrophe", "quotedbl">>,
     <<53, "grave", "asciitilde">>, <<54, "comma", "less">>,
     <<55, "period", "greater">>, <<56, "slash", "question">>}

Shifted(mod) == (mod \div 2) % 2 = 1 \/ (mod \div 32) % 2 = 1

(* A key produces a character when it was not down in the report before.   *)
Decode(before, report) ==
    IF Has(UsLayout, report.key) /\ report.key # before.key
    THEN <<Row(UsLayout, report.key)[IF Shifted(report.mod) THEN 3 ELSE 2]>>
    ELSE << >>

-----------------------------------------------------------------------------
(* Command lines.  KEY_PRESS has its numbers in args, TYPE what follows the*)
(* command in rest; lower-case commands are told apart, and the blanks     *)
(* around words that >> skips are not kept.  A word that strtoul cannot    *)
(* read as a hexadecimal number has no digits, and is 0.                   *)
Upper(cmd) == CASE cmd = "key_press" -> "KEY_PRESS"
                [] cmd = "type"      -> "TYPE"
                [] OTHER             -> cmd

Line(cmd, args, rest) == [cmd |-> cmd, args |-> args, rest |-> rest]
NoLine == Line("", << >>, << >>)

(* An unsigned long has 16 bits here, not 64.                              *)
ULONG_MAX == 65535
strtoul(word) ==
    LET n == IF word.digits > ULONG_MAX THEN ULONG_MAX ELSE word.digits
    IN  IF word.neg THEN (ULONG_MAX + 1 - n) % (ULONG_MAX + 1) ELSE n

uint8(n) == n % 256

Presses(line) == Upper(line.cmd) = "KEY_PRESS" /\ line.args # << >>

(* Fault: the modifier comes first.                                        *)
SwappedStroke(line) ==
    [mod |-> uint8(strtoul(line.args[1])),
     key |-> IF Len(line.args) > 1 THEN uint8(strtoul(line.args[2])) ELSE 0]

StrokeIn(line) ==
    [key |-> uint8(strtoul(line.args[1])),
     mod |-> IF Len(line.args) > 1 THEN uint8(strtoul(line.args[2])) ELSE 0]

(* Fault: no blank survives, as when the words are read with >>.           *)
TextStripped(line) ==
    SelectSeq(line.rest, LAMBDA c : c # "space")

TextIn(line) ==
    IF line.rest # << >> /\ Head(line.rest) = "space" THEN Tail(line.rest)
                                                  ELSE line.rest

-----------------------------------------------------------------------------
VARIABLES
    keyboard_report,    \* keyboard_report_
    pc,                 \* where the caller is
    todo,               \* what typeString has left of its text
    host_report,        \* the report the host has
    host_text,          \* what the host made of the current command
    text,               \* the text of the current command (history)
    held,               \* the report the host had when it began (history)
    line,               \* the line that is executed, or NoLine
    answer,             \* its answer, "" before
    issued,             \* commands issued (bounded)
    registered,         \* registered_ of the BLE application
    host,               \* the link to the host, or "none"
    stayed              \* the host that was there when the current command
                        \* began still is (history)

lineVars == <<line, answer>>
linkVars == <<registered, host, stayed>>
vars == <<keyboard_report, pc, todo, host_report, host_text, text, held,
          lineVars, issued, linkVars>>

TypeOK ==
    /\ keyboard_report \in [mod : 0..255, key : 0..255]
    /\ host_report \in [mod : 0..255, key : 0..255]
    /\ held \in [mod : 0..255, key : 0..255]
    /\ pc \in {"idle", "send", "type", "release", "combo", "reply"}
    /\ text \in BoundedSeq(Chars, MaxText) /\ IsSuffix(todo, text)
    /\ Len(host_text) <= MaxText
    /\ answer \in {"", "OK", "ERROR"}
    /\ issued \in 0..MaxCommands
    /\ registered \in BOOLEAN /\ stayed \in BOOLEAN
    /\ host \in {"none"} \cup Links

Init ==
    /\ keyboard_report = Zero /\ host_report = Zero /\ held = Zero
    /\ pc = "idle"
    /\ todo = << >> /\ text = << >> /\ host_text = << >>
    /\ line = NoLine /\ answer = ""
    /\ issued = 0
    /\ registered = TRUE        \* or main had returned before the server
    /\ host = "none" /\ stayed = FALSE

(* main's callbacks offer the buffer to the BLE application, which refuses *)
(* it when it is not registered and only stores it when no host has        *)
(* subscribed, and then to a Classic host.                                 *)
Delivered == host = "classic" \/ (host = "ble" /\ registered)

HostSees(report) ==
    IF Delivered
    THEN /\ host_report' = report
         /\ host_text' = host_text \o Decode(host_report, report)
    ELSE UNCHANGED <<host_report, host_text>>

Begin(to) ==
    /\ pc = "idle" /\ pc' = to
    /\ issued < MaxCommands
    /\ issued' = issued + 1
    /\ host_text' = << >>
    /\ held' = host_report
    /\ stayed' = (host # "none")
    /\ UNCHANGED <<host_report, registered, host>>

(* keyPress and keyRelease.                                                *)
Fill(report) ==
    /\ Begin("send")
    /\ keyboard_report' = report
    /\ UNCHANGED <<todo, text>>

(* The callbacks of key presses and releases return what the BLE           *)
(* application said, and that is the answer of the line.                   *)
SendBuffer ==
    /\ pc = "send" /\ pc' = "reply"
    /\ host_report' = IF Delivered THEN keyboard_report ELSE host_report
    /\ answer' = IF registered THEN "OK" ELSE "ERROR"
    /\ UNCHANGED <<keyboard_report, todo, host_text, text, held, line,
                   issued, linkVars>>

(* keyCombo: the press, a sleep, the release.                              *)
KeyCombo(stroke) ==
    /\ Begin("combo")
    /\ keyboard_report' = stroke
    /\ UNCHANGED <<todo, text, lineVars>>

ComboReleases ==
    /\ pc = "combo" /\ pc' = "idle"
    /\ keyboard_report' = Zero
    /\ UNCHANGED <<todo, host_report, host_text, text, held, lineVars, issued,
                   linkVars>>

(* Called directly: a line cannot hold a line feed.                        *)
TypeString(string) ==
    /\ Begin("type")
    /\ text' = string
    /\ todo' = string
    /\ UNCHANGED <<keyboard_report, lineVars>>

(* A character without a key is passed over.  What becomes of a report is  *)
(* not looked at: TYPE is answered OK even if nobody got it.               *)
SkipChar ==
    /\ pc = "type"
    /\ todo # << >> /\ ~Mapped(Head(todo))
    /\ todo' = Tail(todo)
    /\ UNCHANGED <<keyboard_report, pc, host_report, host_text, text,
                   held, lineVars, issued, linkVars>>

PressChar ==
    /\ pc = "type" /\ pc' = "release"
    /\ todo # << >> /\ Mapped(Head(todo))
    /\ keyboard_report' = StrokeOf(Head(todo))
    /\ HostSees(StrokeOf(Head(todo)))
    /\ UNCHANGED <<todo, text, held, lineVars, issued, linkVars>>

ReleaseChar ==
    /\ pc = "release" /\ pc' = "type"
    /\ keyboard_report' = Zero
    /\ HostSees(Zero)
    /\ todo' = Tail(todo)
    /\ UNCHANGED <<text, held, lineVars, issued, linkVars>>

TypeReturns ==
    /\ pc = "type" /\ todo = << >>
    /\ pc' = "reply"
    /\ UNCHANGED <<keyboard_report, todo, host_report, host_text, text, held,
                   lineVars, issued, linkVars>>

-----------------------------------------------------------------------------
(* processCommand(): one branch each.                                      *)

LinePresses(l) ==
    /\ Presses(l)
    /\ Fill(StrokeIn(l))
    /\ line' = l
    /\ UNCHANGED answer

LineReleases(l) ==
    /\ Upper(l.cmd) = "KEY_RELEASE"
    /\ Fill(Zero)
    /\ line' = l
    /\ UNCHANGED answer

LineTypes(l, string) ==
    /\ Upper(l.cmd) = "TYPE"
    /\ Begin("type")
    /\ text' = string
    /\ todo' = TextIn(l)
    /\ line' = l /\ answer' = "OK"
    /\ UNCHANGED keyboard_report

(* STATUS (its wording left out), QUIT, a key press without a key, and     *)
(* anything else.                                                          *)
LineChangesNothing(l) ==
    /\ ~Presses(l) /\ Upper(l.cmd) \notin {"KEY_RELEASE", "TYPE"}
    /\ Begin("reply")
    /\ line' = l
    /\ answer' = IF Upper(l.cmd) \in {"STATUS", "QUIT"} THEN "OK" ELSE "ERROR"
    /\ UNCHANGED <<keyboard_report, todo, text>>

(* The histories of the command end with its answer.                       *)
Reply ==
    /\ pc = "reply" /\ pc' = "idle"
    /\ text' = << >> /\ host_text' = << >>
    /\ line' = NoLine /\ answer' = ""
    /\ UNCHANGED <<keyboard_report, todo, host_report, held, issued,
                   linkVars>>

-----------------------------------------------------------------------------
(* The link, at any time: a host subscribes or connects, without a key     *)
(* down; it leaves, and gives its keys up; main's clean-up unregisters the *)
(* BLE application while client threads still run.                         *)
HostComes(link) ==
    /\ host = "none" /\ host' = link
    /\ UNCHANGED <<keyboard_report, pc, todo, host_report, host_text, text,
                   held, lineVars, issued, registered, stayed>>

HostGoes ==
    /\ host # "none" /\ host' = "none"
    /\ host_report' = Zero /\ held' = Zero
    /\ stayed' = FALSE
    /\ UNCHANGED <<keyboard_report, pc, todo, host_text, text, lineVars,
                   issued, registered>>

Unregister ==
    /\ registered /\ registered' = FALSE
    /\ UNCHANGED <<keyboard_report, pc, todo, host_report, host_text, text,
                   held, lineVars, issued, host, stayed>>

(* What clients write: the commands of the documentation, in either case.  *)
KeyLines ==
    {Line(cmd, args, << >>) : cmd \in {"KEY_PRESS", "key_press"},
                              args \in BoundedSeq(Words, 2)}
OtherLines ==
    {Line(cmd, << >>, << >>) :
        cmd \in {"KEY_RELEASE", "STATUS", "QUIT", "HELLO"}}
TypeLine(string) == Line("type", << >>, <<"space">> \o string)

Texts == BoundedSeq(Chars, MaxText)

Next ==
    \/ \E stroke \in Strokes : KeyCombo(stroke)
    \/ SendBuffer \/ ComboReleases
    \/ pc = "idle" /\ issued >= TextFrom /\ \E string \in Texts :
          IF "newline" \in Range(string) THEN TypeString(string)
                                    ELSE LineTypes(TypeLine(string), string)
    \/ pc = "idle" /\ \E l \in KeyLines \cup OtherLines :
          LinePresses(l) \/ LineReleases(l) \/ LineChangesNothing(l)
    \/ SkipChar \/ PressChar \/ ReleaseChar \/ TypeReturns \/ Reply
    \/ (\E link \in Links : HostComes(link)) \/ HostGoes \/ Unregister

Spec == Init /\ [][Next]_vars

-----------------------------------------------------------------------------
(* Properties.                                                             *)

UsChars == {row[i] : row \in UsLayout, i \in 2..3}
Typed == pc = "type" /\ todo = << >>

(* What is read are the characters of string at these places, in order.    *)
Picks(read, string, places) ==
    \E at \in [DOMAIN read -> places] :
        /\ \A place \in places : \E i \in DOMAIN read : at[i] = place
        /\ \A i, j \in DOMAIN read : i < j => at[i] < at[j]
        /\ \A i \in DOMAIN read : read[i] = string[at[i]]

(* The places of the characters that the layout has; the first one is lost *)
(* if its key is down already.                                             *)
Typable == {i \in DOMAIN text : text[i] \in UsChars}
Lost == {i \in Typable : /\ \A j \in Typable : i <= j
                         /\ StrokeOf(text[i]).key = held.key}

(* A US host reads the text that the client wrote after TYPE and one blank,*)
(* doubled letters and its own leading blanks included, less the characters*)
(* its layout does not have: every other one has a key, and the right one. *)
(* If KEY_PRESS left a key down, that key cannot be pressed again, and a   *)
(* text that begins with it loses its first character; the later ones are  *)
(* safe.  After a text with a typable character nothing stays down, even if*)
(* KEY_PRESS had left keys and modifiers down before.  So for a host that  *)
(* was there all the time and could be reached; the buffer is empty anyway.*)
HostReadsText ==
    Typed => /\ stayed /\ Delivered =>
                    /\ Picks(host_text, text, Typable \ Lost)
                    /\ Typable # {} => host_report = Zero
             /\ Typable # {} => keyboard_report = Zero

(* The lines that press or release, as the documentation has them, and the *)
(* report they ask for.                                                    *)
Documented(l) ==
    \/ Upper(l.cmd) = "KEY_RELEASE"
    \/ /\ Upper(l.cmd) = "KEY_PRESS" /\ l.args # << >>
       /\ \A i \in DOMAIN l.args : ~l.args[i].neg /\ l.args[i].digits < 256
Asked(l) ==
    IF Upper(l.cmd) = "KEY_RELEASE" THEN Zero
    ELSE [key |-> l.args[1].digits,
          mod |-> IF Len(l.args) = 1 THEN 0 ELSE l.args[2].digits]

(* A documented key press or release, in either case, with or without a    *)
(* modifier, whatever was down before, is answered OK as long as the BLE   *)
(* application is registered.  A host that was there all the time has then *)
(* exactly what was asked for, and a Classic host even after an ERROR; no  *)
(* other host has a key changed by a command answered ERROR.  A press      *)
(* without a key is refused, and the host keeps what it had.               *)
(* (Numbers beyond a byte and words that are no numbers are not refused.)  *)
LinesObeyed ==
    pc = "reply" =>
        /\ Documented(line) =>
               /\ answer = "OK" \/ (answer = "ERROR" /\ ~registered)
               /\ stayed /\ (answer = "OK" \/ host = "classic") =>
                      host_report = Asked(line)
               /\ answer = "ERROR" /\ host # "classic" => host_report = held
        /\ Upper(line.cmd) = "KEY_PRESS" /\ line.args = << >> =>
               answer = "ERROR" /\ host_report = held
=============================================================================
