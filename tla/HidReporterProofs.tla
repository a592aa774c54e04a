-------------------------- MODULE HidReporterProofs --------------------------
(***************************************************************************)
(* Theorems about HidReporter, for any words that a client may send as     *)
(* numbers, any strokes, any characters and texts, any number of commands, *)
(* and hosts that come and go at any time.                                 *)
(***************************************************************************)
EXTENDS HidReporter, SequenceTheorems, TLAPS

-----------------------------------------------------------------------------
(* Numbers.                                                                *)

(* strtoul and the cast to uint8_t keep what fits a byte.                  *)
LEMMA ByteKept ==
    ASSUME NEW word \in Words, ~word.neg, word.digits < 256
    PROVE  uint8(strtoul(word)) = word.digits
<1>1. word.digits \in Nat
  BY HidAssumption
<1>2. strtoul(word) = word.digits
  BY <1>1 DEF strtoul, ULONG_MAX
<1>. QED
  BY <1>1, <1>2 DEF uint8

(* The stroke of a documented key press is what the line says.             *)
LEMMA DocumentedStroke ==
    ASSUME NEW l, l.args \in Seq(Words), Documented(l),
           Upper(l.cmd) = "KEY_PRESS"
    PROVE  StrokeIn(l) = Asked(l)
<1>1. PICK n \in Nat : n = Len(l.args)
  BY LenProperties
<1>2. DOMAIN l.args = 1..n /\ \A i \in 1..n : l.args[i] \in Words
  BY <1>1, LenProperties, ElementOfSeq
<1>3. n # 0
  BY <1>1, EmptySeq DEF Documented
<1>4. \A i \in 1..n : uint8(strtoul(l.args[i])) = l.args[i].digits
  BY <1>2, ByteKept DEF Documented
<1>5. uint8(strtoul(l.args[1])) = l.args[1].digits
  BY <1>3, <1>4
<1>6. CASE n = 1
  BY <1>1, <1>5, <1>6 DEF StrokeIn, Asked
<1>7. CASE n # 1
  <2>1. n > 1 /\ uint8(strtoul(l.args[2])) = l.args[2].digits
    BY <1>3, <1>4, <1>7
  <2>. QED
    BY <1>1, <1>5, <1>7, <2>1 DEF StrokeIn, Asked
<1>. QED
  BY <1>6, <1>7

LEMMA Bounded ==
    ASSUME NEW S, NEW m \in Nat, NEW s \in BoundedSeq(S, m)
    PROVE  s \in Seq(S)
<1>1. PICK n \in 0..m : s \in [1..n -> S]
  BY DEF BoundedSeq, SeqOf
<1>. QED
  BY <1>1, SeqDef

-----------------------------------------------------------------------------
(* The line that is executed: until its answer, the buffer or the host has *)
(* the report it asks for, and no other command touches either.            *)
IsPress(l) == Upper(l.cmd) = "KEY_PRESS"
IsRelease(l) == Upper(l.cmd) = "KEY_RELEASE"
SentFor(l) == IF IsRelease(l) THEN Zero ELSE StrokeIn(l)
Refused(l) == IsPress(l) /\ l.args = << >>

Answered ==
    IF Refused(line)
    THEN answer = "ERROR" /\ host_report = held
    ELSE /\ answer = "OK" \/ (answer = "ERROR" /\ ~registered)
         /\ stayed /\ (answer = "OK" \/ host = "classic") =>
                host_report = SentFor(line)
         /\ answer = "ERROR" /\ host # "classic" => host_report = held

LineStands ==
    /\ line.args \in Seq(Words)
    /\ host \in {"none", "ble", "classic"}
    /\ stayed \in BOOLEAN /\ (stayed => host # "none")
    /\ pc \in {"idle", "combo"} => line = NoLine
    /\ pc \in {"type", "release"} => ~IsPress(line) /\ ~IsRelease(line)
    /\ pc = "send" => ~Refused(line) /\ host_report = held
    /\ pc = "send" /\ (IsPress(line) \/ IsRelease(line)) =>
          keyboard_report = SentFor(line)
    /\ pc = "reply" /\ (IsPress(line) \/ IsRelease(line)) => Answered

LEMMA NoLineEmpty ==
    NoLine.args \in Seq(Words) /\ ~IsPress(NoLine) /\ ~IsRelease(NoLine)
  BY DEF NoLine, Line, IsPress, IsRelease, Upper

LEMMA LineArgs ==
    ASSUME NEW l \in KeyLines \cup OtherLines
    PROVE  l.args \in Seq(Words)
<1>1. CASE l \in KeyLines
  <2>1. l.args \in BoundedSeq(Words, 2)
    BY <1>1 DEF KeyLines, Line
  <2>. QED
    BY <2>1, Bounded
<1>2. CASE l \in OtherLines
  <2>1. l.args = << >> /\ << >> \in Seq(Words)
    BY <1>2, EmptySeq DEF OtherLines, Line
  <2>. QED
    BY <2>1
<1>. QED
  BY <1>1, <1>2

LEMMA LineInit == Init => LineStands
<1>. SUFFICES ASSUME Init PROVE LineStands
  OBVIOUS
<1>1. pc = "idle" /\ line = NoLine /\ host = "none" /\ stayed = FALSE
  BY DEF Init
<1>2. line.args \in Seq(Words)
  BY <1>1, NoLineEmpty
<1>. QED
  BY <1>1, <1>2 DEF LineStands

LEMMA LineStep == LineStands /\ [Next]_vars => LineStands'
<1>. SUFFICES ASSUME LineStands, [Next]_vars PROVE LineStands'
  OBVIOUS
<1>. USE DEF lineVars, linkVars
<1>1. ASSUME NEW to, Begin(to)
      PROVE  /\ pc = "idle" /\ pc' = to /\ line = NoLine
             /\ held' = host_report /\ host_report' = host_report
             /\ host' = host /\ stayed' = (host # "none")
  BY <1>1 DEF Begin, LineStands
<1>. DEFINE Link == /\ host' \in {"none", "ble", "classic"}
                    /\ stayed' \in BOOLEAN /\ (stayed' => host' # "none")
<1>2. (UNCHANGED <<host, stayed>> \/ \E to : Begin(to)) => Link
  <2>1. CASE UNCHANGED <<host, stayed>>
    BY <2>1 DEF LineStands
  <2>2. ASSUME NEW to, Begin(to) PROVE Link
    <3>1. host' = host /\ stayed' = (host # "none")
      BY <1>1, <2>2
    <3>. QED
      BY <3>1 DEF LineStands
  <2>. QED
    BY <2>1, <2>2
<1>3. ASSUME NEW stroke \in Strokes, KeyCombo(stroke) PROVE LineStands'
  BY <1>1, <1>2, <1>3, NoLineEmpty DEF KeyCombo, LineStands
<1>4. CASE SendBuffer
  <2>1. /\ pc = "send" /\ pc' = "reply" /\ line' = line /\ held' = held
        /\ host_report' = IF Delivered THEN keyboard_report ELSE host_report
        /\ answer' = IF registered THEN "OK" ELSE "ERROR"
        /\ UNCHANGED <<registered, host, stayed>>
    BY <1>4 DEF SendBuffer
  <2>2. ASSUME IsPress(line) \/ IsRelease(line) PROVE Answered'
    <3>1. keyboard_report = SentFor(line) /\ ~Refused(line)
          /\ host_report = held
      BY <2>1, <2>2 DEF LineStands
    <3>2. answer' = "OK" \/ (answer' = "ERROR" /\ ~registered')
      BY <2>1
    <3>3. ASSUME stayed', answer' = "OK" \/ host' = "classic"
          PROVE  host_report' = SentFor(line')
      BY <2>1, <3>1, <3>3 DEF LineStands, Delivered
    <3>4. ASSUME answer' = "ERROR", host' # "classic"
          PROVE  host_report' = held'
      BY <2>1, <3>1, <3>4 DEF Delivered
    <3>5. ~Refused(line)' /\ SentFor(line)' = SentFor(line')
      BY <2>1, <3>1
    <3>. QED
      BY <3>2, <3>3, <3>4, <3>5 DEF Answered
  <2>. QED
    BY <1>2, <2>1, <2>2 DEF LineStands
<1>5. CASE ComboReleases
  BY <1>2, <1>5 DEF ComboReleases, LineStands
<1>6. ASSUME NEW string, TypeString(string) PROVE LineStands'
  BY <1>1, <1>2, <1>6, NoLineEmpty DEF TypeString, LineStands
<1>7. ASSUME NEW string, LineTypes(TypeLine(string), string)
      PROVE  LineStands'
  <2>1. /\ pc' = "type" /\ line' = TypeLine(string)
        /\ Upper(TypeLine(string).cmd) = "TYPE"
    BY <1>1, <1>7 DEF LineTypes
  <2>2. /\ TypeLine(string).args \in Seq(Words)
        /\ ~IsPress(TypeLine(string)) /\ ~IsRelease(TypeLine(string))
    <3>1. TypeLine(string).args = << >> /\ << >> \in Seq(Words)
      BY EmptySeq DEF TypeLine, Line
    <3>. QED
      BY <2>1, <3>1 DEF IsPress, IsRelease
  <2>3. Link
    BY <1>2, <1>7 DEF LineTypes
  <2>. QED
    BY <2>1, <2>2, <2>3 DEF LineStands
<1>8. \A l \in KeyLines \cup OtherLines : l.args \in Seq(Words)
  BY LineArgs
<1>9. ASSUME NEW l \in KeyLines \cup OtherLines,
             LinePresses(l) \/ LineReleases(l)
      PROVE  LineStands'
  <2>1. /\ pc' = "send" /\ line' = l /\ held' = host_report
        /\ host_report' = host_report /\ Link
    BY <1>1, <1>2, <1>9 DEF LinePresses, LineReleases, Fill
  <2>2. ~Refused(l) /\ keyboard_report' = SentFor(l)
    <3>1. CASE LinePresses(l)
      BY <3>1 DEF LinePresses, Presses, Fill, SentFor, Refused, IsRelease
    <3>2. CASE LineReleases(l)
      BY <3>2 DEF LineReleases, Fill, SentFor, Refused, IsPress, IsRelease
    <3>. QED
      BY <1>9, <3>1, <3>2
  <2>3. ~Refused(line)' /\ SentFor(line)' = SentFor(l)
    BY <2>1, <2>2
  <2>. QED
    BY <1>8, <1>9, <2>1, <2>2, <2>3 DEF LineStands
<1>10. ASSUME NEW l \in KeyLines \cup OtherLines, LineChangesNothing(l)
       PROVE  LineStands'
  <2>1. /\ pc' = "reply" /\ line' = l /\ host_report' = held' /\ Link
        /\ ~IsRelease(l) /\ (IsPress(l) => Refused(l) /\ answer' = "ERROR")
    BY <1>1, <1>2, <1>10
    DEF LineChangesNothing, Presses, IsPress, IsRelease, Refused
  <2>2. IsPress(l) => Answered'
    BY <2>1 DEF Answered
  <2>. QED
    BY <1>8, <1>10, <2>1, <2>2 DEF LineStands
<1>11. CASE SkipChar
  BY <1>2, <1>11 DEF SkipChar, LineStands
<1>12. CASE PressChar
  BY <1>2, <1>12 DEF PressChar, LineStands
<1>13. CASE ReleaseChar
  BY <1>2, <1>13 DEF ReleaseChar, LineStands
<1>14. CASE TypeReturns
  BY <1>2, <1>14 DEF TypeReturns, LineStands
<1>15. CASE Reply
  <2>1. pc' = "idle" /\ line' = NoLine /\ UNCHANGED <<host, stayed>>
    BY <1>15 DEF Reply
  <2>2. line'.args \in Seq(Words) /\ Link
    BY <1>2, <2>1, NoLineEmpty
  <2>. QED
    BY <2>1, <2>2 DEF LineStands
<1>16. CASE (\E link \in Links : HostComes(link)) \/ HostGoes \/ Unregister
  <2>1. /\ UNCHANGED <<pc, line, answer, keyboard_report>> /\ Link
        /\ \/ UNCHANGED <<host_report, held>> /\ (stayed' = stayed)
           \/ host_report' = held' /\ ~stayed' /\ host' = "none"
        /\ registered' = registered \/ ~registered'
        /\ host' = host \/ host = "none" \/ ~stayed'
        /\ host = "classic" => host' = host \/ host_report' = held'
    <3>1. ASSUME NEW link \in Links, HostComes(link)
          PROVE  /\ host = "none" /\ host' \in {"ble", "classic"}
                 /\ UNCHANGED <<pc, line, answer, keyboard_report, stayed,
                                host_report, held, registered>>
      BY <3>1, HidAssumption DEF HostComes
    <3>2. CASE \E link \in Links : HostComes(link)
      BY <3>1, <3>2 DEF LineStands
    <3>3. CASE HostGoes
      BY <3>3 DEF HostGoes, LineStands
    <3>4. CASE Unregister
      BY <3>4 DEF Unregister, LineStands
    <3>. QED
      BY <1>16, <3>2, <3>3, <3>4
  <2>2. ASSUME Answered PROVE Answered'
    <3>1. Refused(line)' = Refused(line) /\ SentFor(line)' = SentFor(line)
      BY <2>1
    <3>2. CASE Refused(line)
      BY <2>1, <2>2, <3>1, <3>2 DEF Answered
    <3>3. CASE ~Refused(line)
      <4>1. answer' = "OK" \/ (answer' = "ERROR" /\ ~registered')
        BY <1>16, <2>1, <2>2, <3>3
        DEF Answered, HostComes, HostGoes, Unregister
      <4>2. ASSUME stayed', answer' = "OK" \/ host' = "classic"
            PROVE  host_report' = SentFor(line)'
        BY <2>1, <2>2, <3>1, <3>3, <4>2 DEF Answered, LineStands
      <4>3. ASSUME answer' = "ERROR", host' # "classic"
            PROVE  host_report' = held'
        BY <2>1, <2>2, <3>3, <4>3 DEF Answered
      <4>. QED
        BY <3>1, <3>3, <4>1, <4>2, <4>3 DEF Answered
    <3>. QED
      BY <3>2, <3>3
  <2>3. /\ Refused(line)' = Refused(line) /\ SentFor(line)' = SentFor(line)
        /\ IsPress(line)' = IsPress(line) /\ IsRelease(line)' = IsRelease(line)
    BY <2>1
  <2>. QED
    BY <2>1, <2>2, <2>3 DEF LineStands
<1>17. CASE UNCHANGED vars
  BY <1>2, <1>17 DEF vars, LineStands, Answered, Refused, SentFor, IsPress,
                     IsRelease
<1>. QED
  BY <1>3, <1>4, <1>5, <1>6, <1>7, <1>9, <1>10, <1>11, <1>12, <1>13, <1>14,
     <1>15, <1>16, <1>17 DEF Next

(* A documented KEY_PRESS or KEY_RELEASE is answered OK as long as the BLE *)
(* application is registered, and a host that stayed has then exactly what *)
(* it asks for; ERROR changes nothing at a BLE host.  A press without a key*)
(* is refused, and the host keeps what it had.                             *)
THEOREM LinesAnswered == Spec => []LinesObeyed
<1>1. LineStands => LinesObeyed
  <2>. SUFFICES ASSUME LineStands, pc = "reply"
                PROVE  /\ Documented(line) => ~Refused(line) /\ Answered
                                              /\ SentFor(line) = Asked(line)
                       /\ Refused(line) => Answered
    BY DEF LinesObeyed, Answered, Refused, IsPress
  <2>1. ASSUME Documented(line)
        PROVE  ~Refused(line) /\ Answered /\ SentFor(line) = Asked(line)
    <3>1. ~Refused(line) /\ Answered
      BY <2>1 DEF Documented, Refused, IsPress, IsRelease, LineStands
    <3>2. SentFor(line) = Asked(line)
      <4>1. CASE IsRelease(line)
        BY <4>1 DEF SentFor, Asked, IsRelease
      <4>2. CASE ~IsRelease(line)
        <5>1. Upper(line.cmd) = "KEY_PRESS" /\ line.args \in Seq(Words)
          BY <2>1, <4>2 DEF Documented, IsRelease, LineStands
        <5>. QED
          BY <2>1, <4>2, <5>1, DocumentedStroke DEF SentFor
      <4>. QED
        BY <4>1, <4>2
    <3>. QED
      BY <3>1, <3>2
  <2>2. ASSUME Refused(line) PROVE Answered
    BY <2>2 DEF Refused, LineStands
  <2>. QED
    BY <2>1, <2>2
<1>. QED
  BY <1>1, LineInit, LineStep, PTL DEF Spec

-----------------------------------------------------------------------------
(* The tables.  What is looked up is a row of the table.                   *)
LEMMA Found ==
    ASSUME NEW table, NEW x, Has(table, x)
    PROVE  Row(table, x) \in table /\ Row(table, x)[1] = x
  BY DEF Has, Row

(* No table has two rows for a character or a key.                         *)
LEMMA OneRow ==
    /\ \A r, s \in UsLayout : r[1] = s[1] => r = s
    /\ \A p, q \in KeyCodes : p[1] = q[1] => p = q
<1>1. \A r, s \in UsLayout : r[1] = s[1] => r = s
  BY DEF UsLayout
<1>2. \A p, q \in KeyCodes : p[1] = q[1] => p = q
  BY DEF KeyCodes
<1>. QED
  BY <1>1, <1>2

(* A character is in one of the three tables only, and the small letter of *)
(* a capital is not one of those that typeString's switch has.             *)
LEMMA Apart ==
    /\ \A p \in Capitals, q \in ShiftedKeys : p[1] # q[1] /\ p[2] # q[1]
    /\ \A p \in KeyCodes, q \in ShiftedKeys : p[1] # q[1]
  BY DEF KeyCodes, ShiftedKeys, Capitals

LEMMA Codes == \A p \in KeyCodes \cup ShiftedKeys : p[2] \in 1..255
  BY DEF KeyCodes, ShiftedKeys

(* Each table agrees with the layout of the host.                          *)
LEMMA Plain ==
    \A p \in KeyCodes : \E row \in UsLayout : row[1] = p[2] /\ row[2] = p[1]
  BY DEF KeyCodes, UsLayout

LEMMA Shift ==
    \A p \in ShiftedKeys : \E row \in UsLayout : row[1] = p[2] /\ row[3] = p[1]
  BY DEF ShiftedKeys, UsLayout

LEMMA Caps ==
    \A p \in Capitals : \E q \in KeyCodes :
        /\ q[1] = p[2]
        /\ \E row \in UsLayout : row[1] = q[2] /\ row[3] = p[1]
  BY DEF Capitals, KeyCodes, UsLayout

(* Every character of the layout is in one of them.                        *)
LEMMA Covered ==
    \A row \in UsLayout :
        /\ \E p \in KeyCodes : p[1] = row[2]
        /\ \E p \in KeyCodes \cup ShiftedKeys \cup Capitals : p[1] = row[3]
  BY DEF UsLayout, KeyCodes, ShiftedKeys, Capitals

(* What the host makes of a stroke from a report without keys.             *)
Produces(stroke, c) ==
    /\ stroke.key \in 1..255 /\ stroke.mod \in {MOD_NONE, MOD_LSHIFT}
    /\ Has(UsLayout, stroke.key)
    /\ Row(UsLayout, stroke.key)[IF Shifted(stroke.mod) THEN 3 ELSE 2] = c

LEMMA ShiftDown == Shifted(MOD_LSHIFT) /\ ~Shifted(MOD_NONE)
  BY DEF Shifted, MOD_LSHIFT, MOD_NONE

LEMMA RowIs ==
    ASSUME NEW row \in UsLayout, NEW stroke,
           stroke.key = row[1], stroke.key \in 1..255,
           stroke.mod \in {MOD_NONE, MOD_LSHIFT}
    PROVE  Produces(stroke, row[IF Shifted(stroke.mod) THEN 3 ELSE 2])
<1>1. Has(UsLayout, stroke.key)
  BY DEF Has
<1>2. Row(UsLayout, stroke.key) = row
  BY <1>1, Found, OneRow
<1>. QED
  BY <1>1, <1>2 DEF Produces

LEMMA KeyCodeIs ==
    ASSUME NEW p \in KeyCodes
    PROVE  LookUp(KeyCodes, p[1], HID_KEY_NONE) = p[2]
<1>1. Has(KeyCodes, p[1])
  BY DEF Has
<1>2. Row(KeyCodes, p[1]) = p
  BY <1>1, Found, OneRow
<1>. QED
  BY <1>1, <1>2 DEF LookUp

(* The three ways to a character, and the way to none.                     *)
LEMMA StrokeCapital ==
    ASSUME NEW c, Has(Capitals, c)
    PROVE  Produces(StrokeOf(c), c)
<1>1. PICK p \in Capitals : p = Row(Capitals, c) /\ p[1] = c
  BY Found
<1>2. tolower(c) = p[2]
  BY <1>1 DEF tolower, LookUp
<1>3. ~Has(ShiftedKeys, tolower(c))
  BY <1>2, Apart DEF Has
<1>4. PICK q \in KeyCodes : q[1] = p[2] /\ \E row \in UsLayout :
                                row[1] = q[2] /\ row[3] = p[1]
  BY Caps
<1>5. charToKeyCode(c) = q[2]
  BY <1>2, <1>4, KeyCodeIs DEF charToKeyCode
<1>6. StrokeOf(c).key = q[2] /\ StrokeOf(c).mod = MOD_LSHIFT
  BY <1>3, <1>5 DEF StrokeOf, LookUp
<1>7. PICK row \in UsLayout : row[1] = q[2] /\ row[3] = c
  BY <1>1, <1>4
<1>8. q[2] \in 1..255
  BY Codes
<1>9. Produces(StrokeOf(c), row[IF Shifted(StrokeOf(c).mod) THEN 3 ELSE 2])
  BY <1>6, <1>7, <1>8, RowIs
<1>. QED
  BY <1>6, <1>7, <1>9, ShiftDown

LEMMA StrokeShifted ==
    ASSUME NEW c, Has(ShiftedKeys, c)
    PROVE  Produces(StrokeOf(c), c)
<1>1. PICK p \in ShiftedKeys : p = Row(ShiftedKeys, c) /\ p[1] = c
  BY Found
<1>2. ~Has(Capitals, c)
  BY <1>1, Apart DEF Has
<1>3. tolower(c) = c
  BY <1>2 DEF tolower, LookUp
<1>4. StrokeOf(c).key = p[2] /\ StrokeOf(c).mod = MOD_LSHIFT
  BY <1>1, <1>3 DEF StrokeOf, LookUp
<1>5. PICK row \in UsLayout : row[1] = p[2] /\ row[3] = c
  BY <1>1, Shift
<1>6. p[2] \in 1..255
  BY Codes
<1>7. Produces(StrokeOf(c), row[IF Shifted(StrokeOf(c).mod) THEN 3 ELSE 2])
  BY <1>4, <1>5, <1>6, RowIs
<1>. QED
  BY <1>4, <1>5, <1>7, ShiftDown

LEMMA StrokePlain ==
    ASSUME NEW c, ~Has(Capitals, c), ~Has(ShiftedKeys, c)
    PROVE  IF Has(KeyCodes, c) THEN Produces(StrokeOf(c), c)
                               ELSE StrokeOf(c) = Zero
<1>1. tolower(c) = c
  BY DEF tolower, LookUp
<1>2. StrokeOf(c) = [mod |-> MOD_NONE,
                     key |-> LookUp(KeyCodes, c, HID_KEY_NONE)]
  BY <1>1 DEF StrokeOf, charToKeyCode, LookUp
<1>3. CASE ~Has(KeyCodes, c)
  BY <1>2, <1>3 DEF LookUp, MOD_NONE, HID_KEY_NONE, Zero
<1>4. CASE Has(KeyCodes, c)
  <2>1. PICK p \in KeyCodes : p[1] = c
    BY <1>4, Found
  <2>2. StrokeOf(c).key = p[2] /\ StrokeOf(c).mod = MOD_NONE
    BY <1>2, <2>1, KeyCodeIs
  <2>3. PICK row \in UsLayout : row[1] = p[2] /\ row[2] = c
    BY <2>1, Plain
  <2>4. p[2] \in 1..255
    BY Codes
  <2>5. Produces(StrokeOf(c), row[IF Shifted(StrokeOf(c).mod) THEN 3 ELSE 2])
    BY <2>2, <2>3, <2>4, RowIs
  <2>. QED
    BY <1>4, <2>2, <2>3, <2>5, ShiftDown
<1>. QED
  BY <1>3, <1>4

(* typeString presses a key for the characters of the layout and for no    *)
(* other one, and the host makes that character of it: charToKeyCode, the  *)
(* switch and the host's table agree.                                      *)
THEOREM KeyMapRight ==
    ASSUME NEW c
    PROVE  /\ Mapped(c) <=> c \in UsChars
           /\ Mapped(c) => Produces(StrokeOf(c), c)
<1>1. Mapped(c) => Produces(StrokeOf(c), c)
  <2>1. Zero.key = HID_KEY_NONE
    BY DEF Zero, HID_KEY_NONE
  <2>. QED
    BY <2>1, StrokeCapital, StrokeShifted, StrokePlain DEF Mapped
<1>2. ASSUME Produces(StrokeOf(c), c) PROVE c \in UsChars
  <2>1. Row(UsLayout, StrokeOf(c).key) \in UsLayout
    BY <1>2, Found DEF Produces
  <2>2. c \in {row[i] : row \in UsLayout, i \in 2..3}
    BY <1>2, <2>1 DEF Produces
  <2>. QED
    BY <2>2 DEF UsChars
<1>3. ASSUME c \in UsChars PROVE Mapped(c)
  <2>1. PICK row \in UsLayout : c = row[2] \/ c = row[3]
    <3>1. PICK row \in UsLayout, i \in 2..3 : c = row[i]
      BY <1>3 DEF UsChars
    <3>2. i = 2 \/ i = 3
      BY <3>1
    <3>. QED
      BY <3>1, <3>2
  <2>2. Has(KeyCodes, c) \/ Has(ShiftedKeys, c) \/ Has(Capitals, c)
    BY <2>1, Covered DEF Has
  <2>3. Produces(StrokeOf(c), c)
    BY <2>2, StrokeCapital, StrokeShifted, StrokePlain
  <2>. QED
    BY <2>3 DEF Produces, Mapped, HID_KEY_NONE
<1>. QED
  BY <1>1, <1>2, <1>3

(* Without a key in the buffer nothing is typed.                           *)
LEMMA NoKey == ASSUME NEW before PROVE Decode(before, Zero) = << >>
<1>1. \A row \in UsLayout : row[1] # 0
  BY DEF UsLayout
<1>. QED
  BY <1>1 DEF Decode, Has, Zero

LEMMA OneKey ==
    ASSUME NEW before, NEW c, Mapped(c)
    PROVE  Decode(before, StrokeOf(c)) =
               IF StrokeOf(c).key = before.key THEN << >> ELSE <<c>>
  BY KeyMapRight DEF Decode, Produces

-----------------------------------------------------------------------------
(* Picks.                                                                  *)

LEMMA PicksNone == ASSUME NEW string PROVE Picks(<< >>, string, {})
<1>1. DOMAIN << >> = {}
  OBVIOUS
<1>2. [i \in {} |-> 0] \in [{} -> {}]
  OBVIOUS
<1>. QED
  BY <1>1, <1>2 DEF Picks

(* One more character is read, from a place behind those read before.      *)
LEMMA PicksOneMore ==
    ASSUME NEW S, NEW read \in Seq(S), NEW string,
           NEW places \in SUBSET Int, NEW p \in Int,
           string[p] \in S, \A q \in places : q < p,
           Picks(read, string, places)
    PROVE  Picks(read \o <<string[p]>>, string, places \cup {p})
<1>. DEFINE longer == read \o <<string[p]>>
<1>1. PICK m \in Nat : m = Len(read) /\ DOMAIN read = 1..m
  BY LenProperties
<1>2. PICK at \in [1..m -> places] :
          /\ \A place \in places : \E i \in 1..m : at[i] = place
          /\ \A i, j \in 1..m : i < j => at[i] < at[j]
          /\ \A i \in 1..m : read[i] = string[at[i]]
  BY <1>1 DEF Picks
<1>3. /\ longer \in Seq(S) /\ Len(longer) = m + 1
      /\ \A i \in 1..m : longer[i] = read[i]
      /\ longer[m + 1] = string[p]
  <2>1. <<string[p]>> \in Seq(S) /\ Len(<<string[p]>>) = 1
    OBVIOUS
  <2>. QED
    BY <1>1, <2>1, ConcatProperties
<1>4. DOMAIN longer = 1..(m + 1)
  BY <1>3, LenProperties
<1>. DEFINE then == [i \in 1..(m + 1) |-> IF i = m + 1 THEN p ELSE at[i]]
<1>5. /\ \A i \in 1..m : i \in 1..(m + 1) /\ i # m + 1 /\ then[i] = at[i]
      /\ then[m + 1] = p
      /\ \A i \in 1..(m + 1) : i = m + 1 \/ i \in 1..m
  OBVIOUS
<1>. HIDE DEF then, longer
<1>6. then \in [1..(m + 1) -> places \cup {p}]
  BY <1>2 DEF then
<1>7. \A place \in places \cup {p} : \E i \in 1..(m + 1) : then[i] = place
  BY <1>2, <1>5
<1>8. ASSUME NEW i \in 1..(m + 1), NEW j \in 1..(m + 1), i < j
      PROVE  then[i] < then[j]
  <2>1. i \in 1..m /\ at[i] \in places
    BY <1>2, <1>8
  <2>2. CASE j = m + 1
    BY <1>5, <2>1, <2>2
  <2>3. CASE j \in 1..m
    BY <1>2, <1>5, <1>8, <2>1, <2>3
  <2>. QED
    BY <1>5, <2>2, <2>3
<1>9. \A i \in 1..(m + 1) : longer[i] = string[then[i]]
  BY <1>2, <1>3, <1>5
<1>10. Picks(longer, string, places \cup {p})
  <2>1. then \in [DOMAIN longer -> places \cup {p}]
    BY <1>4, <1>6
  <2>2. /\ \A place \in places \cup {p} : \E i \in DOMAIN longer :
                                                then[i] = place
        /\ \A i, j \in DOMAIN longer : i < j => then[i] < then[j]
        /\ \A i \in DOMAIN longer : longer[i] = string[then[i]]
    BY <1>4, <1>7, <1>8, <1>9
  <2>. QED
    BY <2>1, <2>2 DEF Picks
<1>. QED
  BY <1>10 DEF longer

-----------------------------------------------------------------------------
(* The text.  Done counts the characters that typeString has passed; the   *)
(* host has read the typable ones among them.  Before the first of those,  *)
(* it still has the report it began with.                                  *)
Done == Len(text) - Len(todo)
Upto(n) == {i \in Typable : i <= n}

TextShape ==
    /\ text \in Seq(Chars) /\ todo \in Seq(Chars)
    /\ Len(todo) <= Len(text)
    /\ \A i \in 1..Len(todo) : todo[i] = text[Done + i]
    /\ pc \notin {"type", "release"} => todo = << >>

(* The host was there all the time, and every report reached it.           *)
Reached == stayed /\ Delivered

HostStands ==
    /\ host_text \in Seq(UsChars)
    /\ pc = "type" =>
          /\ Reached => /\ Picks(host_text, text, Upto(Done) \ Lost)
                        /\ Upto(Done) = {} => host_report = held
                        /\ Upto(Done) # {} => host_report = Zero
          /\ Upto(Done) # {} => keyboard_report = Zero
    /\ pc = "release" =>
          /\ todo # << >> /\ Done + 1 \in Typable
          /\ Reached => Picks(host_text, text, Upto(Done + 1) \ Lost)

TextStands == TextShape /\ HostStands

LEMMA NextChar ==
    ASSUME TextShape, todo # << >>
    PROVE  /\ Done \in Nat /\ Done + 1 \in 1..Len(text)
           /\ Head(todo) = text[Done + 1]
           /\ Tail(todo) \in Seq(Chars)
           /\ Len(Tail(todo)) = Len(todo) - 1
           /\ \A i \in 1..Len(Tail(todo)) : Tail(todo)[i] = todo[i + 1]
<1>1. Len(text) \in Nat /\ Len(todo) \in Nat \ {0}
  BY LenProperties, EmptySeq DEF TextShape
<1>2. Done \in Nat /\ Done + 1 \in 1..Len(text)
  BY <1>1 DEF TextShape, Done
<1>3. Head(todo) = todo[1]
  BY DEF TextShape
<1>4. todo[1] = text[Done + 1]
  BY <1>1 DEF TextShape
<1>5. /\ Tail(todo) \in Seq(Chars)
      /\ Len(Tail(todo)) = Len(todo) - 1
      /\ \A i \in 1..Len(Tail(todo)) : Tail(todo)[i] = todo[i + 1]
  BY HeadTailProperties DEF TextShape
<1>. QED
  BY <1>2, <1>3, <1>4, <1>5

(* A character is passed.                                                  *)
LEMMA Pass ==
    ASSUME TextShape, todo # << >>, pc' = "type",
           text' = text, todo' = Tail(todo)
    PROVE  TextShape' /\ Done' = Done + 1
<1>1. Len(text) \in Nat /\ Len(todo) \in Nat \ {0}
  BY LenProperties, EmptySeq DEF TextShape
<1>2. Done' = Done + 1 /\ Len(todo') = Len(todo) - 1
  BY <1>1, NextChar DEF Done
<1>3. ASSUME NEW i \in 1..Len(todo') PROVE todo'[i] = text'[Done' + i]
  <2>1. i + 1 \in 1..Len(todo) /\ todo'[i] = todo[i + 1]
    BY <1>1, <1>2, <1>3, NextChar
  <2>2. todo[i + 1] = text[Done + (i + 1)]
    BY <2>1 DEF TextShape
  <2>3. Done + (i + 1) = Done' + i
    BY <1>2, NextChar
  <2>. QED
    BY <2>1, <2>2, <2>3
<1>. QED
  BY <1>1, <1>2, <1>3, NextChar DEF TextShape

LEMMA TypableInt ==
    ASSUME TextShape PROVE Typable \subseteq 1..Len(text)
  BY LenProperties DEF TextShape, Typable

LEMMA UptoNext ==
    ASSUME TextShape, todo # << >>
    PROVE  Upto(Done + 1) = IF Mapped(Head(todo))
                            THEN Upto(Done) \cup {Done + 1} ELSE Upto(Done)
<1>1. Done \in Nat /\ Done + 1 \in 1..Len(text) /\ Head(todo) = text[Done + 1]
  BY NextChar
<1>2. DOMAIN text = 1..Len(text) /\ Len(text) \in Nat
  BY LenProperties DEF TextShape
<1>3. Done + 1 \in Typable <=> Mapped(Head(todo))
  BY <1>1, <1>2, KeyMapRight DEF Typable
<1>4. \A i \in Typable : i <= Done + 1 <=> i <= Done \/ i = Done + 1
  BY <1>1, <1>2, TypableInt
<1>. QED
  BY <1>1, <1>3, <1>4 DEF Upto

(* A text begins: nothing is read yet.                                     *)
LEMMA TextBegins ==
    ASSUME pc' = "type", text' \in Seq(Chars), todo' = text',
           host_text' = << >>, host_report' = held'
    PROVE  TextStands'
<1>1. Len(text') \in Nat /\ DOMAIN text' = 1..Len(text')
  BY LenProperties
<1>2. Done' = 0
  BY <1>1 DEF Done
<1>3. TextShape'
  <2>1. \A i \in 1..Len(text') : text'[i] = text'[0 + i]
    BY <1>1
  <2>. QED
    BY <1>1, <1>2, <2>1 DEF TextShape
<1>4. Upto(Done)' = {}
  BY <1>1, <1>2 DEF Upto, Typable
<1>5. Upto(Done)' \ Lost' = {}
  BY <1>4
<1>6. Picks(host_text', text', Upto(Done)' \ Lost')
  BY <1>5, PicksNone
<1>7. Picks(host_text, text, Upto(Done) \ Lost)'
  BY <1>6 DEF Picks
<1>8. host_text' \in Seq(UsChars)
  BY EmptySeq
<1>. QED
  BY <1>3, <1>4, <1>7, <1>8 DEF TextStands, HostStands
(* The blank behind TYPE is taken away, and nothing else.                  *)
LEMMA TextOfLine ==
    ASSUME NEW string \in Seq(Chars)
    PROVE  TextIn(TypeLine(string)) = string
<1>. DEFINE S == Chars \cup {"space"}
<1>. DEFINE blank == <<"space">>
<1>1. string \in Seq(S)
  BY SeqMonotonic, Chars \subseteq S
<1>2. blank \in Seq(S) /\ Len(blank) = 1 /\ blank[1] = "space"
  OBVIOUS
<1>. DEFINE rest == blank \o string
<1>3. PICK n \in Nat : n = Len(string)
  BY <1>1, LenProperties
<1>4. /\ rest \in Seq(S) /\ Len(rest) = n + 1
      /\ rest[1] = "space"
      /\ \A i \in 1..n : rest[i + 1] = string[i]
  <2>. HIDE DEF S, blank
  <2>1. /\ rest \in Seq(S) /\ Len(rest) = Len(blank) + Len(string)
        /\ \A i \in 1..(Len(blank) + Len(string)) :
              rest[i] = IF i <= Len(blank) THEN blank[i]
                                           ELSE string[i - Len(blank)]
    BY <1>1, <1>2, ConcatProperties
  <2>2. Len(rest) = n + 1 /\ rest[1] = "space"
    BY <1>2, <1>3, <2>1
  <2>3. ASSUME NEW i \in 1..n PROVE rest[i + 1] = string[i]
    <3>1. i + 1 \in 1..(Len(blank) + Len(string)) /\ ~(i + 1 <= Len(blank))
          /\ (i + 1) - Len(blank) = i
      BY <1>2, <1>3
    <3>. QED
      BY <2>1, <3>1
  <2>. QED
    BY <2>1, <2>2, <2>3
<1>. HIDE DEF S, rest
<1>5. rest # << >> /\ Head(rest) = "space"
  BY <1>4, EmptySeq
<1>6. Tail(rest) \in Seq(S) /\ Len(Tail(rest)) = n
      /\ \A i \in 1..n : Tail(rest)[i] = string[i]
  <2>1. /\ Tail(rest) \in Seq(S) /\ Len(Tail(rest)) = Len(rest) - 1
        /\ \A i \in 1..Len(Tail(rest)) : Tail(rest)[i] = rest[i + 1]
    BY <1>4, <1>5, HeadTailProperties
  <2>. QED
    BY <1>4, <2>1
<1>7. Tail(rest) = string
  BY <1>1, <1>3, <1>6, SeqEqual
<1>8. TypeLine(string).rest = rest
  BY DEF TypeLine, Line, rest
<1>. QED
  BY <1>5, <1>7, <1>8 DEF TextIn

(* Commands that type nothing keep the texts.                              *)
LEMMA TextKept ==
    ASSUME TextStands, text' = text \/ text' = << >>, todo' = todo,
           todo = << >>, host_text' = host_text \/ host_text' = << >>,
           pc' \notin {"type", "release"}
    PROVE  TextStands'
<1>1. << >> \in Seq(Chars) /\ << >> \in Seq(UsChars) /\ Len(<< >>) = 0
  BY EmptySeq
<1>2. text' \in Seq(Chars) /\ host_text' \in Seq(UsChars)
  BY <1>1 DEF TextStands, TextShape, HostStands
<1>3. Len(text') \in Nat
  BY <1>2, LenProperties
<1>. QED
  BY <1>1, <1>2, <1>3 DEF TextStands, TextShape, HostStands

(* The release of a key types nothing, its press types its character       *)
(* unless the key was down already; that can only be the first of the text.*)
LEMMA PressPicks ==
    ASSUME TextStands, PressChar
    PROVE  /\ host_text' \in Seq(UsChars)
           /\ Done + 1 \in Typable
           /\ Reached => Picks(host_text', text, Upto(Done + 1) \ Lost)
<1>. DEFINE c == Head(todo)
<1>1. TextShape /\ todo # << >> /\ Mapped(c) /\ pc = "type"
  BY DEF TextStands, PressChar
<1>2. /\ Done \in Nat /\ Done + 1 \in 1..Len(text) /\ c = text[Done + 1]
      /\ Upto(Done + 1) = Upto(Done) \cup {Done + 1}
  BY <1>1, NextChar, UptoNext
<1>3. c \in UsChars /\ Produces(StrokeOf(c), c)
  BY <1>1, KeyMapRight
<1>4. Done + 1 \in Typable
  BY <1>1, <1>2, <1>3, LenProperties DEF Typable, TextShape
<1>5. /\ host_text \in Seq(UsChars)
      /\ Reached => Picks(host_text, text, Upto(Done) \ Lost)
  BY <1>1 DEF TextStands, HostStands
<1>6. host_text' = IF Delivered
                   THEN host_text \o (IF StrokeOf(c).key = host_report.key
                                      THEN << >> ELSE <<c>>)
                   ELSE host_text
  BY <1>1, OneKey DEF PressChar, HostSees
<1>a. host_text' \in Seq(UsChars)
  <2>1. << >> \in Seq(UsChars) /\ <<c>> \in Seq(UsChars)
    BY <1>3, EmptySeq
  <2>. QED
    BY <1>5, <1>6, <2>1, ConcatProperties
<1>b. CASE ~Reached
  BY <1>4, <1>a, <1>b
<1>7. Upto(Done) \subseteq Int /\ \A q \in Upto(Done) : q < Done + 1
  BY <1>1, <1>2, TypableInt, LenProperties DEF Upto, TextShape
<1>8. CASE Reached /\ Done + 1 \in Lost
  <2>1. Upto(Done) = {}
    <3>1. \A j \in Typable : Done + 1 <= j
      BY <1>8 DEF Lost
    <3>2. \A j \in Typable : j \in Int
      BY <1>1, TypableInt
    <3>. QED
      BY <1>2, <3>1, <3>2 DEF Upto
  <2>2. host_report = held
    BY <1>1, <1>8, <2>1 DEF TextStands, HostStands
  <2>3. StrokeOf(c).key = held.key
    BY <1>2, <1>8 DEF Lost
  <2>4. host_text' = host_text
    BY <1>5, <1>6, <1>8, <2>2, <2>3, ConcatEmptySeq DEF Reached
  <2>5. Upto(Done + 1) \ Lost = Upto(Done) \ Lost
    BY <1>2, <1>8
  <2>. QED
    BY <1>4, <1>5, <1>8, <2>4, <2>5
<1>9. CASE Reached /\ Done + 1 \notin Lost
  <2>1. StrokeOf(c).key # host_report.key
    <3>1. CASE Upto(Done) = {}
      <4>1. host_report = held
        BY <1>1, <1>9, <3>1 DEF TextStands, HostStands
      <4>2. \A j \in Typable : Done + 1 <= j
        BY <1>1, <1>2, <3>1, TypableInt DEF Upto
      <4>. QED
        BY <1>2, <1>4, <1>9, <4>1, <4>2 DEF Lost
    <3>2. CASE Upto(Done) # {}
      <4>1. host_report = Zero
        BY <1>1, <1>9, <3>2 DEF TextStands, HostStands
      <4>. QED
        BY <1>3, <4>1 DEF Zero, Produces
    <3>. QED
      BY <3>1, <3>2
  <2>2. host_text' = host_text \o <<text[Done + 1]>>
    BY <1>2, <1>6, <1>9, <2>1 DEF Reached
  <2>3. Upto(Done + 1) \ Lost = (Upto(Done) \ Lost) \cup {Done + 1}
    BY <1>2, <1>9
  <2>. DEFINE places == Upto(Done) \ Lost
  <2>4. places \in SUBSET Int /\ Done + 1 \in Int
        /\ \A q \in places : q < Done + 1
    BY <1>2, <1>7
  <2>5. Picks(host_text, text, places) /\ text[Done + 1] \in UsChars
    BY <1>2, <1>3, <1>5, <1>9
  <2>. HIDE DEF places
  <2>6. Picks(host_text \o <<text[Done + 1]>>, text, places \cup {Done + 1})
    BY <1>5, <2>4, <2>5, PicksOneMore
  <2>. QED
    BY <1>4, <1>a, <2>2, <2>3, <2>6 DEF places
<1>. QED
  BY <1>b, <1>8, <1>9

LEMMA TextInit == Init => TextStands
<1>. SUFFICES ASSUME Init PROVE TextStands
  OBVIOUS
<1>1. /\ text = << >> /\ todo = << >> /\ host_text = << >>
      /\ pc \notin {"type", "release"}
  BY DEF Init
<1>2. << >> \in Seq(Chars) /\ << >> \in Seq(UsChars) /\ Len(<< >>) = 0
  BY EmptySeq
<1>. QED
  BY <1>1, <1>2 DEF TextStands, TextShape, HostStands

LEMMA TextStep == LineStands /\ TextStands /\ [Next]_vars => TextStands'
<1>. SUFFICES ASSUME LineStands, TextStands, [Next]_vars PROVE TextStands'
  OBVIOUS
<1>. USE DEF lineVars, linkVars
<1>1. ASSUME NEW to, Begin(to)
      PROVE  /\ pc = "idle" /\ pc' = to /\ todo = << >>
             /\ host_text' = << >> /\ held' = host_report
             /\ host_report' = host_report
  BY <1>1 DEF Begin, TextStands, TextShape
<1>2. ASSUME NEW stroke \in Strokes, KeyCombo(stroke) PROVE TextStands'
  BY <1>1, <1>2, TextKept DEF KeyCombo
<1>3. ASSUME NEW report, Fill(report) PROVE TextStands'
  BY <1>1, <1>3, TextKept DEF Fill
<1>4. CASE SendBuffer
  BY <1>4, TextKept DEF SendBuffer, TextStands, TextShape
<1>5. CASE ComboReleases
  BY <1>5, TextKept DEF ComboReleases, TextStands, TextShape
<1>6. ASSUME NEW string \in Texts,
             TypeString(string) \/ LineTypes(TypeLine(string), string)
      PROVE  TextStands'
  <2>1. string \in Seq(Chars)
    BY Bounded, HidAssumption DEF Texts
  <2>2. pc' = "type" /\ text' = string /\ todo' = string
        /\ host_text' = << >> /\ host_report' = held'
    <3>1. CASE TypeString(string)
      BY <1>1, <3>1 DEF TypeString
    <3>2. CASE LineTypes(TypeLine(string), string)
      BY <1>1, <2>1, <3>2, TextOfLine DEF LineTypes
    <3>. QED
      BY <1>6, <3>1, <3>2
  <2>. QED
    BY <2>1, <2>2, TextBegins
<1>7. ASSUME NEW l,
             LinePresses(l) \/ LineReleases(l) \/ LineChangesNothing(l)
      PROVE  TextStands'
  <2>1. CASE LinePresses(l)
    BY <1>3, <2>1 DEF LinePresses
  <2>2. CASE LineReleases(l)
    BY <1>3, <2>2 DEF LineReleases
  <2>3. CASE LineChangesNothing(l)
    BY <1>1, <2>3, TextKept DEF LineChangesNothing
  <2>. QED
    BY <1>7, <2>1, <2>2, <2>3
<1>8. CASE SkipChar
  <2>1. /\ TextShape /\ pc = "type" /\ todo # << >> /\ ~Mapped(Head(todo))
        /\ pc' = pc /\ text' = text /\ todo' = Tail(todo)
        /\ host_text' = host_text /\ host_report' = host_report
        /\ keyboard_report' = keyboard_report /\ held' = held
        /\ Reached' = Reached
    BY <1>8 DEF SkipChar, TextStands, Reached, Delivered
  <2>2. TextShape' /\ Done' = Done + 1
    BY <2>1, Pass
  <2>3. Lost' = Lost /\ Upto(Done)' = Upto(Done + 1)
    BY <2>1, <2>2 DEF Lost, Typable, Upto
  <2>4. Upto(Done)' = Upto(Done)
    BY <2>1, <2>3, UptoNext
  <2>5. Reached' => Picks(host_text, text, Upto(Done) \ Lost)'
    BY <2>1, <2>3, <2>4 DEF TextStands, HostStands, Picks
  <2>. QED
    BY <2>1, <2>2, <2>4, <2>5 DEF TextStands, HostStands
<1>9. CASE PressChar
  <2>1. /\ pc' = "release" /\ text' = text /\ todo' = todo /\ held' = held
        /\ todo # << >> /\ TextShape /\ pc = "type" /\ Reached' = Reached
    BY <1>9 DEF PressChar, TextStands, Reached, Delivered
  <2>2. Done' = Done /\ Lost' = Lost /\ Upto(Done + 1)' = Upto(Done + 1)
        /\ Typable' = Typable
    BY <2>1 DEF Done, Lost, Typable, Upto
  <2>3. Reached' => Picks(host_text, text, Upto(Done + 1) \ Lost)'
    BY <1>9, <2>1, <2>2, PressPicks DEF Picks
  <2>4. TextShape'
    BY <2>1, <2>2 DEF TextShape
  <2>. QED
    BY <1>9, <2>1, <2>2, <2>3, <2>4, PressPicks DEF TextStands, HostStands
<1>10. CASE ReleaseChar
  <2>1. /\ TextShape /\ pc = "release" /\ todo # << >> /\ Done + 1 \in Typable
        /\ pc' = "type" /\ text' = text /\ todo' = Tail(todo) /\ held' = held
        /\ keyboard_report' = Zero
        /\ Reached' = Reached /\ (Reached => host_report' = Zero)
        /\ \/ host_text' = host_text
           \/ host_text' = host_text \o Decode(host_report, Zero)
        /\ host_text \in Seq(UsChars)
    BY <1>10
    DEF ReleaseChar, HostSees, TextStands, HostStands, Reached, Delivered
  <2>2. TextShape' /\ Done' = Done + 1
    BY <2>1, Pass
  <2>3. Lost' = Lost /\ Upto(Done)' = Upto(Done + 1)
    BY <2>1, <2>2 DEF Lost, Typable, Upto
  <2>4. host_text' = host_text
    BY <2>1, NoKey, ConcatEmptySeq
  <2>5. Reached' => Picks(host_text, text, Upto(Done) \ Lost)'
    BY <2>1, <2>3, <2>4 DEF TextStands, HostStands, Picks
  <2>6. Upto(Done)' # {}
    <3>1. Done + 1 \in Upto(Done + 1)
      BY <2>1, NextChar DEF Upto
    <3>. QED
      BY <2>3, <3>1
  <2>. QED
    BY <2>1, <2>2, <2>4, <2>5, <2>6 DEF TextStands, HostStands
<1>11. CASE TypeReturns
  BY <1>11, TextKept DEF TypeReturns
<1>12. CASE Reply
  BY <1>12, TextKept DEF Reply, TextStands, TextShape
<1>13. CASE \/ UNCHANGED vars \/ Unregister \/ HostGoes
            \/ \E link \in Links : HostComes(link)
  <2>1. /\ pc' = pc /\ text' = text /\ todo' = todo
        /\ host_text' = host_text /\ keyboard_report' = keyboard_report
    BY <1>13 DEF vars, Unregister, HostGoes, HostComes
  <2>2. Reached' => /\ Reached
                    /\ host_report' = host_report /\ held' = held
    <3>1. CASE HostGoes
      BY <3>1 DEF HostGoes, Reached
    <3>2. ASSUME NEW link \in Links, HostComes(link) PROVE ~Reached'
      BY <3>2 DEF HostComes, Reached, LineStands
    <3>3. CASE UNCHANGED vars \/ Unregister
      BY <3>3 DEF vars, Unregister, Reached, Delivered
    <3>. QED
      BY <1>13, <3>1, <3>2, <3>3
  <2>3. Done' = Done /\ Typable' = Typable
        /\ Upto(Done)' = Upto(Done) /\ Upto(Done + 1)' = Upto(Done + 1)
    BY <2>1 DEF Done, Typable, Upto
  <2>4. TextShape'
    BY <2>1, <2>3 DEF TextStands, TextShape
  <2>5. CASE ~Reached'
    BY <2>1, <2>3, <2>4, <2>5 DEF TextStands, HostStands
  <2>6. CASE Reached'
    <3>1. /\ Picks(host_text, text, Upto(Done) \ Lost)'
                = Picks(host_text, text, Upto(Done) \ Lost)
          /\ Picks(host_text, text, Upto(Done + 1) \ Lost)'
                = Picks(host_text, text, Upto(Done + 1) \ Lost)
      BY <2>1, <2>2, <2>3, <2>6 DEF Picks, Lost, Typable
    <3>. QED
      BY <2>1, <2>2, <2>3, <2>4, <2>6, <3>1 DEF TextStands, HostStands
  <2>. QED
    BY <2>5, <2>6
<1>. QED
  BY <1>2, <1>4, <1>5, <1>6, <1>7, <1>8, <1>9, <1>10, <1>11, <1>12, <1>13
  DEF Next

(* A US host that stays reads the text of a TYPE line: every character its *)
(* layout has, in order and once, except a first one whose key KEY_PRESS   *)
(* had left down, which is lost; and nothing stays down.                   *)
THEOREM HostReads == Spec => []HostReadsText
<1>1. TextStands => HostReadsText
  <2>. SUFFICES ASSUME TextStands, pc = "type", todo = << >>
                PROVE  /\ Reached =>
                             /\ Picks(host_text, text, Typable \ Lost)
                             /\ Typable # {} => host_report = Zero
                       /\ Typable # {} => keyboard_report = Zero
    BY DEF HostReadsText, Typed, Reached
  <2>1. Done = Len(text) /\ Len(text) \in Nat
    BY LenProperties, EmptySeq DEF TextStands, TextShape, Done
  <2>2. Upto(Done) = Typable
    BY <2>1, TypableInt DEF TextStands, Upto
  <2>. QED
    BY <2>2 DEF TextStands, HostStands
<1>. QED
  BY <1>1, LineInit, LineStep, TextInit, TextStep, PTL DEF Spec

-----------------------------------------------------------------------------
(* Types.  The host has read no more characters than typeString passed.    *)
Reports == [mod : 0..255, key : 0..255]

TypeStands ==
    /\ keyboard_report \in Reports /\ host_report \in Reports
    /\ held \in Reports
    /\ pc \in {"idle", "send", "type", "release", "combo", "reply"}
    /\ text \in Texts
    /\ answer \in {"", "OK", "ERROR"}
    /\ issued \in 0..MaxCommands

LinkStands ==
    /\ registered \in BOOLEAN /\ stayed \in BOOLEAN
    /\ host \in {"none"} \cup Links

ReadStands ==
    /\ Len(host_text) <= MaxText
    /\ pc = "type" => Len(host_text) <= Done
    /\ pc = "release" => Len(host_text) <= Done + 1

LEMMA Bounds == MaxText \in Nat /\ MaxCommands \in Nat
  BY HidAssumption

LEMMA ZeroReport == Zero \in Reports
  BY DEF Zero, Reports

LEMMA NoText == << >> \in Texts
<1>1. << >> \in [1..0 -> Chars] /\ 0 \in 0..MaxText
  BY Bounds
<1>. QED
  BY <1>1 DEF Texts, BoundedSeq, SeqOf

LEMMA TextLength == ASSUME NEW string \in Texts PROVE Len(string) <= MaxText
<1>1. PICK n \in 0..MaxText : string \in [1..n -> Chars]
  BY DEF Texts, BoundedSeq, SeqOf
<1>2. string \in Seq(Chars)
  BY Bounded, Bounds DEF Texts
<1>3. DOMAIN string = 1..Len(string) /\ Len(string) \in Nat
  BY <1>2, LenProperties
<1>4. DOMAIN string = 1..n /\ n \in Nat /\ n <= MaxText
  BY <1>1, Bounds
<1>5. ASSUME NEW a \in Nat, NEW b \in Nat, 1..a = 1..b PROVE a <= b
  <2>1. a = 0 \/ a \in 1..a
    OBVIOUS
  <2>. QED
    BY <1>5, <2>1
<1>6. Len(string) <= n
  BY <1>3, <1>4, <1>5
<1>. QED
  BY <1>3, <1>4, <1>6, Bounds

LEMMA StrokeReports ==
    ASSUME NEW c, Mapped(c) PROVE StrokeOf(c) \in Reports
<1>2. /\ StrokeOf(c).key \in 1..255
      /\ StrokeOf(c).mod \in {MOD_NONE, MOD_LSHIFT}
  BY KeyMapRight DEF Produces
<1>3. StrokeOf(c) = [mod |-> StrokeOf(c).mod, key |-> StrokeOf(c).key]
  BY DEF StrokeOf
<1>. QED
  BY <1>2, <1>3 DEF Reports, MOD_NONE, MOD_LSHIFT

LEMMA StrokeInReports ==
    ASSUME NEW l, l.args \in Seq(Words), l.args # << >>
    PROVE  StrokeIn(l) \in Reports
<1>1. ASSUME NEW word \in Words PROVE uint8(strtoul(word)) \in 0..255
  <2>1. word.digits \in Nat
    BY HidAssumption
  <2>2. PICK n \in Nat : n = strtoul(word)
    BY <2>1 DEF strtoul, ULONG_MAX
  <2>3. n % 256 \in 0..255
    OBVIOUS
  <2>. QED
    BY <2>2, <2>3 DEF uint8
<1>2. PICK n \in Nat \ {0} : n = Len(l.args)
  BY EmptySeq
<1>3. \A i \in 1..n : l.args[i] \in Words
  BY <1>2, ElementOfSeq
<1>4. uint8(strtoul(l.args[1])) \in 0..255
  <2>1. l.args[1] \in Words
    BY <1>2, <1>3
  <2>. QED
    BY <1>1, <2>1
<1>5. ASSUME n > 1 PROVE uint8(strtoul(l.args[2])) \in 0..255
  <2>1. l.args[2] \in Words
    BY <1>3, <1>5
  <2>. QED
    BY <1>1, <2>1
<1>. QED
  BY <1>2, <1>4, <1>5 DEF StrokeIn, Reports

LEMMA TypeInit == Init => TypeStands
<1>1. 0 \in 0..MaxCommands
  BY Bounds
<1>. QED
  BY <1>1, ZeroReport, NoText DEF Init, TypeStands

LEMMA TypeStep == TypeStands /\ [Next]_vars => TypeStands'
<1>. SUFFICES ASSUME TypeStands, [Next]_vars PROVE TypeStands'
  OBVIOUS
<1>. USE DEF lineVars
<1>1. ASSUME NEW to, Begin(to)
      PROVE  /\ pc' = to /\ issued' \in 0..MaxCommands
             /\ held' \in Reports /\ host_report' \in Reports
  <2>1. issued < MaxCommands /\ issued \in 0..MaxCommands
    BY <1>1 DEF Begin, TypeStands
  <2>2. issued + 1 \in 0..MaxCommands
    BY <2>1, Bounds
  <2>. QED
    BY <1>1, <2>2 DEF Begin, TypeStands
<1>2. ASSUME NEW stroke \in Strokes, KeyCombo(stroke) PROVE TypeStands'
  <2>1. stroke \in Reports
    BY HidAssumption DEF Reports
  <2>. QED
    BY <1>1, <1>2, <2>1 DEF KeyCombo, TypeStands
<1>3. CASE SendBuffer
  BY <1>3 DEF SendBuffer, TypeStands
<1>4. CASE ComboReleases
  BY <1>4, ZeroReport DEF ComboReleases, TypeStands
<1>5. ASSUME NEW string \in Texts, TypeString(string) PROVE TypeStands'
  BY <1>1, <1>5 DEF TypeString, TypeStands
<1>6. ASSUME NEW string \in Texts, LineTypes(TypeLine(string), string)
      PROVE  TypeStands'
  BY <1>1, <1>6 DEF LineTypes, TypeStands
<1>7. ASSUME NEW l \in KeyLines \cup OtherLines, LinePresses(l)
      PROVE  TypeStands'
  <2>1. StrokeIn(l) \in Reports
    BY <1>7, LineArgs, StrokeInReports DEF LinePresses, Presses
  <2>. QED
    BY <1>1, <1>7, <2>1 DEF LinePresses, Fill, TypeStands
<1>8. ASSUME NEW l, LineReleases(l) PROVE TypeStands'
  BY <1>1, <1>8, ZeroReport DEF LineReleases, Fill, TypeStands
<1>9. ASSUME NEW l, LineChangesNothing(l) PROVE TypeStands'
  BY <1>1, <1>9 DEF LineChangesNothing, TypeStands
<1>10. CASE SkipChar
  BY <1>10 DEF SkipChar, TypeStands
<1>11. CASE PressChar
  BY <1>11, StrokeReports DEF PressChar, HostSees, TypeStands
<1>12. CASE ReleaseChar
  BY <1>12, ZeroReport DEF ReleaseChar, HostSees, TypeStands
<1>13. CASE TypeReturns
  BY <1>13 DEF TypeReturns, TypeStands
<1>14. CASE Reply
  BY <1>14, NoText DEF Reply, TypeStands
<1>15. CASE \/ UNCHANGED vars \/ Unregister \/ HostGoes
            \/ \E link \in Links : HostComes(link)
  BY <1>15, ZeroReport DEF vars, TypeStands, Unregister, HostGoes, HostComes
<1>. QED
  BY <1>2, <1>3, <1>4, <1>5, <1>6, <1>7, <1>8, <1>9, <1>10, <1>11, <1>12,
     <1>13, <1>14, <1>15 DEF Next

LEMMA LinkStep == LinkStands /\ [Next]_vars => LinkStands'
<1>. SUFFICES ASSUME LinkStands, [Next]_vars PROVE LinkStands'
  OBVIOUS
<1>1. UNCHANGED linkVars => LinkStands'
  BY DEF linkVars, LinkStands
<1>2. ASSUME NEW to, Begin(to) PROVE LinkStands'
  <2>1. /\ UNCHANGED <<registered, host>>
        /\ stayed' \in BOOLEAN
    BY <1>2 DEF Begin
  <2>. QED
    BY <2>1 DEF LinkStands
<1>3. ASSUME NEW link \in Links, HostComes(link) PROVE LinkStands'
  BY <1>3 DEF HostComes, LinkStands
<1>4. CASE HostGoes \/ Unregister
  BY <1>4 DEF HostGoes, Unregister, LinkStands
<1>5. \/ UNCHANGED linkVars \/ HostGoes \/ Unregister
      \/ \E to : Begin(to)
      \/ \E link \in Links : HostComes(link)
  <2>1. \A stroke \in Strokes : KeyCombo(stroke) => \E to : Begin(to)
    BY DEF KeyCombo
  <2>2. \A string :
           TypeString(string) \/ LineTypes(TypeLine(string), string)
           => \E to : Begin(to)
    BY DEF TypeString, LineTypes
  <2>3. \A l : LinePresses(l) \/ LineReleases(l) \/ LineChangesNothing(l)
               => \E to : Begin(to)
    BY DEF LinePresses, LineReleases, LineChangesNothing, Fill
  <2>4. SendBuffer \/ ComboReleases \/ SkipChar \/ PressChar
        \/ ReleaseChar \/ TypeReturns \/ Reply \/ UNCHANGED vars
        => UNCHANGED linkVars
    BY DEF SendBuffer, ComboReleases, SkipChar, PressChar, ReleaseChar,
           TypeReturns, Reply, vars
  <2>. QED
    BY <2>1, <2>2, <2>3, <2>4 DEF Next
<1>. QED
  BY <1>1, <1>2, <1>3, <1>4, <1>5

(* What typeString has left of the text is its end.                        *)
LEMMA Suffix ==
    ASSUME TextShape PROVE IsSuffix(todo, text)
<1>. DEFINE m == Len(todo)
<1>. DEFINE n == Len(text)
<1>1. m \in Nat /\ n \in Nat /\ m <= n /\ Done = n - m
  BY LenProperties DEF TextShape, Done
<1>2. \A i \in 1..m : todo[i] = text[(n - m) + i]
  BY <1>1 DEF TextShape
<1>3. \A i \in 1..m : todo[i] \in Chars
  BY ElementOfSeq DEF TextShape
<1>4. \A i \in 1..n : text[i] \in Chars
  BY ElementOfSeq DEF TextShape
<1>. DEFINE back == [i \in 1..m |-> todo[(m - i) + 1]]
<1>. DEFINE whole == [i \in 1..n |-> text[(n - i) + 1]]
<1>. HIDE DEF m, n
<1>5. \A i \in 1..m : back[i] = whole[i]
  <2>. SUFFICES ASSUME NEW i \in 1..m PROVE back[i] = whole[i]
    OBVIOUS
  <2>1. (m - i) + 1 \in 1..m /\ i \in 1..n
        /\ (n - m) + ((m - i) + 1) = (n - i) + 1
    BY <1>1
  <2>. QED
    BY <1>2, <2>1
<1>6. back \in Seq(Chars) /\ Len(back) = m
  BY <1>1, <1>3
<1>7. whole \in Seq(Chars) /\ Len(whole) = n
  BY <1>1, <1>4
<1>. HIDE DEF back, whole
<1>8. SubSeq(back, 1, m) = SubSeq(whole, 1, m)
  BY <1>1, <1>5, <1>6, <1>7
<1>9. back = Reverse(todo) /\ whole = Reverse(text)
  BY DEF back, whole, m, n, Reverse
<1>. QED
  BY <1>1, <1>6, <1>7, <1>8, <1>9 DEF IsSuffix, IsPrefix

LEMMA ReadInit == Init => ReadStands
<1>1. Len(<< >>) = 0 /\ 0 <= MaxText
  BY EmptySeq, Bounds
<1>. QED
  BY <1>1 DEF Init, ReadStands

LEMMA ReadStep ==
    LineStands /\ TypeStands /\ TextStands /\ ReadStands /\ [Next]_vars
        => ReadStands'
<1>. SUFFICES ASSUME LineStands, TypeStands, TextStands, ReadStands,
                     [Next]_vars
              PROVE  ReadStands'
  OBVIOUS
<1>. USE DEF lineVars
<1>1. Len(<< >>) = 0 /\ MaxText \in Nat
  BY EmptySeq, Bounds
<1>2. TextStands'
  BY TextStep
<1>3. /\ Len(text) \in Nat /\ Len(text) <= MaxText
      /\ Len(host_text) \in Nat /\ Done \in Nat
  <2>1. Len(text) <= MaxText
    BY TextLength DEF TypeStands
  <2>2. Len(text) \in Nat /\ Len(todo) \in Nat /\ Len(todo) <= Len(text)
    BY LenProperties DEF TextStands, TextShape
  <2>3. Len(host_text) \in Nat
    BY LenProperties DEF TextStands, HostStands
  <2>. QED
    BY <2>1, <2>2, <2>3 DEF Done
<1>4. Done' \in Nat
  <2>1. Len(text') \in Nat /\ Len(todo') \in Nat /\ Len(todo') <= Len(text')
    BY <1>2, LenProperties DEF TextStands, TextShape
  <2>. QED
    BY <2>1 DEF Done
<1>5. ASSUME pc' # "type", pc' # "release", host_text' = host_text
      PROVE  ReadStands'
  BY <1>5 DEF ReadStands
<1>6. ASSUME pc' # "release", host_text' = << >> PROVE ReadStands'
  <2>1. Len(host_text') = 0
    BY <1>1, <1>6
  <2>2. 0 <= MaxText /\ 0 <= Done'
    BY <1>1, <1>4
  <2>. QED
    BY <1>6, <2>1, <2>2 DEF ReadStands
<1>7. ASSUME NEW stroke \in Strokes, KeyCombo(stroke) PROVE ReadStands'
  BY <1>6, <1>7 DEF KeyCombo, Begin
<1>8. CASE SendBuffer \/ ComboReleases \/ TypeReturns
  BY <1>5, <1>8 DEF SendBuffer, ComboReleases, TypeReturns
<1>9. ASSUME NEW string,
             TypeString(string) \/ LineTypes(TypeLine(string), string)
      PROVE  ReadStands'
  BY <1>6, <1>9 DEF TypeString, LineTypes, Begin
<1>10. ASSUME NEW l,
              LinePresses(l) \/ LineReleases(l) \/ LineChangesNothing(l)
       PROVE  ReadStands'
  BY <1>6, <1>10 DEF LinePresses, LineReleases, LineChangesNothing, Fill,
                     Begin
<1>11. CASE SkipChar
  <2>1. Done' = Done + 1
    BY <1>11, Pass DEF SkipChar, TextStands
  <2>. QED
    BY <1>3, <1>11, <2>1 DEF SkipChar, ReadStands
<1>12. CASE PressChar
  <2>1. Done' = Done /\ Done + 1 <= Len(text)
    BY <1>12, NextChar DEF PressChar, Done, TextStands
  <2>2. \/ host_text' = host_text
        \/ host_text' = host_text \o << >>
        \/ host_text' = host_text \o <<Head(todo)>>
    BY <1>12, OneKey DEF PressChar, HostSees
  <2>3. Head(todo) \in UsChars
    BY <1>12, KeyMapRight DEF PressChar
  <2>4. Len(host_text') <= Len(host_text) + 1
    <3>1. << >> \in Seq(UsChars) /\ <<Head(todo)>> \in Seq(UsChars)
          /\ Len(<<Head(todo)>>) = 1
      BY <2>3, EmptySeq
    <3>. QED
      BY <1>1, <1>3, <2>2, <3>1, ConcatProperties DEF TextStands, HostStands
  <2>5. Len(host_text') \in Nat
    BY <1>2, LenProperties DEF TextStands, HostStands
  <2>. QED
    BY <1>3, <1>12, <2>1, <2>4, <2>5, Bounds DEF PressChar, ReadStands
<1>13. CASE ReleaseChar
  <2>1. Done' = Done + 1
    BY <1>13, Pass DEF ReleaseChar, TextStands, HostStands
  <2>2. host_text' = host_text
    BY <1>13, NoKey, ConcatEmptySeq
    DEF ReleaseChar, HostSees, TextStands, HostStands
  <2>. QED
    BY <1>13, <2>1, <2>2 DEF ReleaseChar, ReadStands
<1>14. CASE Reply
  BY <1>6, <1>14 DEF Reply
<1>15. CASE \/ UNCHANGED vars \/ Unregister \/ HostGoes
            \/ \E link \in Links : HostComes(link)
  BY <1>15 DEF vars, Unregister, HostGoes, HostComes, ReadStands, Done
<1>. QED
  BY <1>7, <1>8, <1>9, <1>10, <1>11, <1>12, <1>13, <1>14, <1>15 DEF Next

(* The reports are bytes, what typeString has left is the end of its text, *)
(* and the host never reads more than a text may hold.                     *)
THEOREM TypeCorrect == Spec => []TypeOK
<1>1. TypeStands /\ LinkStands /\ TextStands /\ ReadStands => TypeOK
  BY Suffix
  DEF TypeStands, LinkStands, TextStands, ReadStands, TypeOK, Texts, Reports
<1>2. Init => LinkStands
  BY DEF Init, LinkStands
<1>. QED
  BY <1>1, <1>2, TypeInit, TypeStep, LinkStep, LineInit, LineStep, TextInit,
     TextStep, ReadInit, ReadStep, PTL
  DEF Spec
=============================================================================
