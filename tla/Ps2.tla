-------------------------------- MODULE Ps2 --------------------------------
(***************************************************************************)
(* What the PS/2 drivers make of the bytes they read: the keyboard's       *)
(* modifiers and characters, and the mouse's packets.  InputPath has the   *)
(* order in which bytes are read and events posted; here a driver is a     *)
(* function of the bytes so far.                                           *)
(***************************************************************************)
EXTENDS Integers, Sequences, FiniteSets

\* The keys that matter, by scan code; 0 stands for every code that is not in
\* scanCodeMap, as those of the arrow keys are not.  A byte of the keyboard is
\* <<code, released>>; 0xE0 announces one of the other half of the keyboard.
ScanCodes == [escape |-> 1, one |-> 2, ctrl |-> 29, a |-> 30, leftShift |-> 42, rightShift |-> 54, alt |-> 56, caps |-> 58]
ScanCodeToKey == [c \in {ScanCodes[k] : k \in DOMAIN ScanCodes} |-> CHOOSE k \in DOMAIN ScanCodes : ScanCodes[k] = c]
Extended == 224
NoReport == [key |-> "none"]

Keyboard == [down |-> {}, shift |-> FALSE, ctrl |-> FALSE, alt |-> FALSE, caps |-> FALSE, last |-> NoReport]
KeyToChar(k, key) ==
  CASE key = "a" -> IF k.shift # k.caps THEN "A" ELSE "a"
    [] key = "one" -> IF k.shift THEN "!" ELSE "1"
    [] OTHER -> "none"
Held(k, key, pressed) ==
  [k EXCEPT !.down = IF pressed THEN @ \cup {key} ELSE @ \ {key},
            !.shift = IF key \in {"leftShift", "rightShift"} THEN pressed ELSE @,
            !.ctrl = IF key = "ctrl" THEN pressed ELSE @,
            !.alt = IF key = "alt" THEN pressed ELSE @,
            !.caps = @ # (key = "caps" /\ pressed)]
Told(k, key, pressed) ==
  [k EXCEPT !.last = [key |-> key, pressed |-> pressed, shift |-> k.shift, ctrl |-> k.ctrl, alt |-> k.alt,
                      caps |-> k.caps, character |-> KeyToChar(k, key)]]
\* m_extended is set and cleared, and never looked at.
HandleKey(k, b) ==
  IF b[1] \notin DOMAIN ScanCodeToKey THEN [k EXCEPT !.last = NoReport]
  ELSE LET key == ScanCodeToKey[b[1]] IN Told(Held(k, key, ~b[2]), key, ~b[2])

-----------------------------------------------------------------------------
\* The mouse: a packet is flags, dx, dy and, with a wheel, dz.
Mouse(wheel, bounds) ==
  [packet |-> <<>>, wheel |-> wheel, bounds |-> bounds, buttons |-> 0, reports |-> <<>>,
   x |-> (bounds[1] + bounds[3]) \div 2, y |-> (bounds[2] + bounds[4]) \div 2]
Bit(n, b) == (n \div b) % 2 = 1
Signed(v, negative) == IF negative THEN v - 256 ELSE v
Clamp(v, low, high) == IF v < low THEN low ELSE IF v > high THEN high ELSE v
Moved(m, p) ==
  LET dx == Signed(p[2], Bit(p[1], 16))
      dy == Signed(p[3], Bit(p[1], 32))
      dz == IF m.wheel THEN Signed(p[4], p[4] >= 128) ELSE 0
  IN [m EXCEPT !.packet = <<>>, !.x = Clamp(@ - dx, m.bounds[1], m.bounds[3]), !.y = Clamp(@ + dy, m.bounds[2], m.bounds[4]),
               !.buttons = p[1] % 8, !.reports = Append(@, <<dx, dy, dz, p[1] % 8>>)]
HandleMouse(m, b) ==
  LET packet == Append(m.packet, b)
  IN IF Len(packet) < (IF m.wheel THEN 4 ELSE 3) THEN [m EXCEPT !.packet = packet] ELSE Moved(m, packet)

-----------------------------------------------------------------------------
After(Handle(_, _), start, bytes) ==
  LET f[i \in 0..Len(bytes)] == IF i = 0 THEN start ELSE Handle(f[i - 1], bytes[i]) IN f
\* Strokes of a keyboard: <<key, pressed>>, each key pressed and released in turn, or
\* pressed again while it is held down (typematic repetition).
Possible(strokes) ==
  \A i \in DOMAIN strokes :
    strokes[i][2] \/ \E j \in 1..i - 1 : strokes[j] = <<strokes[i][1], TRUE>>
                                         /\ \A m \in j..i - 1 : strokes[m] # <<strokes[i][1], FALSE>>
IsDown(strokes, n, key) == \E j \in 1..n : strokes[j] = <<key, TRUE>> /\ \A m \in j..n : strokes[m] # <<key, FALSE>>
CodesOf(strokes) == [i \in DOMAIN strokes |-> <<ScanCodes[strokes[i][1]], ~strokes[i][2]>>]

\* Every key is known to be down while it is, repeated or not; a letter is a capital if
\* exactly one of a shift key and CapsLock is in force.  The two shift keys share one
\* flag: with both down, the first to be released ends it.
KeyboardAgrees(keys, n) ==
  \A strokes \in {s \in UNION {[1..k -> keys \X BOOLEAN] : k \in 1..n} : Possible(s)} :
    \A k \in {After(HandleKey, Keyboard, CodesOf(strokes))[Len(strokes)]} :
      LET length == Len(strokes)
          shifts == {key \in {"leftShift", "rightShift"} : IsDown(strokes, length, key)}
          released == \E i \in DOMAIN strokes : /\ strokes[i] \in {<<"leftShift", FALSE>>, <<"rightShift", FALSE>>}
                                                /\ \E s \in shifts : IsDown(strokes, i, s) /\ s # strokes[i][1]
                                                /\ \A j \in i + 1..length : strokes[j][1] # CHOOSE s \in shifts : TRUE
          capsed == Cardinality({i \in DOMAIN strokes : strokes[i] = <<"caps", TRUE>>}) % 2 = 1
      IN /\ k.down = {key \in keys : IsDown(strokes, length, key)}
         /\ k.shift <=> shifts # {} /\ (Cardinality(shifts) = 1 => ~released)
         /\ k.caps <=> capsed
         /\ k.last.key = "a" => k.last.character = IF k.shift # capsed THEN "A" ELSE "a"
         \* the prefix changes nothing: the right Ctrl is the left one, and a shift that the
         \* keyboard makes up around an arrow key is a shift
         /\ After(HandleKey, Keyboard, <<<<Extended, FALSE>>>> \o CodesOf(strokes))[length + 1] = k

\* The bytes of a movement.
PacketOf(wheel, r) ==
  <<r[4] + (IF r[1] < 0 THEN 16 ELSE 0) + (IF r[2] < 0 THEN 32 ELSE 0) + 8, (r[1] + 256) % 256, (r[2] + 256) % 256>>
    \o (IF wheel THEN <<(r[3] + 256) % 256>> ELSE <<>>)
\* Every movement is reported as it was made and the pointer stays inside its bounds;
\* without one byte, all whole packets before it are, and nothing of what follows until
\* as many bytes are gone as a packet has.
MouseAgrees(moves, bounds) ==
  \A wheel \in BOOLEAN, a, b, c \in moves :
    LET Now(r) == IF wheel THEN r ELSE <<r[1], r[2], 0, r[4]>>
        bytes == PacketOf(wheel, a) \o PacketOf(wheel, b) \o PacketOf(wheel, c)
        size == IF wheel THEN 4 ELSE 3
        Without(gone) == [i \in 1..Len(bytes) - gone |-> IF i < 2 THEN bytes[i] ELSE bytes[i + gone]]
    IN /\ \A m \in {After(HandleMouse, Mouse(wheel, bounds), bytes)} :
            /\ m[Len(bytes)].reports = <<Now(a), Now(b), Now(c)>>
            /\ \A i \in DOMAIN m : m[i].x \in bounds[1]..bounds[3] /\ m[i].y \in bounds[2]..bounds[4]
       /\ \A gone \in 1..size :
            LET m == After(HandleMouse, Mouse(wheel, bounds), Without(gone))[Len(bytes) - gone]
            IN gone # size => (m.packet # <<>> /\ Len(m.packet) = size - gone)
       /\ LET m == After(HandleMouse, Mouse(wheel, bounds), Without(size))[Len(bytes) - size]
          IN m.packet = <<>> /\ Len(m.reports) = 2 /\ m.reports[2] = Now(c)
=============================================================================
