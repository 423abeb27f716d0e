------------------------ MODULE DesktopScreen_proofs ------------------------
(***************************************************************************)
(* The desktop's handlers never leave a pointer to a window that is gone,  *)
(* keep the taskbar's entry with the terminal, and show a reply where it   *)
(* belongs: for every number of windows, of queued messages and of         *)
(* requests.  The windows alone first, then the record of the desktop,     *)
(* then the steps; at the end the desktop beside the screen, as it is run. *)
(***************************************************************************)
EXTENDS DesktopScreen, SequenceTheorems, TLAPS

(***************************************************************************)
(* The window manager: every window once in the list, and what exists is   *)
(* in the list or waits for its deletion.                                  *)
(***************************************************************************)
Distinct(q) == \A i, j \in DOMAIN q : q[i] = q[j] => i = j
WindowManager == [list : Seq(Nat), focus : Nat, drag : Nat, depth : Nat,
                  pending : SUBSET Nat, live : SUBSET Nat, next : Nat \ {0}]
Managed(m) ==
  /\ m \in WindowManager
  /\ Distinct(m.list)
  /\ Range(m.list) \cap m.pending = {}
  /\ m.live = Range(m.list) \cup m.pending
  /\ m.live \subseteq 1 .. m.next - 1
  /\ m.focus \in Range(m.list) \cup {NoWindow}

(***************************************************************************)
(* The desktop.  A window number beyond the bound may appear while a       *)
(* handler runs; such a state is not taken.                                *)
(***************************************************************************)
Kinds == Owners \cup {"desktop", "none"}
Spots == {"openTerminal", "close", "choose", "slider", "input", Body}
Message == [what : {"request", "line", "done", "destroyed", "prompt"}, id : Nat]
Record == [wm : WindowManager, kind : [Ids -> Kinds], pressed : SUBSET (Ids \X Spots),
           captured : [Ids -> Spots], typing : SUBSET Ids, win : [Owners -> Nat],
           taskbar : Seq(Nat), enrolled : BOOLEAN, queue : Seq(Message)]

Listed(s) == Range(s.wm.list)

\* The pointers of the terminal and the dialogs.
Pointed(s) ==
  /\ \A k \in Owners : s.win[k] \in Listed(s) \cup {NoWindow}
  /\ \A j, k \in Owners : s.win[j] = s.win[k] /\ j # k => s.win[k] = NoWindow

\* A terminal's window that is in the list, or one whose text box has the
\* keyboard, is the terminal's.
Terminals(s) ==
  /\ \A w \in Listed(s) \cap Ids : s.kind[w] = "terminal" \/ w \in s.typing => w = s.win.terminal
  /\ \A w \in s.typing : w < s.wm.next

\* What is in the queue: nothing asks for, or answers, another window than the
\* terminal's, unless that is gone; and what is reported as destroyed is gone.
Mail(s) ==
  \A i \in DOMAIN s.queue :
    LET msg == s.queue[i]
    IN /\ msg.id < s.wm.next
       /\ msg.what \in {"request", "line"} /\ msg.id \in Listed(s) => msg.id = s.win.terminal
       /\ msg.what = "destroyed" => msg.id \notin Listed(s)

Sound(s) == s \in Record /\ Managed(s.wm) /\ Pointed(s) /\ Terminals(s) /\ Mail(s)
Barred(s) == s.taskbar = IF s.win.terminal = NoWindow THEN <<>> ELSE <<s.win.terminal>>
Good(s) == Sound(s) /\ Barred(s)

\* While no release of the mouse was lost, a window is dragged only with the left
\* button down, and is not destroyed meanwhile.
Dragged == lost = 0 /\ ui.wm.drag # NoWindow => left /\ ui.wm.drag \in Listed(ui)

IInv ==
  /\ Good(ui) /\ ui.wm.next <= MaxWindows + 1
  /\ left \in BOOLEAN /\ lost \in Nat
  /\ strays = {}
  /\ Dragged

-----------------------------------------------------------------------------
(* Lists of windows *)

\* The window is taken out of the list, and nothing else.
LEMMA WithoutIs ==
  ASSUME NEW T, NEW q \in Seq(T), NEW w, Distinct(q)
  PROVE  /\ Without(q, w) \in Seq(T)
         /\ Distinct(Without(q, w))
         /\ Range(Without(q, w)) = Range(q) \ {w}
<1> DEFINE at == {i \in DOMAIN q : q[i] = w}
<1>1. CASE at = {}
  BY <1>1 DEF Without, Range, Distinct
<1>2. CASE at # {}
  <2>1. PICK k \in 1..Len(q) : q[k] = w
    BY <1>2
  <2>2. (CHOOSE i \in at : \A j \in at : i <= j) = k
    <3>1. at = {k}
      BY <2>1 DEF Distinct
    <3>2. \E i \in at : \A j \in at : i <= j
      BY <3>1
    <3> HIDE DEF at
    <3> QED BY <3>1, <3>2
  <2>3. Without(q, w) = RemoveAt(q, k)
    BY <1>2, <2>2 DEF Without
  <2>4. /\ RemoveAt(q, k) \in Seq(T) /\ Len(RemoveAt(q, k)) = Len(q) - 1
        /\ \A i \in 1..Len(q) - 1 : RemoveAt(q, k)[i] = IF i < k THEN q[i] ELSE q[i + 1]
    <3> DEFINE a == SubSeq(q, 1, k - 1)
               b == SubSeq(q, k + 1, Len(q))
    <3>1. /\ a \in Seq(T) /\ Len(a) = k - 1 /\ \A i \in 1..k - 1 : a[i] = q[i]
          /\ b \in Seq(T) /\ Len(b) = Len(q) - k /\ \A i \in 1..Len(q) - k : b[i] = q[i + k]
      <4>1. \A i \in 1..k - 1 : q[i] \in T
        OBVIOUS
      <4>2. \A i \in k + 1..Len(q) : q[i] \in T
        OBVIOUS
      <4> QED BY <4>1, <4>2, SubSeqProperties
    <3> HIDE DEF a, b
    <3>2. /\ a \o b \in Seq(T) /\ Len(a \o b) = Len(q) - 1
          /\ \A i \in 1..Len(q) - 1 : (a \o b)[i] = IF i <= k - 1 THEN a[i] ELSE b[i - (k - 1)]
      <4>1. a \in Seq(T) /\ b \in Seq(T)
        BY <3>1
      <4>2. /\ a \o b \in Seq(T) /\ Len(a \o b) = Len(a) + Len(b)
            /\ \A i \in 1..Len(a) + Len(b) : (a \o b)[i] = IF i <= Len(a) THEN a[i] ELSE b[i - Len(a)]
        BY <4>1, ConcatProperties
      <4>3. Len(a) = k - 1 /\ Len(a) + Len(b) = Len(q) - 1
        BY <3>1
      <4> QED BY <4>2, <4>3
    <3>3. \A i \in 1..Len(q) - 1 : i >= k => i - (k - 1) \in 1..Len(q) - k /\ (i - (k - 1)) + k = i + 1
      OBVIOUS
    <3>4. RemoveAt(q, k) = a \o b
      BY DEF RemoveAt, a, b
    <3>5. ASSUME NEW i \in 1..Len(q) - 1 PROVE (a \o b)[i] = IF i < k THEN q[i] ELSE q[i + 1]
      <4>1. CASE i < k
        BY <3>1, <3>2, <4>1
      <4>2. CASE ~ (i < k)
        <5>1. i >= k
          BY <4>2
        <5>2. b[i - (k - 1)] = q[(i - (k - 1)) + k]
          BY <3>1, <3>3, <5>1
        <5> QED BY <3>2, <3>3, <5>1, <5>2
      <4> QED BY <4>1, <4>2
    <3> QED BY <3>2, <3>4, <3>5
  <2>5. Distinct(Without(q, w))
    <3>1. \A i, j \in 1..Len(q) : q[i] = q[j] => i = j
      BY DEF Distinct
    <3>2. \A i \in 1..Len(q) - 1 : i \in 1..Len(q) /\ i + 1 \in 1..Len(q)
      OBVIOUS
    <3> HIDE DEF at
    <3>3. \A i, j \in 1..Len(q) - 1 : RemoveAt(q, k)[i] = RemoveAt(q, k)[j] => i = j
      <4>1. ASSUME NEW i \in 1..Len(q) - 1, NEW j \in 1..Len(q) - 1,
                   RemoveAt(q, k)[i] = RemoveAt(q, k)[j]
            PROVE  i = j
        <5>1. PICK a \in 1..Len(q) : a = IF i < k THEN i ELSE i + 1
          BY <3>2
        <5>2. PICK b \in 1..Len(q) : b = IF j < k THEN j ELSE j + 1
          BY <3>2
        <5>3. q[a] = q[b]
          BY <2>4, <4>1, <5>1, <5>2
        <5>4. a = b
          BY <3>1, <5>3
        <5>5. i \in Int /\ j \in Int /\ k \in Int
          OBVIOUS
        <5> QED BY <5>1, <5>2, <5>4, <5>5
      <4> QED BY <4>1
    <3> QED BY <2>3, <2>4, <3>3 DEF Distinct
  <2>6. ASSUME NEW x PROVE x \in Range(Without(q, w)) <=> x \in Range(q) \ {w}
    <3>1. ASSUME x \in Range(Without(q, w)) PROVE x \in Range(q) \ {w}
      <4>1. PICK i \in 1..Len(q) - 1 : x = RemoveAt(q, k)[i]
        BY <2>3, <2>4, <3>1 DEF Range
      <4>2. x = q[IF i < k THEN i ELSE i + 1] /\ (IF i < k THEN i ELSE i + 1) \in 1..Len(q) \ {k}
        BY <4>1, <2>4
      <4> QED BY <4>2, <2>1 DEF Range, Distinct
    <3>2. ASSUME x \in Range(q) \ {w} PROVE x \in Range(Without(q, w))
      <4>1. PICK i \in 1..Len(q) : x = q[i] /\ i # k
        BY <3>2, <2>1 DEF Range
      <4>2. (IF i < k THEN i ELSE i - 1) \in 1..Len(q) - 1 /\ x = RemoveAt(q, k)[IF i < k THEN i ELSE i - 1]
        BY <4>1, <2>4, <2>1
      <4> QED BY <4>2, <2>3, <2>4 DEF Range
    <3> QED BY <3>1, <3>2
  <2> QED BY <2>3, <2>4, <2>5, <2>6
<1> QED BY <1>1, <1>2

LEMMA AppendIs ==
  ASSUME NEW T, NEW q \in Seq(T), NEW w \in T, Distinct(q), w \notin Range(q)
  PROVE  /\ Append(q, w) \in Seq(T)
         /\ Distinct(Append(q, w))
         /\ Range(Append(q, w)) = Range(q) \cup {w}
<1>1. /\ Append(q, w) \in Seq(T) /\ Len(Append(q, w)) = Len(q) + 1
      /\ \A i \in 1 .. Len(q) : Append(q, w)[i] = q[i]
      /\ Append(q, w)[Len(q) + 1] = w
  OBVIOUS
<1>2. \A i \in 1 .. Len(q) : q[i] # w
  BY DEF Range
<1>3. Distinct(Append(q, w))
  BY <1>1, <1>2 DEF Distinct
<1>4. Range(Append(q, w)) = Range(q) \cup {w}
  BY <1>1 DEF Range
<1> QED BY <1>1, <1>3, <1>4

-----------------------------------------------------------------------------
(* The window manager *)

\* createWindow: a new number at the top of the list.
LEMMA CreateManaged ==
  ASSUME NEW m, Managed(m)
  PROVE  /\ Managed(CreateWindow(m))
         /\ Range(CreateWindow(m).list) = Range(m.list) \cup {m.next}
         /\ CreateWindow(m).next = m.next + 1 /\ CreateWindow(m).drag = m.drag
         /\ m.next \in Nat \ {0} /\ m.next \notin Range(m.list)
<1>1. m \in WindowManager /\ m.next \notin m.live /\ Range(m.list) \subseteq m.live
  BY DEF Managed, WindowManager
<1>2. m.next \in Nat \ {0}
  BY <1>1 DEF WindowManager
<1> DEFINE q == Append(m.list, m.next)
<1>3. q \in Seq(Nat) /\ Distinct(q) /\ Range(q) = Range(m.list) \cup {m.next}
  BY <1>1, <1>2, AppendIs DEF Managed, WindowManager
<1>4. CreateWindow(m) = [m EXCEPT !.list = q, !.live = m.live \cup {m.next}, !.next = m.next + 1]
  BY <1>1 DEF CreateWindow, WindowManager
<1> HIDE DEF q
<1> DEFINE n == CreateWindow(m)
<1>5. /\ n \in WindowManager /\ n.list = q /\ n.live = m.live \cup {m.next} /\ n.next = m.next + 1
      /\ n.focus = m.focus /\ n.pending = m.pending /\ n.drag = m.drag
  <2>1. m.live \cup {m.next} \in SUBSET Nat /\ m.next + 1 \in Nat \ {0}
    BY <1>1, <1>2 DEF WindowManager
  <2> QED BY <1>1, <1>3, <1>4, <2>1 DEF WindowManager
<1> HIDE DEF n
<1>6. Managed(n)
  BY <1>1, <1>2, <1>3, <1>5 DEF Managed
<1> QED BY <1>1, <1>2, <1>3, <1>5, <1>6 DEF n

\* destroyWindow, at once or deferred: the window leaves the list.
LEMMA DestroyManaged ==
  ASSUME NEW m, Managed(m), NEW w \in Range(m.list)
  PROVE  /\ Managed(DestroyWindow(m, w))
         /\ Range(DestroyWindow(m, w).list) = Range(m.list) \ {w}
         /\ DestroyWindow(m, w).next = m.next /\ DestroyWindow(m, w).drag = m.drag
<1> DEFINE q == Without(m.list, w)
           f == Forget(m, w)
<1>1. m \in WindowManager /\ w \notin m.pending
  BY DEF Managed
<1>2. q \in Seq(Nat) /\ Distinct(q) /\ Range(q) = Range(m.list) \ {w}
  BY <1>1, WithoutIs DEF Managed, WindowManager
<1> HIDE DEF q
<1>3. /\ f \in WindowManager /\ f.list = q /\ f.focus = IF m.focus = w THEN NoWindow ELSE m.focus
      /\ f.live = m.live /\ f.pending = m.pending /\ f.next = m.next /\ f.drag = m.drag
  BY <1>1, <1>2 DEF Forget, WindowManager, q, NoWindow
<1> HIDE DEF f
<1>4. CASE m.depth > 0
  <2> DEFINE n == DestroyWindow(m, w)
  <2>1. n = [f EXCEPT !.pending = f.pending \cup {w}]
    BY <1>1, <1>4 DEF DestroyWindow, f
  <2>2. w \in Nat
    BY <1>1 DEF Range, WindowManager
  <2>3. /\ n \in WindowManager /\ n.list = q /\ n.focus = f.focus /\ n.live = m.live
        /\ n.pending = m.pending \cup {w} /\ n.next = m.next /\ n.drag = m.drag
    BY <1>3, <2>1, <2>2 DEF WindowManager
  <2> HIDE DEF n
  <2>4. Managed(n)
    BY <1>2, <1>3, <2>3 DEF Managed
  <2> QED BY <1>2, <2>3, <2>4 DEF n
<1>5. CASE ~ (m.depth > 0)
  <2> DEFINE n == DestroyWindow(m, w)
  <2>1. n = [f EXCEPT !.live = f.live \ {w}]
    BY <1>1, <1>5 DEF DestroyWindow, f
  <2>2. /\ n \in WindowManager /\ n.list = q /\ n.focus = f.focus /\ n.live = m.live \ {w}
        /\ n.pending = m.pending /\ n.next = m.next /\ n.drag = m.drag
    BY <1>3, <2>1 DEF WindowManager
  <2> HIDE DEF n
  <2>3. Managed(n)
    BY <1>1, <1>2, <1>3, <2>2 DEF Managed
  <2> QED BY <1>2, <2>2, <2>3 DEF n
<1> QED BY <1>4, <1>5

\* bringToFront and setFocus: the window is the last of the list, which has the
\* same members.
LEMMA RaiseManaged ==
  ASSUME NEW m, Managed(m), NEW w \in Range(m.list)
  PROVE  /\ Managed(BringToFront(m, w))
         /\ Range(BringToFront(m, w).list) = Range(m.list)
         /\ BringToFront(m, w).next = m.next /\ BringToFront(m, w).drag = m.drag
<1> DEFINE q == Without(m.list, w)
           r == Append(q, w)
<1>1. m \in WindowManager /\ w \in Nat
  BY DEF Managed, WindowManager, Range
<1>2. q \in Seq(Nat) /\ Distinct(q) /\ Range(q) = Range(m.list) \ {w}
  BY <1>1, WithoutIs DEF Managed, WindowManager
<1> HIDE DEF q
<1>3. r \in Seq(Nat) /\ Distinct(r) /\ Range(r) = Range(m.list)
  <2>1. w \notin Range(q)
    BY <1>2
  <2>2. r \in Seq(Nat) /\ Distinct(r) /\ Range(r) = Range(q) \cup {w}
    BY <1>1, <1>2, <2>1, AppendIs
  <2> QED BY <1>2, <2>2
<1>4. BringToFront(m, w) = [[m EXCEPT !.list = r] EXCEPT !.focus = w]
  BY <1>1 DEF BringToFront, SetFocus, q, WindowManager
<1> HIDE DEF r
<1> DEFINE n == BringToFront(m, w)
<1>5. /\ n \in WindowManager /\ n.list = r /\ n.focus = w /\ n.live = m.live
      /\ n.pending = m.pending /\ n.next = m.next /\ n.drag = m.drag
  BY <1>1, <1>3, <1>4 DEF WindowManager
<1> HIDE DEF n
<1>6. Managed(n)
  BY <1>1, <1>3, <1>5 DEF Managed
<1> QED BY <1>3, <1>5, <1>6 DEF n

\* The depth of the dispatch says nothing of the windows.
LEMMA EnterManaged ==
  ASSUME NEW m, Managed(m)
  PROVE  /\ Managed(EnterDispatch(m)) /\ EnterDispatch(m).list = m.list
         /\ EnterDispatch(m).next = m.next /\ EnterDispatch(m).drag = m.drag
<1> DEFINE n == EnterDispatch(m)
<1>1. /\ n \in WindowManager /\ n.list = m.list /\ n.focus = m.focus /\ n.live = m.live
      /\ n.pending = m.pending /\ n.next = m.next /\ n.drag = m.drag
  BY DEF Managed, WindowManager, EnterDispatch
<1> HIDE DEF n
<1>2. Managed(n)
  BY <1>1 DEF Managed
<1> QED BY <1>1, <1>2 DEF n

\* At the end of the outermost dispatch what was destroyed in it is deleted.
LEMMA LeaveManaged ==
  ASSUME NEW m, Managed(m), m.depth > 0
  PROVE  /\ Managed(LeaveDispatch(m)) /\ LeaveDispatch(m).list = m.list
         /\ LeaveDispatch(m).next = m.next /\ LeaveDispatch(m).drag = m.drag
<1> DEFINE d == [m EXCEPT !.depth = m.depth - 1]
           n == LeaveDispatch(m)
<1>1. m \in WindowManager
  BY DEF Managed
<1>2. /\ d \in WindowManager /\ d.list = m.list /\ d.focus = m.focus /\ d.live = m.live
      /\ d.pending = m.pending /\ d.next = m.next /\ d.drag = m.drag
  <2>1. m.depth - 1 \in Nat
    BY <1>1 DEF WindowManager
  <2> QED BY <1>1, <2>1 DEF WindowManager
<1>3. n = ProcessPendingDestroy(d)
  BY <1>1 DEF LeaveDispatch
<1> HIDE DEF d, n
<1>4. CASE d.depth # 0
  BY <1>2, <1>3, <1>4 DEF ProcessPendingDestroy, Managed, n
<1>5. CASE d.depth = 0
  <2>1. n = [d EXCEPT !.live = d.live \ d.pending, !.pending = {}]
    BY <1>3, <1>5 DEF ProcessPendingDestroy
  <2>2. /\ n \in WindowManager /\ n.list = m.list /\ n.focus = m.focus /\ n.pending = {}
        /\ n.live = m.live \ m.pending /\ n.next = m.next /\ n.drag = m.drag
    BY <1>2, <2>1 DEF WindowManager
  <2>3. Managed(n)
    BY <2>2 DEF Managed
  <2> QED BY <2>2, <2>3 DEF n
<1> QED BY <1>4, <1>5

-----------------------------------------------------------------------------
(* The record of the desktop *)

LEMMA RecordIs ==
  ASSUME NEW s \in Record
  PROVE  /\ s.wm \in WindowManager /\ s.kind \in [Ids -> Kinds]
         /\ s.pressed \in SUBSET (Ids \X Spots) /\ s.captured \in [Ids -> Spots]
         /\ s.typing \in SUBSET Ids /\ s.win \in [Owners -> Nat] /\ s.taskbar \in Seq(Nat)
         /\ s.enrolled \in BOOLEAN /\ s.queue \in Seq(Message)
BY DEF Record

\* What changes neither the list nor the pointers nor the queue, and lets nobody
\* else type into a terminal.
LEMMA SoundStays ==
  ASSUME NEW s, Sound(s), NEW t \in Record, Managed(t.wm), Listed(t) = Listed(s),
         t.wm.next = s.wm.next, t.win = s.win, t.queue = s.queue, t.kind = s.kind,
         \A w \in t.typing : w \in s.typing \/ (w \in Listed(s) /\ w = s.win.terminal)
  PROVE  Sound(t)
<1>1. Pointed(t) /\ Mail(t)
  BY DEF Sound, Pointed, Mail
<1>2. \A w \in Listed(s) : w < s.wm.next
  <2>1. s.wm.next \in Nat /\ Listed(s) \subseteq 1 .. s.wm.next - 1
    BY DEF Sound, Managed, WindowManager, Listed
  <2> QED BY <2>1
<1>3. Terminals(t)
  BY <1>2 DEF Sound, Terminals
<1> QED BY <1>1, <1>3 DEF Sound

\* A window of the list has a number that was handed out.
LEMMA ListedIs ==
  ASSUME NEW s, Sound(s)
  PROVE  /\ Listed(s) \subseteq 1 .. s.wm.next - 1 /\ s.wm.next \in Nat \ {0}
         /\ NoWindow \notin Listed(s)
BY DEF Sound, Managed, WindowManager, Listed, NoWindow

\* bringToFront
LEMMA RaiseSound ==
  ASSUME NEW s, Sound(s), NEW w \in Listed(s)
  PROVE  LET t == [s EXCEPT !.wm = BringToFront(s.wm, w)]
         IN /\ Sound(t) /\ Listed(t) = Listed(s) /\ t.wm.next = s.wm.next
            /\ t.wm.drag = s.wm.drag /\ t.win = s.win /\ t.taskbar = s.taskbar
            /\ t.kind = s.kind /\ t.typing = s.typing /\ t.wm = BringToFront(s.wm, w)
<1> DEFINE n == BringToFront(s.wm, w)
           t == [s EXCEPT !.wm = n]
<1>1. /\ Managed(n) /\ Range(n.list) = Range(s.wm.list)
      /\ n.next = s.wm.next /\ n.drag = s.wm.drag
  BY RaiseManaged DEF Sound, Listed
<1> HIDE DEF n
<1>2. /\ t \in Record /\ t.wm = n /\ t.win = s.win /\ t.taskbar = s.taskbar /\ t.kind = s.kind
      /\ t.typing = s.typing /\ t.queue = s.queue
  BY <1>1 DEF Sound, Record, Managed
<1> HIDE DEF t
<1>3. Listed(t) = Listed(s)
  BY <1>1, <1>2 DEF Listed
<1>4. Sound(t)
  BY <1>1, <1>2, <1>3, SoundStays
<1> QED BY <1>1, <1>2, <1>3, <1>4 DEF t, n

\* A message takes a place at the end of the queue, or there is none.
LEMMA PostIs ==
  ASSUME NEW s \in Record, NEW msg \in Message
  PROVE  LET t == Post(s, msg)
         IN /\ t \in Record /\ t.wm = s.wm /\ t.win = s.win /\ t.taskbar = s.taskbar
            /\ t.kind = s.kind /\ t.typing = s.typing /\ t.captured = s.captured
            /\ t.pressed = s.pressed /\ t.enrolled = s.enrolled
            /\ \A i \in DOMAIN t.queue : \/ t.queue[i] = msg
                                         \/ i \in DOMAIN s.queue /\ t.queue[i] = s.queue[i]
<1> DEFINE q == IF Len(s.queue) < MaxQueued THEN Append(s.queue, msg) ELSE s.queue
<1>1. s.queue \in Seq(Message)
  BY RecordIs
<1>2. q \in Seq(Message)
  BY <1>1
<1>3. \A i \in DOMAIN q : q[i] = msg \/ (i \in DOMAIN s.queue /\ q[i] = s.queue[i])
  BY <1>1
<1>4. Post(s, msg) = [s EXCEPT !.queue = q]
  BY DEF Post, Record
<1> HIDE DEF q
<1> QED BY <1>2, <1>3, <1>4 DEF Record

LEMMA PostSound ==
  ASSUME NEW s, Sound(s), NEW msg \in Message, msg.id < s.wm.next,
         msg.what \in {"request", "line"} /\ msg.id \in Listed(s) => msg.id = s.win.terminal,
         msg.what = "destroyed" => msg.id \notin Listed(s)
  PROVE  Sound(Post(s, msg))
<1> DEFINE t == Post(s, msg)
<1>1. /\ t \in Record /\ t.wm = s.wm /\ t.win = s.win /\ t.kind = s.kind /\ t.typing = s.typing
      /\ \A i \in DOMAIN t.queue : t.queue[i] = msg \/ (i \in DOMAIN s.queue /\ t.queue[i] = s.queue[i])
  BY PostIs DEF Sound
<1> HIDE DEF t
<1>2. Listed(t) = Listed(s)
  BY <1>1 DEF Listed
<1>3. Mail(t)
  BY <1>1, <1>2 DEF Sound, Mail
<1>4. Pointed(t) /\ Terminals(t) /\ Managed(t.wm)
  BY <1>1, <1>2 DEF Sound, Pointed, Terminals
<1> QED BY <1>1, <1>3, <1>4 DEF Sound, t

\* A new window for who has none; of the terminals there is one at most.
LEMMA NewSound ==
  ASSUME NEW s, Sound(s), NEW k \in Owners, s.win[k] = NoWindow
  PROVE  LET t == NewWindow(s, k)
         IN /\ Sound(t) /\ Listed(t) = Listed(s) \cup {s.wm.next} /\ t.wm.next = s.wm.next + 1
            /\ t.wm.drag = s.wm.drag /\ t.win = [s.win EXCEPT ![k] = s.wm.next]
            /\ t.taskbar = s.taskbar
<1> DEFINE id == s.wm.next
           n == CreateWindow(s.wm)
           t == NewWindow(s, k)
<1>1. /\ Managed(n) /\ Range(n.list) = Listed(s) \cup {id} /\ n.next = id + 1
      /\ n.drag = s.wm.drag /\ id \in Nat \ {0} /\ id \notin Listed(s)
  BY CreateManaged DEF Sound, Listed
<1>2. t = [s EXCEPT !.wm = n, !.kind = [s.kind EXCEPT ![id] = k], !.win = [s.win EXCEPT ![k] = id]]
  BY DEF NewWindow, Sound, Record
<1> HIDE DEF n, id, t
<1>3. [s.kind EXCEPT ![id] = k] \in [Ids -> Kinds] /\ [s.win EXCEPT ![k] = id] \in [Owners -> Nat]
  BY <1>1, RecordIs DEF Sound, Kinds
<1>4. /\ t \in Record /\ t.wm = n /\ t.kind = [s.kind EXCEPT ![id] = k] /\ t.win = [s.win EXCEPT ![k] = id]
      /\ t.typing = s.typing /\ t.queue = s.queue /\ t.taskbar = s.taskbar
  BY <1>1, <1>2, <1>3 DEF Record, Sound, Managed
<1>5. Listed(t) = Listed(s) \cup {id}
  BY <1>1, <1>4 DEF Listed
<1>6. /\ Listed(s) \subseteq 1 .. id - 1 /\ NoWindow \notin Listed(s) /\ NoWindow = 0
  BY ListedIs DEF NoWindow, id
<1>7. s.win \in [Owners -> Nat] /\ "terminal" \in Owners /\ s.kind \in [Ids -> Kinds]
  BY RecordIs DEF Sound, Owners
<1>8. Pointed(t)
  <2>1. ASSUME NEW j \in Owners PROVE t.win[j] \in Listed(t) \cup {NoWindow}
    BY <1>4, <1>5, <1>7 DEF Sound, Pointed
  <2>2. ASSUME NEW j \in Owners, NEW i \in Owners, t.win[j] = t.win[i], j # i
        PROVE  t.win[i] = NoWindow
    <3>1. \A o \in Owners : s.win[o] # id
      BY <1>1, <1>6, <1>7 DEF Sound, Pointed
    <3> QED BY <2>2, <3>1, <1>4, <1>7 DEF Sound, Pointed
  <2> QED BY <2>1, <2>2 DEF Pointed
<1>9. Terminals(t)
  <2>1. ASSUME NEW w \in Listed(t) \cap Ids, t.kind[w] = "terminal" \/ w \in t.typing
        PROVE  w = t.win.terminal
    <3>1. CASE k = "terminal"
      <4>1. w = id
        <5>1. ASSUME w \in Listed(s) PROVE FALSE
          <6>1. w # id /\ (s.kind[w] = "terminal" \/ w \in s.typing)
            BY <1>1, <1>4, <1>7, <2>1, <5>1
          <6>2. w = NoWindow
            BY <5>1, <6>1, <3>1 DEF Sound, Terminals
          <6> QED BY <5>1, <6>2, <1>6
        <5> QED BY <5>1, <1>5
      <4> QED BY <4>1, <3>1, <1>4, <1>7
    <3>2. CASE k # "terminal"
      <4>1. w # id
        <5>1. ASSUME w = id PROVE FALSE
          <6>1. t.kind[w] = k
            BY <5>1, <1>4, <1>7
          <6>2. w \notin s.typing
            BY <5>1, <1>1 DEF Sound, Terminals, id
          <6> QED BY <6>1, <6>2, <2>1, <3>2, <1>4
        <5> QED BY <5>1
      <4>2. w \in Listed(s) /\ (s.kind[w] = "terminal" \/ w \in s.typing)
        BY <4>1, <1>4, <1>5, <1>7, <2>1
      <4>3. w = s.win.terminal
        BY <4>2 DEF Sound, Terminals
      <4> QED BY <4>3, <3>2, <1>4, <1>7
    <3> QED BY <3>1, <3>2
  <2>2. ASSUME NEW w \in t.typing PROVE w < t.wm.next
    <3>1. w < id /\ w \in Nat
      BY <2>2, <1>4 DEF Sound, Terminals, id, Record, Ids
    <3> QED BY <3>1, <1>1, <1>4
  <2> QED BY <2>1, <2>2 DEF Terminals
<1>10. Mail(t)
  <2>1. ASSUME NEW i \in DOMAIN t.queue
        PROVE  LET msg == t.queue[i]
               IN /\ msg.id < t.wm.next
                  /\ msg.what \in {"request", "line"} /\ msg.id \in Listed(t) => msg.id = t.win.terminal
                  /\ msg.what = "destroyed" => msg.id \notin Listed(t)
    <3> DEFINE msg == s.queue[i]
    <3>1. t.queue[i] = msg /\ msg \in Message
      BY <1>4, RecordIs DEF Sound
    <3>2. /\ msg.id < id
          /\ msg.what \in {"request", "line"} /\ msg.id \in Listed(s) => msg.id = s.win.terminal
          /\ msg.what = "destroyed" => msg.id \notin Listed(s)
      BY <2>1, <1>4 DEF Sound, Mail, id
    <3> HIDE DEF msg
    <3>3. msg.id \in Nat /\ msg.id # id
      BY <1>1, <3>1, <3>2 DEF Message
    <3>4. msg.id \in Listed(s) /\ msg.id = s.win.terminal => k # "terminal"
      BY <1>6
    <3>5. k # "terminal" => t.win.terminal = s.win.terminal
      BY <1>4, <1>7
    <3> QED BY <1>1, <1>4, <1>5, <3>1, <3>2, <3>3, <3>4, <3>5
  <2> QED BY <2>1 DEF Mail
<1>11. Sound(t)
  BY <1>1, <1>4, <1>8, <1>9, <1>10 DEF Sound
<1> QED BY <1>1, <1>4, <1>5, <1>11 DEF id, t

\* close() of a dialog or of the terminal: the window leaves the list, and its
\* owner's pointer goes with it.
LEMMA CloseSound ==
  ASSUME NEW s, Sound(s), NEW k \in Owners
  PROVE  LET t == CloseDialog(s, k)
         IN /\ Sound(t) /\ Listed(t) = Listed(s) \ {s.win[k]} /\ t.wm.next = s.wm.next
            /\ t.wm.drag = s.wm.drag /\ t.win = [s.win EXCEPT ![k] = NoWindow]
            /\ t.taskbar = s.taskbar
<1>1. s \in Record /\ s.win \in [Owners -> Nat] /\ "terminal" \in Owners
  BY RecordIs DEF Sound, Owners
<1>2. CASE s.win[k] = NoWindow
  <2>1. CloseDialog(s, k) = s /\ s.win = [s.win EXCEPT ![k] = NoWindow]
    BY <1>1, <1>2 DEF CloseDialog
  <2> QED BY <1>2, <2>1, ListedIs
<1>3. CASE s.win[k] # NoWindow
  <2> DEFINE w == s.win[k]
             n == DestroyWindow(s.wm, w)
             d == [s EXCEPT !.wm = n]
             msg == [what |-> "destroyed", id |-> w]
             e == IF s.kind[w] = "terminal" THEN Post(d, msg) ELSE d
             t == CloseDialog(s, k)
  <2>1. w \in Listed(s) /\ w \in Nat /\ w < s.wm.next
    BY <1>1, <1>3, ListedIs DEF Sound, Pointed
  <2>2. /\ Managed(n) /\ Range(n.list) = Listed(s) \ {w} /\ n.next = s.wm.next
        /\ n.drag = s.wm.drag
    BY <2>1, DestroyManaged DEF Sound, Listed
  <2>3. t = [e EXCEPT !.win = [e.win EXCEPT ![k] = NoWindow]]
    BY <1>3 DEF CloseDialog, Destroy
  <2> HIDE DEF n, t
  <2>4. d \in Record /\ d.wm = n /\ d.kind = s.kind /\ d.win = s.win /\ d.taskbar = s.taskbar
        /\ d.typing = s.typing /\ d.queue = s.queue
    BY <1>1, <2>2 DEF Record, Managed
  <2>5. msg \in Message /\ msg.what = "destroyed" /\ msg.id = w
    BY <2>1 DEF Message
  <2> HIDE DEF d, msg
  <2>6. /\ e \in Record /\ e.wm = n /\ e.kind = s.kind /\ e.win = s.win /\ e.taskbar = s.taskbar
        /\ e.typing = s.typing
        /\ \A i \in DOMAIN e.queue : e.queue[i] = msg \/ (i \in DOMAIN s.queue /\ e.queue[i] = s.queue[i])
    <3>1. CASE s.kind[w] = "terminal"
      BY <2>4, <2>5, <3>1, PostIs
    <3>2. CASE s.kind[w] # "terminal"
      BY <2>4, <3>2
    <3> QED BY <3>1, <3>2
  <2> HIDE DEF e
  <2>7. /\ t \in Record /\ t.wm = n /\ t.kind = s.kind /\ t.win = [s.win EXCEPT ![k] = NoWindow]
        /\ t.taskbar = s.taskbar /\ t.typing = s.typing /\ t.queue = e.queue
    <3>1. [e.win EXCEPT ![k] = NoWindow] \in [Owners -> Nat]
      BY <1>1, <2>6 DEF NoWindow
    <3> QED BY <2>3, <2>6, <3>1 DEF Record
  <2>8. Listed(t) = Listed(s) \ {w}
    BY <2>2, <2>7 DEF Listed
  <2>9. Pointed(t)
    BY <1>1, <2>7, <2>8 DEF Sound, Pointed
  <2>10. \A x \in Listed(t) : x = s.win.terminal => x = t.win.terminal
    BY <1>1, <2>7, <2>8
  <2>11. Terminals(t)
    BY <2>2, <2>7, <2>8, <2>10 DEF Sound, Terminals
  <2>12. Mail(t)
    <3>1. ASSUME NEW i \in DOMAIN t.queue
          PROVE  LET m == t.queue[i]
                 IN /\ m.id < t.wm.next
                    /\ m.what \in {"request", "line"} /\ m.id \in Listed(t) => m.id = t.win.terminal
                    /\ m.what = "destroyed" => m.id \notin Listed(t)
      <4>1. CASE t.queue[i] = msg
        BY <4>1, <2>1, <2>2, <2>5, <2>7, <2>8
      <4>2. CASE i \in DOMAIN s.queue /\ t.queue[i] = s.queue[i]
        BY <4>2, <2>2, <2>7, <2>8, <2>10 DEF Sound, Mail
      <4> QED BY <3>1, <4>1, <4>2, <2>6, <2>7
    <3> QED BY <3>1 DEF Mail
  <2>13. Sound(t)
    BY <2>2, <2>7, <2>9, <2>11, <2>12 DEF Sound
  <2> QED BY <2>2, <2>7, <2>8, <2>13 DEF t
<1> QED BY <1>2, <1>3

-----------------------------------------------------------------------------
(* What the handlers leave *)

\* The state that a handler leaves: the drag is none of its business.
Left(s, t) == Good(t) /\ t.wm.drag = s.wm.drag

LEMMA OpenDialogLeft ==
  ASSUME NEW s, Good(s), NEW k \in Dialogs
  PROVE  /\ Left(s, OpenDialog(s, k)) /\ Listed(s) \subseteq Listed(OpenDialog(s, k))
         /\ OpenDialog(s, k).wm.next \in {s.wm.next, s.wm.next + 1}
<1> DEFINE t == IF s.win[k] = NoWindow THEN NewWindow(s, k) ELSE s
<1>1. k \in Owners /\ k # "terminal" /\ "terminal" \in Owners
  BY DEF Owners, Dialogs
<1>2. s.win \in [Owners -> Nat] /\ Sound(s)
  BY RecordIs DEF Good, Sound
<1>3. /\ Sound(t) /\ Listed(s) \subseteq Listed(t) /\ t.wm.drag = s.wm.drag
      /\ t.taskbar = s.taskbar /\ t.win.terminal = s.win.terminal
      /\ t.win[k] \in Listed(t) /\ t.wm.next \in {s.wm.next, s.wm.next + 1}
  <2>1. CASE s.win[k] = NoWindow
    <3>1. t = NewWindow(s, k)
      BY <2>1
    <3>2. /\ Sound(t) /\ Listed(t) = Listed(s) \cup {s.wm.next} /\ t.wm.drag = s.wm.drag
          /\ t.taskbar = s.taskbar /\ t.win = [s.win EXCEPT ![k] = s.wm.next]
          /\ t.wm.next = s.wm.next + 1
      <4> HIDE DEF t
      <4> QED BY <1>1, <1>2, <2>1, <3>1, NewSound
    <3> HIDE DEF t
    <3> QED BY <3>2, <1>1, <1>2
  <2>2. CASE s.win[k] # NoWindow
    BY <1>1, <1>2, <2>2 DEF Sound, Pointed
  <2> QED BY <2>1, <2>2
<1> HIDE DEF t
<1>4. OpenDialog(s, k) = [t EXCEPT !.wm = BringToFront(t.wm, t.win[k])]
  BY <1>3 DEF OpenDialog, t, Sound, Record
<1>5. LET u == OpenDialog(s, k)
      IN /\ Sound(u) /\ Listed(u) = Listed(t) /\ u.wm.drag = t.wm.drag
         /\ u.win = t.win /\ u.taskbar = t.taskbar /\ u.wm.next = t.wm.next
  BY <1>3, <1>4, RaiseSound
<1> QED BY <1>3, <1>5 DEF Left, Good, Barred

LEMMA CloseDialogLeft ==
  ASSUME NEW s, Good(s), NEW k \in Dialogs
  PROVE  Left(s, CloseDialog(s, k))
<1>1. k \in Owners /\ k # "terminal" /\ "terminal" \in Owners
  BY DEF Owners, Dialogs
<1>2. s.win \in [Owners -> Nat] /\ Sound(s)
  BY RecordIs DEF Good, Sound
<1> DEFINE t == CloseDialog(s, k)
<1>3. /\ Sound(t) /\ t.wm.drag = s.wm.drag /\ t.taskbar = s.taskbar
      /\ t.win = [s.win EXCEPT ![k] = NoWindow]
  BY <1>1, <1>2, CloseSound
<1> HIDE DEF t
<1>4. t.win.terminal = s.win.terminal
  BY <1>1, <1>2, <1>3
<1>5. Left(s, t)
  BY <1>3, <1>4 DEF Left, Good, Barred
<1> QED BY <1>5 DEF t

\* Whoever reports a window that is not in the list changes nothing.
LEMMA DestroyedIsKnown ==
  ASSUME NEW s, Good(s), NEW w, w \notin Listed(s)
  PROVE  OnWindowDestroyed(s, w) = s
<1>1. CASE w # s.win.terminal
  BY <1>1 DEF OnWindowDestroyed
<1>2. CASE w = s.win.terminal
  <2>1. s.win \in [Owners -> Nat] /\ "terminal" \in Owners /\ s \in Record
    BY RecordIs DEF Good, Sound, Owners
  <2>2. w = NoWindow /\ s.taskbar = <<>>
    BY <1>2, <2>1 DEF Good, Sound, Pointed, Barred
  <2>3. Without(s.taskbar, w) = <<>>
    BY <2>2 DEF Without
  <2>4. OnWindowDestroyed(s, w) = [s EXCEPT !.taskbar = s.taskbar,
                                            !.win = [s.win EXCEPT !["terminal"] = s.win["terminal"]]]
    BY <1>2, <2>1, <2>2, <2>3 DEF OnWindowDestroyed, RemoveTaskbarWindow, Record
  <2> QED BY <2>1, <2>4 DEF Record
<1> QED BY <1>1, <1>2
\* What changes neither a window nor a pointer nor the queue nor the taskbar.
LEMMA FrameLeft ==
  ASSUME NEW s, Good(s), NEW t \in Record, t.wm = s.wm, t.win = s.win, t.queue = s.queue,
         t.kind = s.kind, t.taskbar = s.taskbar,
         \A w \in t.typing : w \in s.typing \/ (w \in Listed(s) /\ w = s.win.terminal)
  PROVE  Left(s, t) /\ Listed(t) = Listed(s)
<1>1. Listed(t) = Listed(s)
  BY DEF Listed
<1>2. Sound(t)
  BY <1>1, SoundStays DEF Good, Sound
<1> QED BY <1>1, <1>2 DEF Left, Good, Barred

\* One handler after the other.
LEMMA LeftThenLeft ==
  ASSUME NEW s, NEW t, NEW u, Left(s, t), Left(t, u)
  PROVE  Left(s, u)
BY DEF Left

\* close() of the terminal: its window leaves the list, its button the taskbar.
LEMMA CloseTerminalLeft ==
  ASSUME NEW s, Good(s)
  PROVE  Left(s, CloseTerminal(s))
<1> DEFINE q == Without(s.taskbar, s.win.terminal)
           r == RemoveTaskbarWindow(s, s.win.terminal)
           t == CloseTerminal(s)
<1>1. s \in Record /\ Sound(s) /\ s.win \in [Owners -> Nat] /\ "terminal" \in Owners
  BY RecordIs DEF Good, Sound, Owners
<1>2. q = <<>>
  <2>1. CASE s.win.terminal = NoWindow
    BY <2>1 DEF Good, Barred, Without
  <2>2. CASE s.win.terminal # NoWindow
    <3> DEFINE w == s.win.terminal
    <3>1. s.taskbar = <<w>> /\ w \in Nat
      BY <1>1, <2>2 DEF Good, Barred
    <3> HIDE DEF w
    <3>2. <<w>> \in Seq(Nat) /\ Distinct(<<w>>) /\ Range(<<w>>) = {w}
      BY <3>1 DEF Distinct, Range
    <3> DEFINE one == <<w>>
               rest == Without(one, w)
    <3>3. rest \in Seq(Nat) /\ Range(rest) = Range(one) \ {w}
      <4> HIDE DEF one
      <4> QED BY <3>2, WithoutIs DEF one
    <3> HIDE DEF rest
    <3>4. \A i \in 1..Len(rest) : FALSE
      <4>1. Range(rest) = {}
        BY <3>2, <3>3
      <4>2. ASSUME NEW i \in 1..Len(rest) PROVE rest[i] \in Range(rest)
        BY <3>3 DEF Range
      <4> QED BY <4>1, <4>2
    <3>5. rest = <<>>
      BY <3>3, <3>4
    <3> QED BY <3>1, <3>5 DEF w, rest
  <2> QED BY <2>1, <2>2
<1>3. r = [s EXCEPT !.taskbar = q]
  BY <1>1 DEF RemoveTaskbarWindow, Record
<1> HIDE DEF q, r
<1>4. /\ r \in Record /\ r.wm = s.wm /\ r.win = s.win /\ r.queue = s.queue /\ r.kind = s.kind
      /\ r.typing = s.typing /\ r.taskbar = <<>>
  <2>1. q \in Seq(Nat)
    BY <1>2
  <2> QED BY <1>1, <1>2, <1>3, <2>1 DEF Record
<1>5. Sound(r)
  BY <1>1, <1>4, SoundStays DEF Listed, Sound
<1>6. t = CloseDialog(r, "terminal")
  BY DEF CloseTerminal, r
<1> HIDE DEF t
<1>7. /\ Sound(t) /\ t.wm.drag = r.wm.drag /\ t.win = [r.win EXCEPT !["terminal"] = NoWindow]
      /\ t.taskbar = r.taskbar
  BY <1>1, <1>5, <1>6, CloseSound
<1>8. t.win.terminal = NoWindow
  BY <1>1, <1>4, <1>7
<1>9. Left(s, t)
  BY <1>4, <1>7, <1>8 DEF Left, Good, Barred
<1> QED BY <1>9 DEF t

\* open() of the terminal, for who has no window in the list.
LEMMA OpenTerminalLeft ==
  ASSUME NEW s, Good(s), ~ WindowStillAlive(s)
  PROVE  Left(s, OpenTerminal(s))
<1>1. s \in Record /\ Sound(s) /\ s.win \in [Owners -> Nat] /\ "terminal" \in Owners
  BY RecordIs DEF Good, Sound, Owners
<1>2. s.win.terminal = NoWindow
  <2>1. s.win.terminal \in Listed(s) \cup {NoWindow}
    BY <1>1 DEF Sound, Pointed
  <2> QED BY <2>1 DEF WindowStillAlive, WindowById, Listed
<1>3. OnWindowDestroyed(s, s.win.terminal) = s
  BY <1>1, <1>2, DestroyedIsKnown, ListedIs
<1> DEFINE t == NewWindow(s, "terminal")
           w == t.win.terminal
           u == [t EXCEPT !.wm = BringToFront(t.wm, w)]
           v == OpenTerminal(s)
<1>4. /\ Sound(t) /\ Listed(t) = Listed(s) \cup {s.wm.next} /\ t.wm.drag = s.wm.drag
      /\ t.win = [s.win EXCEPT !["terminal"] = s.wm.next] /\ t.taskbar = s.taskbar
  BY <1>1, <1>2, NewSound
<1>5. v = AddTaskbarWindow(u, w)
  <2>1. \A x : [t EXCEPT !.wm = BringToFront(@, x)] = [t EXCEPT !.wm = BringToFront(t.wm, x)]
    <3> HIDE DEF t
    <3> QED BY <1>4 DEF Sound, Record
  <2> QED BY <1>3, <2>1 DEF OpenTerminal
<1> HIDE DEF t
<1>6. w \in Listed(t) /\ w = s.wm.next /\ w \in Nat /\ w # NoWindow
  BY <1>1, <1>4, ListedIs DEF NoWindow
<1>7. /\ Sound(u) /\ u.wm.drag = t.wm.drag /\ u.win = t.win /\ u.taskbar = <<>>
  <2>1. t.taskbar = <<>>
    BY <1>2, <1>4 DEF Good, Barred
  <2> HIDE DEF w
  <2> QED BY <1>4, <1>6, <2>1, RaiseSound
<1> HIDE DEF u, v, w
<1>8. /\ v \in Record /\ v.wm = u.wm /\ v.win = u.win /\ v.queue = u.queue /\ v.kind = u.kind
      /\ v.typing = u.typing /\ v.taskbar = <<w>>
  <2>1. v = [u EXCEPT !.taskbar = <<w>>] /\ <<w>> \in Seq(Nat)
    BY <1>5, <1>6, <1>7 DEF AddTaskbarWindow, Sound, Record
  <2> DEFINE bar == <<w>>
  <2> HIDE DEF bar
  <2>2. v = [u EXCEPT !.taskbar = bar] /\ bar \in Seq(Nat)
    BY <2>1 DEF bar
  <2>3. /\ v \in Record /\ v.wm = u.wm /\ v.win = u.win /\ v.queue = u.queue /\ v.kind = u.kind
        /\ v.typing = u.typing /\ v.taskbar = bar
    BY <1>7, <2>2 DEF Sound, Record
  <2> QED BY <2>3 DEF bar
<1>9. Sound(v)
  BY <1>7, <1>8, SoundStays DEF Listed, Sound
<1>10. Left(s, v)
  BY <1>4, <1>6, <1>7, <1>8, <1>9 DEF Left, Good, Barred, w
<1> QED BY <1>10 DEF v

LEMMA ToggleTerminalLeft ==
  ASSUME NEW s, Good(s)
  PROVE  Left(s, ToggleTerminal(s))
BY CloseTerminalLeft, OpenTerminalLeft DEF ToggleTerminal

LEMMA ChosenLeft ==
  ASSUME NEW s, Good(s), NEW k \in Dialogs, NEW t \in Chosen(s, k)
  PROVE  Left(s, t)
<1>1. Left(s, s)
  BY DEF Left
<1>2. Left(s, CloseDialog(s, k))
  BY CloseDialogLeft
<1>3. ASSUME t \in CreateOwner(s) PROVE Left(s, t)
  <2> DEFINE u == [s EXCEPT !.enrolled = TRUE]
  <2>1. s \in Record
    BY DEF Good, Sound
  <2>2. /\ u \in Record /\ u.wm = s.wm /\ u.win = s.win /\ u.queue = s.queue /\ u.kind = s.kind
        /\ u.taskbar = s.taskbar /\ u.typing = s.typing
    BY <2>1 DEF Record
  <2> HIDE DEF u
  <2>3. Left(s, u)
    BY <2>2, FrameLeft
  <2>4. Left(u, CloseDialog(u, "setup"))
    BY <2>3, CloseDialogLeft DEF Left, Dialogs
  <2>5. t \in {s, u, CloseDialog(u, "setup")}
    BY <1>3 DEF CreateOwner, u
  <2> QED BY <1>1, <2>3, <2>4, <2>5, LeftThenLeft
<1> QED BY <1>1, <1>2, <1>3 DEF Chosen

LEMMA SlidLeft ==
  ASSUME NEW s, Good(s), NEW t \in Slid(s)
  PROVE  Left(s, t)
<1>1. "login" \in Dialogs /\ Left(s, s)
  BY DEF Dialogs, Left
<1> QED BY <1>1, OpenDialogLeft, CloseDialogLeft DEF Slid
-----------------------------------------------------------------------------
(* What the mouse does to a window's controls *)

\* Only a terminal has a text box, and only dialogs have a choice.
LEMMA ControlsAre ==
  ASSUME NEW k \in Kinds
  PROVE  /\ Controls(k) \subseteq Spots
         /\ \A c \in Controls(k) : c \in Buttons[k] \/ c \in {"slider", "input", Body}
         /\ "input" \in Controls(k) => k = "terminal"
         /\ \A c \in Buttons[k] : c \in {"openTerminal", "close"} \/ (c = "choose" /\ k \in Dialogs)
         /\ \A c \in Buttons[k] : c \notin {"slider", "input", Body}
<1>1. Controls(k) = Buttons[k] \cup Others[k] \cup {"body"} /\ Body = "body"
  BY DEF Controls, Body
<1>2. CASE k = "desktop"
  <2>1. Buttons[k] = {"openTerminal"} /\ Others[k] = {"slider"}
    BY <1>2 DEF Buttons, Others
  <2> QED BY <1>1, <1>2, <2>1 DEF Spots
<1>3. CASE k = "terminal"
  <2>1. Buttons[k] = {"close"} /\ Others[k] = {"input"}
    BY <1>3 DEF Buttons, Others
  <2> QED BY <1>1, <1>3, <2>1 DEF Spots
<1>4. CASE k \in Dialogs
  <2>1. Buttons[k] = {"choose"} /\ Others[k] = {}
    BY <1>4 DEF Buttons, Others, Dialogs
  <2> QED BY <1>1, <1>4, <2>1 DEF Spots
<1>5. CASE k = "none"
  <2>1. Buttons[k] = {} /\ Others[k] = {}
    BY <1>5 DEF Buttons, Others
  <2> QED BY <1>1, <1>5, <2>1 DEF Spots
<1> QED BY <1>2, <1>3, <1>4, <1>5 DEF Kinds, Owners

LEMMA ClickedLeft ==
  ASSUME NEW s, Good(s), NEW w \in Ids, NEW c \in Buttons[s.kind[w]], NEW t \in Clicked(s, w, c)
  PROVE  Left(s, t)
<1>1. s.kind[w] \in Kinds
  BY RecordIs DEF Good, Sound
<1>2. c \in {"openTerminal", "close"} \/ (c = "choose" /\ s.kind[w] \in Dialogs)
  BY <1>1, ControlsAre
<1>3. CASE c = "openTerminal"
  BY <1>3, ToggleTerminalLeft DEF Clicked
<1>4. CASE c = "close"
  BY <1>4, CloseTerminalLeft DEF Clicked
<1>5. CASE c = "choose" /\ s.kind[w] \in Dialogs
  BY <1>5, ChosenLeft DEF Clicked
<1> QED BY <1>2, <1>3, <1>4, <1>5

\* A press changes what is held and who types, which is the terminal or nobody;
\* the right button changes nothing.
LEMMA MouseDownLeft ==
  ASSUME NEW s, Good(s), NEW w \in Listed(s) \cap Ids, NEW c \in Controls(s.kind[w]), NEW button,
         NEW t \in MouseDown(s, w, c, button)
  PROVE  Left(s, t) /\ (button = "right" => t = s)
<1>1. s \in Record /\ s.kind[w] \in Kinds /\ Left(s, s)
  BY RecordIs DEF Good, Sound, Left
<1>2. CASE button # "left" \/ c = Body
  BY <1>1, <1>2 DEF MouseDown, Body
<1>3. CASE ~ (button # "left" \/ c = Body)
  <2> DEFINE typing == IF c = "input" THEN s.typing \cup {w} ELSE s.typing \ {w}
             a == [s EXCEPT !.captured = [s.captured EXCEPT ![w] = c], !.typing = typing]
             b == [a EXCEPT !.pressed = a.pressed \cup {<<w, c>>}]
  <2>1. c \in Spots /\ (c \in Buttons[s.kind[w]] \/ c \in {"slider", "input"})
        /\ "slider" \notin Buttons[s.kind[w]] /\ "input" \notin Buttons[s.kind[w]]
        /\ (c = "input" => s.kind[w] = "terminal")
    BY <1>1, <1>3, ControlsAre
  <2>2. typing \in SUBSET Ids /\ [s.captured EXCEPT ![w] = c] \in [Ids -> Spots]
    BY <1>1, <2>1, RecordIs
  <2>3. \A x \in typing : x \in s.typing \/ (x \in Listed(s) /\ x = s.win.terminal)
    BY <2>1 DEF Good, Sound, Terminals
  <2> HIDE DEF typing
  <2>4. /\ a \in Record /\ a.wm = s.wm /\ a.win = s.win /\ a.queue = s.queue /\ a.kind = s.kind
        /\ a.taskbar = s.taskbar /\ a.typing = typing
    BY <1>1, <2>2 DEF Record
  <2> HIDE DEF a
  <2>5. a.pressed \cup {<<w, c>>} \in SUBSET (Ids \X Spots)
    BY <2>1, <2>4, RecordIs
  <2>6. /\ b \in Record /\ b.wm = s.wm /\ b.win = s.win /\ b.queue = s.queue /\ b.kind = s.kind
        /\ b.taskbar = s.taskbar /\ b.typing = typing
    BY <2>4, <2>5 DEF Record
  <2> HIDE DEF b
  <2>7. Left(s, a) /\ Left(s, b)
    BY <2>3, <2>4, <2>6, FrameLeft
  <2>8. \A u \in Slid(a) : Left(s, u)
    BY <2>7, SlidLeft, LeftThenLeft DEF Left
  <2>9. t \in {a, b} \cup Slid(a)
    <3>1. MouseDown(s, w, c, button) =
            CASE c = "slider" -> {b} \cup Slid(a) [] c = "input" -> {a} [] c \in Buttons[s.kind[w]] -> {b}
      BY <1>1, <1>3, <2>4 DEF MouseDown, Record, a, b, typing, Body
    <3> QED BY <2>1, <3>1
  <2> QED BY <1>3, <2>7, <2>8, <2>9
<1> QED BY <1>2, <1>3

\* A release that the control was pressed for; with the right button it clicks
\* nothing.
LEMMA ReleasedLeft ==
  ASSUME NEW s, Good(s), NEW w \in Ids, NEW c, NEW button, NEW near,
         NEW t \in Released(s, w, c, button, near)
  PROVE  Left(s, t) /\ (button = "right" => Listed(t) = Listed(s))
<1>1. s \in Record /\ s.kind[w] \in Kinds /\ Left(s, s)
  BY RecordIs DEF Good, Sound, Left
<1> DEFINE ignored == <<w, c>> \notin s.pressed \/ (button # "left" /\ c # "slider")
<1>2. CASE ignored
  BY <1>1, <1>2 DEF Released
<1>3. CASE ~ ignored
  <2> DEFINE a == [s EXCEPT !.pressed = s.pressed \ {<<w, c>>}]
  <2>1. /\ a \in Record /\ a.wm = s.wm /\ a.win = s.win /\ a.queue = s.queue /\ a.kind = s.kind
        /\ a.taskbar = s.taskbar /\ a.typing = s.typing
    BY <1>1 DEF Record
  <2>2. Released(s, w, c, button, near) =
          IF near /\ c \in Buttons[s.kind[w]] THEN Clicked(a, w, c) ELSE {a}
    BY <1>1, <1>3 DEF Released, Record
  <2> HIDE DEF a
  <2>3. Left(s, a) /\ Listed(a) = Listed(s)
    BY <2>1, FrameLeft
  <2>4. CASE near /\ c \in Buttons[s.kind[w]]
    <3>1. Left(a, t)
      BY <2>1, <2>2, <2>3, <2>4, ClickedLeft DEF Left
    <3>2. button # "right"
      <4>1. "slider" \notin Buttons[s.kind[w]]
        BY <1>1, ControlsAre
      <4> QED BY <1>3, <2>4, <4>1
    <3> QED BY <2>3, <3>1, <3>2, LeftThenLeft
  <2>5. CASE ~ (near /\ c \in Buttons[s.kind[w]])
    BY <2>2, <2>3, <2>5
  <2> QED BY <2>4, <2>5
<1> QED BY <1>2, <1>3

LEMMA MouseUpLeft ==
  ASSUME NEW s, Good(s), NEW w \in Ids, NEW c, NEW button, NEW slop,
         NEW t \in MouseUp(s, w, c, button, slop)
  PROVE  Left(s, t) /\ (button = "right" => Listed(t) = Listed(s))
<1> DEFINE held == s.captured[w]
           under == Released(s, w, c, button, TRUE)
           both == IF held = c THEN under ELSE UNION {Released(u, w, held, button, slop) : u \in under}
<1>1. ASSUME NEW u \in under PROVE Left(s, u) /\ (button = "right" => Listed(u) = Listed(s))
  <2>1. \A near, v : v \in Released(s, w, c, button, near) =>
          Left(s, v) /\ (button = "right" => Listed(v) = Listed(s))
    BY ReleasedLeft
  <2> QED BY <2>1
<1>2. ASSUME NEW u \in both PROVE Left(s, u) /\ (button = "right" => Listed(u) = Listed(s))
  <2>1. CASE held = c
    BY <1>1, <1>2, <2>1
  <2>2. CASE held # c
    <3>1. PICK a \in under : u \in Released(a, w, held, button, slop)
      BY <1>2, <2>2
    <3> HIDE DEF under, held
    <3>2. Left(s, a) /\ (button = "right" => Listed(a) = Listed(s))
      BY <1>1, <3>1
    <3>3. Left(a, u) /\ (button = "right" => Listed(u) = Listed(a))
      BY <3>1, <3>2, ReleasedLeft DEF Left
    <3> QED BY <3>2, <3>3, LeftThenLeft
  <2> QED BY <2>1, <2>2
<1>3. PICK u \in both : t = [u EXCEPT !.captured = [u.captured EXCEPT ![w] = Body]]
  <2>1. \A u : u.captured = u.captured
    OBVIOUS
  <2>2. PICK u \in both : t = [u EXCEPT !.captured[w] = Body]
    BY DEF MouseUp
  <2>3. u \in Record
    BY <1>2, <2>2 DEF Left, Good, Sound
  <2> HIDE DEF both
  <2> QED BY <2>2, <2>3 DEF Record
<1> HIDE DEF both
<1>4. Left(s, u) /\ (button = "right" => Listed(u) = Listed(s)) /\ u \in Record
  BY <1>2, <1>3 DEF Left, Good, Sound
<1>5. [u.captured EXCEPT ![w] = Body] \in [Ids -> Spots]
  BY <1>4 DEF Record, Spots
<1>6. /\ t \in Record /\ t.wm = u.wm /\ t.win = u.win /\ t.queue = u.queue /\ t.kind = u.kind
      /\ t.taskbar = u.taskbar /\ t.typing = u.typing
  BY <1>3, <1>4, <1>5 DEF Record
<1>7. Left(u, t) /\ Listed(t) = Listed(u)
  BY <1>4, <1>6, FrameLeft DEF Left
<1> QED BY <1>4, <1>7, LeftThenLeft

\* What the handlers of a window leave of an event at one of its controls.
LEMMA HandlersLeft ==
  ASSUME NEW s, Good(s), NEW w \in Listed(s) \cap Ids, NEW c \in Controls(s.kind[w]),
         NEW type \in {"down", "up", "move"}, NEW button, NEW slop,
         NEW t \in Handlers(s, w, c, type, button, slop)
  PROVE  Left(s, t) /\ (button = "right" /\ type # "move" => Listed(t) = Listed(s))
<1>1. CASE type = "down"
  BY <1>1, MouseDownLeft DEF Handlers
<1>2. CASE type = "up"
  BY <1>2, MouseUpLeft DEF Handlers
<1>3. CASE type = "move"
  <2>1. t \in {s} \cup Slid(s)
    BY <1>3 DEF Handlers, MouseMove
  <2>2. Left(s, s)
    BY DEF Left
  <2> QED BY <1>3, <2>1, <2>2, SlidLeft
<1> QED BY <1>1, <1>2, <1>3
-----------------------------------------------------------------------------
(* Around the handlers *)

\* A window of the list has a number within the bound.
LEMMA ListedInIds ==
  ASSUME NEW s, Good(s), s.wm.next <= MaxWindows + 1
  PROVE  Listed(s) \subseteq Ids
<1>1. Listed(s) \subseteq 1 .. s.wm.next - 1 /\ s.wm.next \in Nat \ {0}
  BY ListedIs DEF Good
<1> QED BY <1>1, WindowsAssumption DEF Ids

\* The manager raises the window that is pressed, and counts the dispatch.
LEMMA ManagerLeft ==
  ASSUME NEW s, Good(s), NEW n, Managed(n), Range(n.list) = Listed(s), n.next = s.wm.next
  PROVE  LET t == [s EXCEPT !.wm = n]
         IN /\ Good(t) /\ Listed(t) = Listed(s) /\ t.wm = n /\ t.kind = s.kind
            /\ t.win = s.win /\ t.taskbar = s.taskbar /\ t.queue = s.queue /\ t.typing = s.typing
<1> DEFINE t == [s EXCEPT !.wm = n]
<1>1. /\ t \in Record /\ t.wm = n /\ t.win = s.win /\ t.queue = s.queue /\ t.kind = s.kind
      /\ t.taskbar = s.taskbar /\ t.typing = s.typing
  BY DEF Good, Sound, Managed, Record
<1> HIDE DEF t
<1>2. Listed(t) = Listed(s)
  BY <1>1 DEF Listed
<1>3. Sound(t)
  BY <1>1, <1>2, SoundStays DEF Good
<1>4. Good(t)
  BY <1>1, <1>3 DEF Good, Barred
<1> QED BY <1>1, <1>2, <1>4 DEF t

LEMMA TargetLeft ==
  ASSUME NEW s, Good(s), NEW type, NEW w \in Listed(s)
  PROVE  LET t == [s EXCEPT !.wm = Target(s.wm, type, w)]
         IN /\ Good(t) /\ Listed(t) = Listed(s) /\ t.kind = s.kind
            /\ t.wm.next = s.wm.next /\ t.wm.drag = s.wm.drag
<1> DEFINE n == Target(s.wm, type, w)
<1>1. /\ Managed(n) /\ Range(n.list) = Listed(s) /\ n.next = s.wm.next /\ n.drag = s.wm.drag
  BY RaiseManaged DEF Good, Sound, Listed, Target
<1> HIDE DEF n
<1>2. LET t == [s EXCEPT !.wm = n] IN Good(t) /\ Listed(t) = Listed(s) /\ t.wm = n /\ t.kind = s.kind
  BY <1>1, ManagerLeft
<1> QED BY <1>1, <1>2 DEF n

LEMMA EnterLeft ==
  ASSUME NEW s, Good(s)
  PROVE  LET t == [s EXCEPT !.wm = EnterDispatch(s.wm)]
         IN /\ Good(t) /\ Listed(t) = Listed(s) /\ t.kind = s.kind
            /\ t.wm.next = s.wm.next /\ t.wm.drag = s.wm.drag /\ t.typing = s.typing
            /\ t.win = s.win
<1> DEFINE n == EnterDispatch(s.wm)
<1>1. /\ Managed(n) /\ Range(n.list) = Listed(s) /\ n.next = s.wm.next /\ n.drag = s.wm.drag
  BY EnterManaged DEF Good, Sound, Listed
<1> HIDE DEF n
<1>2. LET t == [s EXCEPT !.wm = n] IN Good(t) /\ Listed(t) = Listed(s) /\ t.wm = n /\ t.kind = s.kind
        /\ t.typing = s.typing /\ t.win = s.win
  BY <1>1, ManagerLeft
<1> QED BY <1>1, <1>2 DEF n

\* A drag begins or ends.
LEMMA DragLeft ==
  ASSUME NEW s, Good(s), NEW d \in Nat
  PROVE  LET t == [s EXCEPT !.wm = [s.wm EXCEPT !.drag = d]]
         IN Good(t) /\ Listed(t) = Listed(s) /\ t.wm.next = s.wm.next /\ t.wm.drag = d
<1> DEFINE n == [s.wm EXCEPT !.drag = d]
<1>1. /\ n \in WindowManager /\ n.list = s.wm.list /\ n.focus = s.wm.focus /\ n.pending = s.wm.pending
      /\ n.live = s.wm.live /\ n.next = s.wm.next /\ n.drag = d
  BY DEF Good, Sound, Managed, WindowManager
<1> HIDE DEF n
<1>2. Managed(n) /\ Range(n.list) = Listed(s)
  BY <1>1 DEF Good, Sound, Managed, Listed
<1>3. LET t == [s EXCEPT !.wm = n] IN Good(t) /\ Listed(t) = Listed(s) /\ t.wm = n
  BY <1>1, <1>2, ManagerLeft
<1> QED BY <1>1, <1>3 DEF n

\* What is swept belonged to windows that are gone.
LEMMA SweptLeft ==
  ASSUME NEW s, Good(s)
  PROVE  Left(s, Swept(s)) /\ Listed(Swept(s)) = Listed(s) /\ Swept(s).wm.next = s.wm.next
<1> DEFINE pressed == {p \in s.pressed : p[1] \in s.wm.live}
           captured == [w \in Ids |-> IF w \in s.wm.live THEN s.captured[w] ELSE Body]
           typing == s.typing \cap s.wm.live
           kind == [w \in Ids |-> IF w \in s.wm.live THEN s.kind[w] ELSE "none"]
           t == Swept(s)
<1>1. s \in Record /\ Sound(s)
  BY DEF Good, Sound
<1>2. t = [s EXCEPT !.pressed = pressed, !.captured = captured, !.typing = typing, !.kind = kind]
  BY <1>1 DEF Swept, Record
<1>3. pressed \in SUBSET (Ids \X Spots) /\ captured \in [Ids -> Spots] /\ typing \in SUBSET Ids
      /\ kind \in [Ids -> Kinds] /\ typing \subseteq s.typing
      /\ \A w \in s.wm.live \cap Ids : kind[w] = s.kind[w]
  BY <1>1, RecordIs DEF Spots, Kinds
<1> HIDE DEF pressed, captured, typing, kind, t
<1>4. /\ t \in Record /\ t.wm = s.wm /\ t.win = s.win /\ t.queue = s.queue /\ t.kind = kind
      /\ t.taskbar = s.taskbar /\ t.typing = typing
  BY <1>1, <1>2, <1>3 DEF Record
<1>5. Listed(t) = Listed(s) /\ Listed(s) \subseteq s.wm.live
  BY <1>1, <1>4 DEF Listed, Sound, Managed
<1>6. Terminals(t)
  BY <1>1, <1>3, <1>4, <1>5 DEF Sound, Terminals
<1>7. Pointed(t) /\ Mail(t)
  BY <1>1, <1>4, <1>5 DEF Sound, Pointed, Mail
<1>8. Left(s, t)
  BY <1>1, <1>4, <1>6, <1>7 DEF Left, Good, Sound, Barred
<1> QED BY <1>4, <1>5, <1>8 DEF t

\* Windows stay in the list when a message is posted.
LEMMA PostLeft ==
  ASSUME NEW s, Good(s), NEW msg \in Message, msg.id < s.wm.next,
         msg.what \in {"request", "line"} /\ msg.id \in Listed(s) => msg.id = s.win.terminal,
         msg.what = "destroyed" => msg.id \notin Listed(s)
  PROVE  Left(s, Post(s, msg)) /\ Listed(Post(s, msg)) = Listed(s)
         /\ Post(s, msg).wm.next = s.wm.next /\ Post(s, msg).win = s.win
<1> DEFINE t == Post(s, msg)
<1>1. t.wm = s.wm /\ t.win = s.win /\ t.taskbar = s.taskbar
  BY PostIs DEF Good, Sound
<1>2. Sound(t)
  BY PostSound DEF Good
<1> HIDE DEF t
<1>3. Left(s, t) /\ Listed(t) = Listed(s)
  BY <1>1, <1>2 DEF Left, Good, Barred, Listed
<1> QED BY <1>1, <1>3 DEF t

\* The first message is taken from the queue; what is in the queue is known of it.
LEMMA TakeLeft ==
  ASSUME NEW s, Good(s), s.queue # <<>>
  PROVE  LET t == [s EXCEPT !.queue = Tail(s.queue)]
             msg == Head(s.queue)
         IN /\ Left(s, t) /\ Listed(t) = Listed(s) /\ t.wm = s.wm /\ t.win = s.win
            /\ msg \in Message /\ msg.id < s.wm.next
            /\ msg.what \in {"request", "line"} /\ msg.id \in Listed(s) => msg.id = s.win.terminal
            /\ msg.what = "destroyed" => msg.id \notin Listed(s)
<1> DEFINE q == Tail(s.queue)
           t == [s EXCEPT !.queue = q]
<1>1. s \in Record /\ Sound(s) /\ s.queue \in Seq(Message)
  BY RecordIs DEF Good, Sound
<1>2. q \in Seq(Message) /\ \A i \in DOMAIN q : i + 1 \in DOMAIN s.queue /\ q[i] = s.queue[i + 1]
  BY <1>1
<1>3. Head(s.queue) = s.queue[1] /\ 1 \in DOMAIN s.queue /\ s.queue[1] \in Message
  BY <1>1
<1> HIDE DEF q
<1>4. /\ t \in Record /\ t.wm = s.wm /\ t.win = s.win /\ t.queue = q /\ t.kind = s.kind
      /\ t.taskbar = s.taskbar /\ t.typing = s.typing
  BY <1>1, <1>2 DEF Record
<1> HIDE DEF t
<1>5. Listed(t) = Listed(s)
  BY <1>4 DEF Listed
<1>6. Mail(t)
  BY <1>1, <1>2, <1>4, <1>5 DEF Sound, Mail
<1>7. Left(s, t)
  BY <1>1, <1>4, <1>5, <1>6 DEF Left, Good, Sound, Pointed, Terminals, Barred
<1>8. LET msg == Head(s.queue)
      IN /\ msg.id < s.wm.next
         /\ msg.what \in {"request", "line"} /\ msg.id \in Listed(s) => msg.id = s.win.terminal
         /\ msg.what = "destroyed" => msg.id \notin Listed(s)
  BY <1>1, <1>3 DEF Sound, Mail
<1> QED BY <1>3, <1>4, <1>5, <1>7, <1>8 DEF t, q
-----------------------------------------------------------------------------
(* The steps *)

Within(s) == Good(s) /\ s.wm.next <= MaxWindows + 1

LEMMA InitInvariant == Init => IInv
<1> SUFFICES ASSUME Init PROVE IInv
  OBVIOUS
<1>1. Managed(NewManager) /\ NewManager.next = 1 /\ NewManager.drag = NoWindow
      /\ Range(NewManager.list) = {}
  <2>1. NewManager \in WindowManager
    BY DEF NewManager, WindowManager, NoWindow
  <2> QED BY <2>1 DEF NewManager, Managed, Distinct, Range
<1> DEFINE m == CreateWindow(NewManager)
<1>2. Managed(m) /\ Range(m.list) = {1} /\ m.next = 2 /\ m.drag = NoWindow
  BY <1>1, CreateManaged
<1> HIDE DEF m
<1>3. ASSUME NEW e \in BOOLEAN
      PROVE  Within(Initialized(e)) /\ Initialized(e).wm.drag = NoWindow
  <2> DEFINE kind == [w \in Ids |-> IF w = Desktop THEN "desktop" ELSE "none"]
             captured == [w \in Ids |-> Body]
             pointers == [k \in Owners |-> NoWindow]
             s == [wm |-> m, kind |-> kind, pressed |-> {}, captured |-> captured, typing |-> {},
                   win |-> pointers, taskbar |-> <<>>, enrolled |-> e, queue |-> <<>>]
  <2>1. /\ kind \in [Ids -> Kinds] /\ captured \in [Ids -> Spots] /\ pointers \in [Owners -> Nat]
        /\ \A w \in Ids : kind[w] # "terminal"
        /\ \A k \in Owners : pointers[k] = NoWindow
        /\ pointers.terminal = NoWindow
    BY DEF Kinds, Owners, Dialogs, Spots, NoWindow
  <2>2. Initialized(e) = IF e THEN s ELSE OpenDialog(s, "setup")
    BY DEF Initialized, m
  <2> HIDE DEF kind, captured, pointers
  <2>3. /\ s \in Record /\ s.wm = m /\ s.kind = kind /\ s.typing = {} /\ s.win = pointers
        /\ s.taskbar = <<>> /\ s.queue = <<>>
    BY <1>2, <2>1 DEF Record, Managed
  <2> HIDE DEF s
  <2>4. Good(s)
    BY <1>2, <2>1, <2>3 DEF Good, Sound, Pointed, Terminals, Mail, Barred, Listed
  <2>5. Left(s, OpenDialog(s, "setup")) /\ OpenDialog(s, "setup").wm.next \in {2, 3}
    BY <1>2, <2>3, <2>4, OpenDialogLeft DEF Dialogs
  <2> QED BY <1>2, <2>2, <2>3, <2>4, <2>5, DesktopAssumption, WindowsAssumption DEF Left, Within
<1>4. Within(ui) /\ ui.wm.drag = NoWindow
  BY <1>3 DEF Init
<1> QED BY <1>4 DEF Init, IInv, Within, Dragged

\* An event of the mouse that hits a window, or that the drag takes.
LEMMA RouteLeft ==
  ASSUME Within(ui), NEW type \in {"down", "up", "move"}, NEW button, RouteMouse(type, button)
  PROVE  /\ Within(ui')
         /\ \/ /\ DragTakes(ui.wm, type, button)
               /\ Listed(ui') = Listed(ui)
               /\ ui'.wm.drag = IF type = "up" THEN NoWindow ELSE ui.wm.drag
            \/ /\ ~ DragTakes(ui.wm, type, button)
               /\ ui'.wm.drag = ui.wm.drag
               /\ button = "right" /\ type # "move" => Listed(ui') = Listed(ui)
            \/ type = "down" /\ button = "left" /\ ui'.wm.drag \in Listed(ui')
<1>1. ui \in Record /\ ui.wm \in WindowManager /\ Good(ui)
  BY DEF Within, Good, Sound, Managed
<1>2. CASE DragTakes(ui.wm, type, button)
  <2>1. ui' = [ui EXCEPT !.wm = DragEvent(ui.wm, type)]
    BY <1>1, <1>2 DEF RouteMouse, Record
  <2>2. CASE type = "up"
    <3>1. ui' = [ui EXCEPT !.wm = [ui.wm EXCEPT !.drag = NoWindow]]
      BY <2>1, <2>2 DEF DragEvent
    <3> QED BY <1>1, <1>2, <2>2, <3>1, DragLeft DEF NoWindow, Within
  <2>3. CASE type # "up"
    <3>1. ui' = ui
      BY <1>1, <2>1, <2>3 DEF DragEvent, Record
    <3> QED BY <1>2, <2>3, <3>1
  <2> QED BY <2>2, <2>3
<1>3. CASE ~ DragTakes(ui.wm, type, button)
  <2>1. PICK w \in Range(ui.wm.list) : \E c \in Controls(ui.kind[w]), slop \in BOOLEAN :
          LET s == [ui EXCEPT !.wm = Target(ui.wm, type, w)]
              in == [s EXCEPT !.wm = EnterDispatch(s.wm)]
          IN \/ type = "down" /\ button = "left" /\ TitleBarDown(s, w, c)
             \/ Dispatch(s, w, Handlers(in, w, c, type, button, slop))
    <3>1. \A x : [ui EXCEPT !.wm = x].wm = x
      BY <1>1 DEF Record
    <3> QED BY <1>1, <1>3, <3>1 DEF RouteMouse, Record
  <2> DEFINE s == [ui EXCEPT !.wm = Target(ui.wm, type, w)]
             in == [s EXCEPT !.wm = EnterDispatch(s.wm)]
  <2> PICK c \in Controls(ui.kind[w]), slop \in BOOLEAN :
             \/ type = "down" /\ button = "left" /\ TitleBarDown(s, w, c)
             \/ Dispatch(s, w, Handlers(in, w, c, type, button, slop))
    BY <2>1
  <2>2. w \in Listed(ui) \cap Ids
    BY <2>1, <1>1, ListedInIds DEF Listed, Within
  <2>3. /\ Good(s) /\ Listed(s) = Listed(ui) /\ s.kind = ui.kind /\ s.wm.next = ui.wm.next
        /\ s.wm.drag = ui.wm.drag
    BY <1>1, <2>2, TargetLeft
  <2>4. \/ type = "down" /\ button = "left" /\ TitleBarDown(s, w, c)
        \/ Dispatch(s, w, Handlers(in, w, c, type, button, slop))
    OBVIOUS
  <2> HIDE DEF s
  <2>5. /\ Good(in) /\ Listed(in) = Listed(s) /\ in.kind = s.kind /\ in.wm.drag = s.wm.drag
    BY <2>3, EnterLeft
  <2> HIDE DEF in
  <2>6. CASE Dispatch(s, w, Handlers(in, w, c, type, button, slop))
    <3>1. ui' \in Handlers(in, w, c, type, button, slop) /\ ui'.wm.next <= MaxWindows + 1
      BY <2>6 DEF Dispatch, Bounded
    <3>2. Left(in, ui') /\ (button = "right" /\ type # "move" => Listed(ui') = Listed(in))
      BY <2>2, <2>3, <2>5, <3>1, HandlersLeft
    <3> QED BY <1>3, <2>3, <2>5, <3>1, <3>2 DEF Left, Within
  <2>7. CASE type = "down" /\ button = "left" /\ TitleBarDown(s, w, c)
    <3>1. CASE Handled(c, "left")
      <4>1. ui' \in MouseDown(s, w, c, "left") /\ ui'.wm.next <= MaxWindows + 1
        BY <2>7, <3>1 DEF TitleBarDown, Dispatch, Bounded
      <4>2. Left(s, ui')
        BY <2>2, <2>3, <4>1, MouseDownLeft
      <4> QED BY <1>3, <2>3, <2>7, <4>1, <4>2 DEF Left, Within
    <3>2. CASE ~ Handled(c, "left")
      <4>1. s \in Record /\ s.wm \in WindowManager
        BY <2>3 DEF Good, Sound, Managed
      <4>2. ui' = [s EXCEPT !.wm = [s.wm EXCEPT !.drag = w]]
        BY <2>7, <3>2, <4>1 DEF TitleBarDown, Record
      <4>3. w \in Nat
        BY <2>2 DEF Ids
      <4> QED BY <2>2, <2>3, <2>7, <4>2, <4>3, DragLeft DEF Within
    <3> QED BY <3>1, <3>2
  <2> QED BY <2>4, <2>6, <2>7
<1> QED BY <1>2, <1>3

LEMMA NextInvariant == IInv /\ [Next]_vars => IInv'
<1> SUFFICES ASSUME IInv, [Next]_vars PROVE IInv'
  OBVIOUS
<1>1. Within(ui) /\ Good(ui) /\ left \in BOOLEAN /\ lost \in Nat /\ strays = {} /\ Dragged
  BY DEF IInv, Within
<1>2. ui \in Record /\ Sound(ui) /\ Managed(ui.wm) /\ ui.wm \in WindowManager /\ ui.wm.next \in Nat
  BY <1>1 DEF Good, Sound, Managed, WindowManager
<1> SUFFICES /\ Within(ui') /\ left' \in BOOLEAN /\ lost' \in Nat /\ strays' = {}
             /\ lost' = 0 /\ ui'.wm.drag # NoWindow => left' /\ ui'.wm.drag \in Listed(ui')
  BY DEF IInv, Within, Dragged
<1>3. CASE LeftButton
  <2>1. /\ left' = ~left /\ lost' = lost /\ strays' = strays
        /\ RouteMouse(IF left THEN "up" ELSE "down", "left")
    BY <1>3 DEF LeftButton
  <2>2. CASE left
    <3>1. RouteMouse("up", "left")
      BY <2>1, <2>2
    <3>2. /\ Within(ui')
          /\ ui'.wm.drag = NoWindow \/ (~ DragTakes(ui.wm, "up", "left") /\ ui'.wm.drag = ui.wm.drag)
      BY <1>1, <3>1, RouteLeft
    <3>3. ui'.wm.drag = NoWindow
      BY <3>2 DEF DragTakes
    <3> QED BY <1>1, <2>1, <3>2, <3>3
  <2>3. CASE ~ left
    <3>1. RouteMouse("down", "left")
      BY <2>1, <2>3
    <3>2. ~ DragTakes(ui.wm, "down", "left")
      BY DEF DragTakes
    <3>3. /\ Within(ui')
          /\ ui'.wm.drag = ui.wm.drag \/ ui'.wm.drag \in Listed(ui')
      BY <1>1, <3>1, <3>2, RouteLeft
    <3> QED BY <1>1, <2>1, <2>3, <3>3 DEF Dragged
  <2> QED BY <2>2, <2>3
<1>4. CASE LeftButtonLost
  <2>1. left' \in BOOLEAN /\ lost' \in Nat /\ lost' # 0 /\ ui' = ui /\ strays' = strays
    BY <1>1, <1>4 DEF LeftButtonLost
  <2> QED BY <1>1, <2>1
<1>5. CASE MouseMoved
  <2>1. left' = left /\ lost' = lost /\ strays' = strays /\ RouteMouse("move", "none")
    BY <1>5 DEF MouseMoved
  <2>2. /\ Within(ui')
        /\ \/ ui'.wm.drag = ui.wm.drag /\ Listed(ui') = Listed(ui)
           \/ ~ DragTakes(ui.wm, "move", "none") /\ ui'.wm.drag = ui.wm.drag
    BY <1>1, <2>1, RouteLeft
  <2>3. ~ DragTakes(ui.wm, "move", "none") => ui.wm.drag = NoWindow
    BY DEF DragTakes
  <2> QED BY <1>1, <2>1, <2>2, <2>3 DEF Dragged
<1>6. CASE RightButton
  <2>1. PICK type \in {"down", "up"} : RouteMouse(type, "right")
    BY <1>6 DEF RightButton
  <2>2. left' = left /\ lost' = lost /\ strays' = strays
    BY <1>6 DEF RightButton
  <2>3. ~ DragTakes(ui.wm, type, "right")
    BY <2>1 DEF DragTakes
  <2>4. Within(ui') /\ ui'.wm.drag = ui.wm.drag /\ Listed(ui') = Listed(ui)
    BY <1>1, <2>1, <2>3, RouteLeft
  <2> QED BY <1>1, <2>2, <2>4 DEF Dragged
<1>7. CASE SubmitKey
  <2> DEFINE w == ui.wm.focus
             s == [ui EXCEPT !.wm = EnterDispatch(ui.wm)]
             msg == [what |-> "request", id |-> w]
  <2>1. left' = left /\ lost' = lost /\ strays' = strays /\ w # NoWindow
    BY <1>7 DEF SubmitKey
  <2>2. ui' \in {Post(s, msg), s} /\ ui'.wm.next <= MaxWindows + 1
        /\ (ui' = Post(s, msg) => ui' = s \/ w \in ui.typing)
    BY <1>2, <1>7 DEF SubmitKey, Dispatch, Bounded, Record
  <2>3. /\ Good(s) /\ Listed(s) = Listed(ui) /\ s.kind = ui.kind /\ s.wm.next = ui.wm.next
        /\ s.wm.drag = ui.wm.drag /\ s.typing = ui.typing /\ s.win = ui.win
    BY <1>1, EnterLeft
  <2> HIDE DEF s
  <2>4. w \in Listed(ui)
    BY <1>2, <2>1 DEF Managed, Listed
  <2>5. w \in Ids /\ w < ui.wm.next
    BY <1>1, <1>2, <2>4, ListedInIds, ListedIs DEF Within
  <2>6. ASSUME w \in ui.typing
        PROVE  Left(s, Post(s, msg)) /\ Listed(Post(s, msg)) = Listed(s)
    <3>1. w = s.win.terminal
      BY <1>2, <2>3, <2>4, <2>5, <2>6 DEF Sound, Terminals
    <3>2. msg \in Message /\ msg.what = "request" /\ msg.id = w
      BY <2>5 DEF Message, Ids
    <3> HIDE DEF msg, w
    <3> QED BY <2>3, <2>5, <3>1, <3>2, PostLeft
  <2>7. Good(ui') /\ Listed(ui') = Listed(ui) /\ ui'.wm.drag = ui.wm.drag
    BY <2>2, <2>3, <2>6 DEF Left
  <2> QED BY <1>1, <2>1, <2>2, <2>7 DEF Dragged, Within
<1>8. CASE Return
  <2> DEFINE n == IF ui.wm.depth > 0 THEN LeaveDispatch(ui.wm) ELSE ui.wm
             s == [ui EXCEPT !.wm = n]
  <2>1. left' = left /\ lost' = lost /\ strays' = strays /\ ui' = Swept(s)
    BY <1>2, <1>8 DEF Return, Record
  <2>2. Managed(n) /\ Range(n.list) = Listed(ui) /\ n.next = ui.wm.next /\ n.drag = ui.wm.drag
    BY <1>2, LeaveManaged DEF Listed
  <2> HIDE DEF n
  <2>3. Good(s) /\ Listed(s) = Listed(ui) /\ s.wm = n
    BY <1>1, <2>2, ManagerLeft
  <2> HIDE DEF s
  <2>4. Left(s, ui') /\ Listed(ui') = Listed(s) /\ ui'.wm.next = s.wm.next
    BY <2>1, <2>3, SweptLeft
  <2> QED BY <1>1, <2>1, <2>2, <2>3, <2>4 DEF Dragged, Within, Left
<1>9. CASE RequestShutdown
  <2> DEFINE msg == [what |-> "prompt", id |-> NoWindow]
  <2>1. left' = left /\ lost' = lost /\ strays' = strays /\ ui' = Post(ui, msg)
    BY <1>9 DEF RequestShutdown
  <2>2. msg \in Message /\ msg.what = "prompt" /\ msg.id = NoWindow /\ NoWindow < ui.wm.next
    BY <1>2 DEF Message, NoWindow, Managed, WindowManager
  <2> HIDE DEF msg
  <2>3. Left(ui, ui') /\ Listed(ui') = Listed(ui) /\ ui'.wm.next = ui.wm.next
    BY <1>1, <2>1, <2>2, PostLeft
  <2> QED BY <1>1, <2>1, <2>3 DEF Dragged, Within, Left
<1>10. CASE ProcessMessage
  <2> DEFINE msg == Head(ui.queue)
             s == [ui EXCEPT !.queue = Tail(ui.queue)]
             done == [what |-> "done", id |-> msg.id]
             line == [what |-> "line", id |-> msg.id]
  <2>1. ui.queue # <<>> /\ left' = left /\ lost' = lost
    BY <1>10 DEF ProcessMessage
  <2>2. /\ ui' \in Bounded(CASE msg.what = "request" -> Answer(s, msg.id)
                             [] msg.what = "destroyed" -> {OnWindowDestroyed(s, msg.id)}
                             [] msg.what = "prompt" -> {OpenDialog(s, "shutdown")}
                             [] OTHER -> {s})
        /\ strays' = strays \cup ({<<msg.id, ShownIn(s, msg)>>} \ {<<w, w>> : w \in Ids \cup {NoWindow}})
    BY <1>2, <1>10 DEF ProcessMessage, Record
  <2>3. /\ Left(ui, s) /\ Listed(s) = Listed(ui) /\ s.wm = ui.wm /\ s.win = ui.win
        /\ msg \in Message /\ msg.id < ui.wm.next
        /\ msg.what \in {"request", "line"} /\ msg.id \in Listed(ui) => msg.id = ui.win.terminal
        /\ msg.what = "destroyed" => msg.id \notin Listed(ui)
    BY <1>1, <2>1, TakeLeft
  <2> HIDE DEF msg, s
  <2>4. strays' = {}
    <3>1. ShownIn(s, msg) = msg.id
      BY <2>3 DEF ShownIn, WindowById, Listed
    <3>2. msg.id \in Ids \cup {NoWindow}
      BY <1>1, <1>2, <2>3, WindowsAssumption DEF Message, Ids, NoWindow, Within
    <3> QED BY <1>1, <2>2, <3>1, <3>2
  <2>5. ui'.wm.next <= MaxWindows + 1
    BY <2>2 DEF Bounded
  <2>6. Left(s, ui') /\ Listed(s) \subseteq Listed(ui')
    <3>1. CASE msg.what = "request"
      <4>1. /\ done \in Message /\ done.what = "done" /\ done.id = msg.id
            /\ line \in Message /\ line.what = "line" /\ line.id = msg.id
        BY <2>3 DEF Message
      <4>2. ui' \in {Post(s, done), Post(Post(s, line), done)}
        BY <2>2, <3>1 DEF Bounded, Answer
      <4> HIDE DEF done, line
      <4>3. Left(s, Post(s, done)) /\ Listed(Post(s, done)) = Listed(s)
        BY <2>3, <4>1, PostLeft DEF Left
      <4> DEFINE t == Post(s, line)
      <4>4. Left(s, t) /\ Listed(t) = Listed(s) /\ t.wm.next = s.wm.next /\ t.win = s.win
        BY <2>3, <3>1, <4>1, PostLeft DEF Left
      <4> HIDE DEF t
      <4>5. Left(t, Post(t, done)) /\ Listed(Post(t, done)) = Listed(t)
        BY <2>3, <4>1, <4>4, PostLeft DEF Left
      <4> QED BY <4>2, <4>3, <4>4, <4>5, LeftThenLeft DEF t
    <3>2. CASE msg.what = "destroyed"
      <4>1. ui' = s
        BY <2>2, <2>3, <3>2, DestroyedIsKnown DEF Bounded, Left
      <4> QED BY <2>3, <4>1 DEF Left
    <3>3. CASE msg.what = "prompt"
      <4>1. ui' = OpenDialog(s, "shutdown")
        BY <2>2, <3>3 DEF Bounded
      <4> QED BY <2>3, <4>1, OpenDialogLeft DEF Left, Dialogs
    <3>4. CASE msg.what \notin {"request", "destroyed", "prompt"}
      <4>1. ui' = s
        BY <2>2, <3>4 DEF Bounded
      <4> QED BY <2>3, <4>1 DEF Left
    <3> QED BY <3>1, <3>2, <3>3, <3>4
  <2> QED BY <1>1, <2>1, <2>3, <2>4, <2>5, <2>6 DEF Dragged, Within, Left
<1>11. CASE UNCHANGED vars
  BY <1>1, <1>11 DEF vars, Dragged
<1> QED BY <1>3, <1>4, <1>5, <1>6, <1>7, <1>8, <1>9, <1>10, <1>11 DEF Next

-----------------------------------------------------------------------------
(* The theorems *)

THEOREM Invariance == Spec => []IInv
<1>1. Init => IInv
  BY InitInvariant
<1>2. IInv /\ [Next]_vars => IInv'
  BY NextInvariant
<1> QED BY <1>1, <1>2, PTL DEF Spec

\* What the properties say of a state follows from the invariant.
LEMMA InvariantGives == IInv => PointersLive /\ TaskbarExact /\ RepliesToAsker
<1> SUFFICES ASSUME IInv PROVE PointersLive /\ TaskbarExact /\ RepliesToAsker
  OBVIOUS
<1>1. Good(ui) /\ strays = {} /\ Dragged
  BY DEF IInv
<1>2. TaskbarExact /\ RepliesToAsker
  BY <1>1 DEF TaskbarExact, RepliesToAsker, Good, Barred
<1>3. PointersLive
  BY <1>1 DEF PointersLive, Good, Sound, Managed, Pointed, Listed, Dragged
<1> QED BY <1>2, <1>3

\* No pointer that the manager or the desktop may follow next is to a window that
\* is gone, whatever is opened, closed, dragged or typed, in any order.
THEOREM PointersLiveCorrect == Spec => []PointersLive
BY Invariance, InvariantGives, PTL

\* The taskbar shows the terminal that there is.
THEOREM TaskbarCorrect == Spec => []TaskbarExact
BY Invariance, InvariantGives, PTL

\* Late or not, a reply is shown in the window that asked or in none.
THEOREM RepliesCorrect == Spec => []RepliesToAsker
BY Invariance, InvariantGives, PTL

\* The same of the desktop beside the screen, the specification that is run.
THEOREM DesktopBesideScreen == MCSpec => [](PointersLive /\ TaskbarExact /\ RepliesToAsker)
<1>1. MCInit => IInv
  BY InitInvariant DEF MCInit
<1>2. IInv /\ [MCNext]_all => IInv'
  <2>1. [MCNext]_all => [Next]_vars
    BY DEF MCNext, all
  <2> QED BY <2>1, NextInvariant
<1> QED BY <1>1, <1>2, InvariantGives, PTL DEF MCSpec
=============================================================================
