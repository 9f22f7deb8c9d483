------------------------- MODULE AsyncServerProofs --------------------------
(***************************************************************************)
(* Theorems about AsyncServer for any number of clients, any MAX_PENDING,  *)
(* any inputs and any clients that are killed: first about its tables,     *)
(* then about what it promises its clients.                                *)
(***************************************************************************)
EXTENDS AsyncServer, HandshakeNetProofs, FiniteSetTheorems

-----------------------------------------------------------------------------
(***************************************************************************)
(* The inductive invariant.  That a handler finds something to receive     *)
(* depends on what was true when select() looked (StillReady), on each     *)
(* slot having an open file of its own (TableMatchesFiles), and on no two  *)
(* files being the same connection (ConnectionsDistinct): only then does   *)
(* one handler leave what the later ones rely on.                          *)
(***************************************************************************)
ConnectionsDistinct ==
    /\ \A k \in 1 .. Len(backlog) : cpc[backlog[k]] # "connect"
    /\ \A j, k \in 1 .. Len(backlog) : backlog[j] = backlog[k] => j = k
    /\ \A fd \in Fds : fdTable[fd] # NoClient =>
         /\ cpc[fdTable[fd]] # "connect"
         /\ \A k \in 1 .. Len(backlog) : backlog[k] # fdTable[fd]
    /\ \A fd, gd \in Fds : fdTable[fd] # NoClient /\ fdTable[fd] = fdTable[gd] => fd = gd

StillReady ==
    /\ spc = "accept" =>
         /\ Listener \in ready => backlog # << >>
         /\ \A fd \in Fds : fd \in ready =>
              fdTable[fd] # NoClient /\ Readable(fdTable[fd])
    /\ spc = "scan" =>
         \A s \in Slots : s >= i /\ LiveSlot(s) /\ frame[Sock(s)] \in ready =>
              Readable(fdTable[frame[Sock(s)]])

Inv == /\ TypeOK
       /\ TableMatchesFiles
       /\ WaitsForOpenFiles
       /\ ConnectionsDistinct
       /\ StillReady

-----------------------------------------------------------------------------
(***************************************************************************)
(* Facts about the constants, the frame and the descriptors.               *)
(***************************************************************************)
LEMMA Numbers ==
    /\ Cardinality(Clients) \in Nat
    /\ Fds \subseteq Nat /\ Listener \in Nat /\ Listener \notin Fds
    /\ \A fd \in Fds : fd > Listener /\ fd # -1
    /\ MaxPending \in Nat \ {0}
    /\ Slots \subseteq Frame /\ Slots \subseteq Nat
BY AsyncAssumption, NetAssumption, FS_CardinalityType
   DEF Fds, Listener, Slots, Frame

\* The three arrays do not overlap: a write to the flag or the number of a
\* slot leaves every socket alone.
LEMMA FlagsAreNotSocks ==
    ASSUME frame \in [Frame -> Int], NEW s \in Slots, NEW n \in Int,
           frame' = [frame EXCEPT ![Flag(s)] = 0, ![XNum(s)] = n]
    PROVE  /\ frame' \in [Frame -> Int]
           /\ \A r \in Slots : frame'[Sock(r)] = frame[Sock(r)]
<1>1. \A a \in Frame : frame'[a] = IF a = XNum(s) THEN n
                                  ELSE IF a = Flag(s) THEN 0 ELSE frame[a]
  OBVIOUS
<1>2. frame' \in [Frame -> Int]
  <2>1. frame' = [a \in Frame |-> IF a = XNum(s) THEN n
                                  ELSE IF a = Flag(s) THEN 0 ELSE frame[a]]
    BY Zenon
  <2>2. \A a \in Frame : frame'[a] \in Int
    BY <1>1
  <2> QED
    BY <2>1, <2>2, Zenon
<1>3. ASSUME NEW r \in Slots PROVE frame'[Sock(r)] = frame[Sock(r)]
  <2>1. Flag(s) # Sock(r) /\ XNum(s) # Sock(r) /\ Sock(r) \in Frame
    BY NetAssumption DEF Flag, XNum, Sock, Slots, Frame
  <2> QED
    BY <1>1, <2>1
<1> QED
  BY <1>2, <1>3

\* The initial frame.
LEMMA InitTypes == Init => TypeOK
<1> SUFFICES ASSUME Init PROVE TypeOK
  OBVIOUS
<1>1. NetTypeOK
  <2>1. xNum \in [Clients -> CInt]
    BY NetAssumption DEF Init, NetInit, CInt
  <2>2. << >> \in Seq(CInt) /\ << >> \in Seq(Clients)
    OBVIOUS
  <2> QED
    BY <2>1, <2>2, IntsAreIntegers DEF Init, NetInit, NetTypeOK, ClientPCs
<1>2. frame \in [Frame -> Int]
  <2>1. PICK x \in [Slots -> Junk] :
          frame = [a \in Frame |-> IF a < XNum(0) THEN -1 ELSE x[a - XNum(0)]]
    BY DEF Init
  <2>2. \A a \in Frame : ~(a < XNum(0)) => a - XNum(0) \in Slots
    BY NetAssumption DEF Frame, XNum, Slots
  <2>3. Junk \subseteq Int
    BY AsyncAssumption, IntsAreIntegers
  <2>4. ASSUME NEW a \in Frame
        PROVE  (IF a < XNum(0) THEN -1 ELSE x[a - XNum(0)]) \in Int
    <3>1. CASE a < XNum(0)
      BY <3>1
    <3>2. CASE ~(a < XNum(0))
      <4>1. x[a - XNum(0)] \in Junk
        BY <2>2, <3>2
      <4> QED
        BY <2>3, <3>2, <4>1
    <3> QED
      BY <3>1, <3>2
  <2> QED
    BY <2>1, <2>4
<1> QED
  BY <1>1, <1>2, NetAssumption DEF Init, TypeOK, ServerPCs, AllFds, Slots

LEMMA InitInv == Init => Inv
<1> SUFFICES ASSUME Init PROVE Inv
  OBVIOUS
<1>1. TypeOK
  BY InitTypes
<1>2. \A s \in Slots : frame[Sock(s)] = -1
  <2>1. \A s \in Slots : s \in Frame /\ s < XNum(0)
    BY NetAssumption DEF Slots, Frame, XNum
  <2> QED
    BY <2>1 DEF Init, Sock
<1>3. TableMatchesFiles
  BY <1>2 DEF Init, TableMatchesFiles, LiveSlot, Slots, Fds
<1>4. WaitsForOpenFiles
  BY DEF Init, WaitsForOpenFiles, Fds, Listener
<1>5. ConnectionsDistinct
  BY DEF Init, NetInit, ConnectionsDistinct, Fds
<1>6. StillReady
  BY DEF Init, StillReady
<1> QED
  BY <1>1, <1>3, <1>4, <1>5, <1>6 DEF Inv

-----------------------------------------------------------------------------
(***************************************************************************)
(* The steps of the clients.                                               *)
(***************************************************************************)
\* A connection enters the backlog once, when its client leaves connect().
LEMMA BacklogGrows ==
    ASSUME Inv, NEW c \in Clients, Connect(c), UNCHANGED serverVars
    PROVE  ConnectionsDistinct'
<1>1. cpc \in [Clients -> ClientPCs] /\ backlog \in Seq(Clients)
  BY DEF Inv, TypeOK, NetTypeOK
<1>2. cpc[c] = "connect" /\ cpc'[c] # "connect"
      /\ \A d \in Clients : d # c => cpc'[d] = cpc[d]
  BY <1>1 DEF Connect, Goto
<1>3. fdTable' = fdTable /\ fdTable \in [Fds -> Clients \cup {NoClient}]
  BY DEF serverVars, Inv, TypeOK
<1>4. CASE backlog' = backlog
  BY <1>1, <1>2, <1>3, <1>4 DEF Inv, ConnectionsDistinct
<1>5. CASE backlog' = Append(backlog, c)
  <2>1. /\ Len(backlog') = Len(backlog) + 1
        /\ backlog'[Len(backlog) + 1] = c
        /\ \A k \in 1 .. Len(backlog) : backlog'[k] = backlog[k] /\ backlog[k] \in Clients
    BY <1>1, <1>5
  <2>2. \A k \in 1 .. Len(backlog) : backlog[k] # c
    BY <1>2 DEF Inv, ConnectionsDistinct
  <2>3. \A k \in 1 .. Len(backlog') : k = Len(backlog) + 1 \/ k \in 1 .. Len(backlog)
    BY <1>1, <2>1
  <2>4. \A k \in 1 .. Len(backlog') : cpc'[backlog'[k]] # "connect"
    BY <1>2, <2>1, <2>3 DEF Inv, ConnectionsDistinct
  <2>5. \A j, k \in 1 .. Len(backlog') : backlog'[j] = backlog'[k] => j = k
    BY <2>1, <2>2, <2>3 DEF Inv, ConnectionsDistinct
  <2>6. \A fd \in Fds : fdTable[fd] # NoClient =>
          fdTable[fd] # c /\ cpc'[fdTable[fd]] # "connect"
    BY <1>2, <1>3 DEF Inv, ConnectionsDistinct
  <2>7. \A fd \in Fds : fdTable[fd] # NoClient =>
          \A k \in 1 .. Len(backlog') : backlog'[k] # fdTable[fd]
    BY <2>1, <2>3, <2>6 DEF Inv, ConnectionsDistinct
  <2> QED
    BY <1>3, <2>4, <2>5, <2>6, <2>7 DEF Inv, ConnectionsDistinct
<1> QED
  BY <1>4, <1>5 DEF Connect

LEMMA ClientInv ==
    ASSUME Inv, NEW c \in Clients, Connect(c) \/ ClientStep(c) \/ Kill(c),
           UNCHANGED serverVars
    PROVE  Inv'
<1>1. TypeOK'
  BY ClientTypes DEF Inv, TypeOK, serverVars
<1>2. TableMatchesFiles' /\ WaitsForOpenFiles'
  BY DEF Inv, TableMatchesFiles, WaitsForOpenFiles, LiveSlot, WithinTable, serverVars
<1>3. ConnectionsDistinct'
  <2>1. CASE Connect(c)
    BY <2>1, BacklogGrows
  <2>2. CASE ClientStep(c) \/ Kill(c)
    <3>1. backlog' = backlog /\ fdTable' = fdTable
      BY <2>2 DEF ClientStep, SendX, RecvY, SendZ, Close, Kill, serverVars
    <3>2. \A d \in Clients : cpc[d] # "connect" => cpc'[d] # "connect"
      BY <2>2 DEF ClientStep, SendX, RecvY, SendZ, Close, Kill, ClientSend, Goto,
                  Inv, TypeOK, NetTypeOK
    <3>3. /\ \A k \in 1 .. Len(backlog) : backlog[k] \in Clients
          /\ \A fd \in Fds : fdTable[fd] # NoClient => fdTable[fd] \in Clients
      BY DEF Inv, TypeOK, NetTypeOK
    <3> QED
      BY <3>1, <3>2, <3>3 DEF Inv, ConnectionsDistinct
  <2> QED
    BY <2>1, <2>2
<1>4. StillReady'
  <2>1. \A d \in Clients : Readable(d) => Readable(d)'
    BY ClientKeepsReadable DEF Inv, TypeOK
  <2>2. backlog # << >> => backlog' # << >>
    <3>1. backlog \in Seq(Clients)
      BY DEF Inv, TypeOK, NetTypeOK
    <3>2. backlog' = backlog \/ backlog' = Append(backlog, c)
      BY DEF Connect, ClientStep, SendX, RecvY, SendZ, Close, Kill
    <3> QED
      BY <3>1, <3>2
  <2>3. /\ fdTable' = fdTable /\ frame' = frame /\ ready' = ready
        /\ spc' = spc /\ i' = i
    BY DEF serverVars
  <2>4. /\ \A fd \in Fds : fdTable[fd] # NoClient => fdTable[fd] \in Clients
        /\ \A s \in Slots : LiveSlot(s) =>
             frame[Sock(s)] \in Fds /\ fdTable[frame[Sock(s)]] # NoClient
    BY DEF Inv, TypeOK, TableMatchesFiles
  <2>5. spc = "accept" =>
          /\ Listener \in ready => backlog' # << >>
          /\ \A fd \in Fds : fd \in ready =>
               fdTable[fd] # NoClient /\ Readable(fdTable[fd])'
    BY <2>1, <2>2, <2>3, <2>4 DEF Inv, StillReady
  <2>6. spc = "scan" =>
          \A s \in Slots : s >= i /\ LiveSlot(s) /\ frame[Sock(s)] \in ready =>
              Readable(fdTable[frame[Sock(s)]])'
    BY <2>1, <2>3, <2>4 DEF Inv, StillReady
  <2> QED
    BY <2>3, <2>5, <2>6 DEF StillReady, LiveSlot
<1> QED
  BY <1>1, <1>2, <1>3, <1>4 DEF Inv

-----------------------------------------------------------------------------
(***************************************************************************)
(* The steps of the server that move no message and no file.               *)
(***************************************************************************)
LEMMA QuietStep ==
    ASSUME Inv, UNCHANGED <<netVars, fdTable, rfds, maxfd, frame, slotI>>,
           TypeOK', StillReady'
    PROVE  Inv'
BY DEF Inv, TableMatchesFiles, WaitsForOpenFiles, ConnectionsDistinct, LiveSlot,
       WithinTable, netVars

LEMMA SelectInv ==
    ASSUME Inv, Select
    PROVE  Inv'
<1>1. TypeOK'
  BY DEF Inv, TypeOK, Select, netVars, NetTypeOK, ServerPCs
<1>2. StillReady'
  <2>1. /\ spc' = "accept" /\ fdTable' = fdTable /\ backlog' = backlog
        /\ \A d : Readable(d)' <=> Readable(d)
    BY DEF Select, netVars, Readable, Ended
  <2>2. \A fd \in ready' : IsReady(fd)
    BY DEF Select
  <2>3. Listener \in ready' => backlog # << >>
    BY <2>2 DEF IsReady
  <2>4. \A fd \in Fds : fd \in ready' => fdTable[fd] # NoClient /\ Readable(fdTable[fd])
    BY <2>2, Numbers DEF IsReady
  <2> QED
    BY <2>1, <2>3, <2>4 DEF StillReady
<1> QED
  BY <1>1, <1>2, QuietStep DEF Select

\* An open slot that select() found ready can still be received from when the
\* scan starts.
LEMMA SkipAcceptInv ==
    ASSUME Inv, SkipAccept
    PROVE  Inv'
<1>1. TypeOK'
  BY Numbers DEF Inv, TypeOK, SkipAccept, netVars, NetTypeOK, ServerPCs
<1>2. StillReady'
  <2>1. /\ spc' = "scan" /\ fdTable' = fdTable /\ frame' = frame /\ ready' = ready
        /\ \A d : Readable(d)' <=> Readable(d)
    BY DEF SkipAccept, netVars, Readable, Ended
  <2>2. \A s \in Slots : LiveSlot(s) /\ frame[Sock(s)] \in ready =>
          Readable(fdTable[frame[Sock(s)]])
    BY DEF Inv, StillReady, TableMatchesFiles, SkipAccept
  <2> QED
    BY <2>1, <2>2 DEF StillReady, LiveSlot
<1> QED
  BY <1>1, <1>2, QuietStep DEF SkipAccept

LEMMA SkipSlotInv ==
    ASSUME Inv, SkipSlot
    PROVE  Inv'
<1>0. i \in Nat /\ i' = i + 1 /\ i' \in 0 .. MaxPending
  BY NetAssumption DEF SkipSlot, Slots
<1>1. TypeOK'
  BY <1>0 DEF Inv, TypeOK, SkipSlot, netVars, NetTypeOK
<1>2. StillReady'
  <2>1. /\ spc' = "scan" /\ fdTable' = fdTable /\ frame' = frame /\ ready' = ready
        /\ \A d : Readable(d)' <=> Readable(d)
    BY DEF SkipSlot, netVars, Readable, Ended
  <2>2. \A s \in Slots : s >= i + 1 => s >= i
    BY <1>0 DEF Slots
  <2> QED
    BY <1>0, <2>1, <2>2 DEF Inv, StillReady, LiveSlot, SkipSlot
<1> QED
  BY <1>1, <1>2, QuietStep DEF SkipSlot

LEMMA EndScanInv ==
    ASSUME Inv, EndScan
    PROVE  Inv'
<1>1. TypeOK'
  BY Numbers DEF Inv, TypeOK, EndScan, netVars, NetTypeOK, ServerPCs
<1>2. StillReady'
  BY DEF EndScan, StillReady
<1> QED
  BY <1>1, <1>2, QuietStep DEF EndScan

-----------------------------------------------------------------------------
(***************************************************************************)
(* accept(): the new descriptor was closed, so it is in no slot and was    *)
(* not found ready; the new connection was in the backlog only.            *)
(***************************************************************************)
LEMMA AcceptInv ==
    ASSUME Inv, Accept
    PROVE  Inv'
<1> DEFINE h == Head(backlog)
<1>1. PICK fd \in Fds :
        /\ fdTable[fd] = NoClient
        /\ fdTable' = [fdTable EXCEPT ![fd] = h]
        /\ frame' = [frame EXCEPT ![slotI] = fd]
        /\ rfds' = rfds \cup {fd}
        /\ maxfd' = IF fd > maxfd THEN fd ELSE maxfd
  BY DEF Accept, LowestFree
<1>2. /\ fdTable \in [Fds -> Clients \cup {NoClient}]
      /\ frame \in [Frame -> Int]
      /\ backlog \in Seq(Clients) /\ slotI \in Nat /\ maxfd \in AllFds
  BY DEF Inv, TypeOK, NetTypeOK
<1>3. /\ backlog # << >> /\ backlog' = Tail(backlog)
      /\ slotI' = slotI + 1 /\ spc' = "scan" /\ i' = 0 /\ ready' = ready
      /\ \A d : Readable(d)' <=> Readable(d)
      /\ cpc' = cpc
  BY DEF Accept, Inv, StillReady, clientVars, Readable, Ended
<1>4. /\ h \in Clients /\ backlog' \in Seq(Clients)
      /\ Len(backlog') = Len(backlog) - 1 /\ Len(backlog) \in Nat \ {0}
      /\ h = backlog[1]
      /\ \A k \in 1 .. Len(backlog') : k + 1 \in 1 .. Len(backlog) /\ backlog'[k] = backlog[k + 1]
  BY <1>2, <1>3
<1>5. h # NoClient
  BY <1>4, NetAssumption
<1> HIDE DEF h
<1>6. TypeOK'
  <2>1. NetTypeOK'
    BY <1>4 DEF Accept, clientVars, Inv, TypeOK, NetTypeOK
  <2>2. frame' \in [Frame -> Int]
    <3>1. fd \in Int
      BY Numbers
    <3> QED
      BY <1>1, <1>2, <3>1
  <2>3. rfds' \subseteq AllFds /\ maxfd' \in AllFds /\ ready' \subseteq AllFds
    BY <1>1, <1>2, <1>3 DEF AllFds, Inv, TypeOK
  <2>4. fdTable' \in [Fds -> Clients \cup {NoClient}]
    BY <1>1, <1>2, <1>4
  <2>5. slotI' \in Nat /\ i' \in 0 .. MaxPending /\ spc' \in ServerPCs
    BY <1>2, <1>3, Numbers DEF ServerPCs
  <2> QED
    BY <2>1, <2>2, <2>3, <2>4, <2>5 DEF TypeOK
<1>7. \A s \in Slots : frame'[Sock(s)] = IF s = slotI THEN fd ELSE frame[Sock(s)]
  BY <1>1, <1>2, Numbers DEF Sock
<1>8. /\ fdTable'[fd] = h
      /\ \A gd \in Fds : gd # fd => fdTable'[gd] = fdTable[gd]
  BY <1>1, <1>2
<1>9. \A s \in Slots : LiveSlot(s) =>
        /\ s < slotI /\ frame[Sock(s)] \in Fds /\ frame[Sock(s)] # fd
        /\ fdTable[frame[Sock(s)]] # NoClient
  BY <1>1 DEF Inv, TableMatchesFiles
<1>10. \A s \in Slots : LiveSlot(s)' =>
         \/ s = slotI /\ frame'[Sock(s)] = fd
         \/ s # slotI /\ LiveSlot(s) /\ frame'[Sock(s)] = frame[Sock(s)]
  BY <1>7 DEF LiveSlot
<1>11. TableMatchesFiles'
  <2>1. ASSUME NEW s \in Slots, LiveSlot(s)'
        PROVE  /\ s < slotI' /\ frame'[Sock(s)] \in Fds
               /\ fdTable'[frame'[Sock(s)]] # NoClient
    <3>1. CASE s = slotI /\ frame'[Sock(s)] = fd
      BY <1>2, <1>3, <1>5, <1>8, <3>1
    <3>2. CASE LiveSlot(s) /\ frame'[Sock(s)] = frame[Sock(s)]
      <4>1. s \in Nat /\ s < slotI
        BY <1>9, <3>2, Numbers
      <4>2. s < slotI'
        BY <1>2, <1>3, <4>1
      <4> QED
        BY <1>8, <1>9, <3>2, <4>2
    <3> QED
      BY <1>10, <2>1, <3>1, <3>2
  <2>2. ASSUME NEW s \in Slots, NEW r \in Slots, LiveSlot(s)', frame'[Sock(s)] = frame'[Sock(r)]
        PROVE  s = r
    <3>1. LiveSlot(r)'
      BY <2>2 DEF LiveSlot
    <3> QED
      BY <1>9, <1>10, <2>2, <3>1 DEF Inv, TableMatchesFiles
  <2>3. ASSUME slotI' <= MaxPending, NEW gd \in Fds, fdTable'[gd] # NoClient
        PROVE  \E s \in Slots : frame'[Sock(s)] = gd
    <3>1. slotI \in Slots /\ slotI <= MaxPending
      BY <1>2, <1>3, <2>3, Numbers DEF Slots
    <3>2. CASE gd = fd
      BY <1>7, <3>1, <3>2
    <3>3. CASE gd # fd
      <4>1. PICK s \in Slots : frame[Sock(s)] = gd
        BY <1>8, <2>3, <3>1, <3>3 DEF Inv, TableMatchesFiles, WithinTable
      <4>2. LiveSlot(s)
        BY <4>1, Numbers DEF LiveSlot
      <4>3. s # slotI
        BY <1>2, <1>9, <4>2, Numbers
      <4> QED
        BY <1>7, <4>1, <4>3
    <3> QED
      BY <3>2, <3>3
  <2> QED
    BY <2>1, <2>2, <2>3 DEF TableMatchesFiles, WithinTable
<1>12. WaitsForOpenFiles'
  <2>1. rfds' = {Listener} \cup {gd \in Fds : fdTable'[gd] # NoClient}
    BY <1>1, <1>5, <1>8 DEF Inv, WaitsForOpenFiles
  <2>2. \A gd \in rfds' : gd <= maxfd'
    <3>1. rfds \subseteq Nat /\ maxfd \in Nat /\ fd \in Nat
      BY <1>2, Numbers DEF AllFds, Inv, TypeOK
    <3> QED
      BY <1>1, <3>1 DEF Inv, WaitsForOpenFiles
  <2> QED
    BY <2>1, <2>2 DEF WaitsForOpenFiles
<1>13. ConnectionsDistinct'
  <2>1. \A k \in 1 .. Len(backlog') : cpc'[backlog'[k]] # "connect" /\ backlog'[k] # h
    BY <1>3, <1>4 DEF Inv, ConnectionsDistinct
  <2>2. \A j, k \in 1 .. Len(backlog') : backlog'[j] = backlog'[k] => j = k
    <3> SUFFICES ASSUME NEW j \in 1 .. Len(backlog'), NEW k \in 1 .. Len(backlog'),
                        backlog'[j] = backlog'[k]
                 PROVE  j = k
      OBVIOUS
    <3>1. j + 1 = k + 1
      BY <1>4 DEF Inv, ConnectionsDistinct
    <3> QED
      BY <1>4, <3>1
  <2>3. cpc'[h] # "connect"
    BY <1>3, <1>4 DEF Inv, ConnectionsDistinct
  <2>4. \A gd \in Fds : gd # fd /\ fdTable[gd] # NoClient =>
          /\ cpc'[fdTable[gd]] # "connect" /\ fdTable[gd] # h
          /\ \A k \in 1 .. Len(backlog') : backlog'[k] # fdTable[gd]
    BY <1>3, <1>4 DEF Inv, ConnectionsDistinct
  <2>5. \A gd \in Fds : fdTable'[gd] # NoClient =>
          /\ cpc'[fdTable'[gd]] # "connect"
          /\ \A k \in 1 .. Len(backlog') : backlog'[k] # fdTable'[gd]
    BY <1>8, <2>1, <2>3, <2>4
  <2>6. \A gd, ed \in Fds : fdTable'[gd] # NoClient /\ fdTable'[gd] = fdTable'[ed] => gd = ed
    BY <1>8, <2>4 DEF Inv, ConnectionsDistinct
  <2> QED
    BY <2>1, <2>2, <2>5, <2>6 DEF ConnectionsDistinct
<1>14. StillReady'
  <2>1. ASSUME NEW s \in Slots, LiveSlot(s)', frame'[Sock(s)] \in ready
        PROVE  Readable(fdTable[frame[Sock(s)]])'
    <3>1. fd \notin ready
      BY <1>1 DEF Accept, Inv, StillReady
    <3>2. LiveSlot(s) /\ frame'[Sock(s)] = frame[Sock(s)]
      BY <1>10, <2>1, <3>1
    <3>3. /\ frame[Sock(s)] \in Fds
          /\ fdTable'[frame'[Sock(s)]] = fdTable[frame[Sock(s)]]
      BY <1>8, <1>9, <3>2
    <3>4. Readable(fdTable[frame[Sock(s)]])
      BY <2>1, <3>2, <3>3 DEF Accept, Inv, StillReady
    <3> QED
      BY <1>3, <3>3, <3>4
  <2> QED
    BY <1>3, <2>1 DEF StillReady
<1> QED
  BY <1>6, <1>11, <1>12, <1>13, <1>14 DEF Inv

-----------------------------------------------------------------------------
(***************************************************************************)
(* The handlers.                                                           *)
(***************************************************************************)
LEMMA ReadySlot ==
    ASSUME Inv, AtReadySlot
    PROVE  /\ spc = "scan" /\ i \in Slots /\ i \in Nat /\ i + 1 \in 0 .. MaxPending
           /\ LiveSlot(i)
           /\ frame[Sock(i)] \in Fds
           /\ fdTable[frame[Sock(i)]] # NoClient
           /\ Conn \in Clients
           /\ Readable(Conn)
<1>1. spc = "scan" /\ i \in Slots /\ frame[Sock(i)] > 0 /\ frame[Sock(i)] \in ready
  BY DEF AtReadySlot
<1>2. LiveSlot(i)
  BY <1>1 DEF LiveSlot
<1>3. frame[Sock(i)] \in Fds /\ fdTable[frame[Sock(i)]] # NoClient
  BY <1>1, <1>2 DEF Inv, TableMatchesFiles
<1>4. Conn \in Clients
  BY <1>3 DEF Conn, Inv, TypeOK
<1>5. i \in Nat /\ i >= i /\ i + 1 \in 0 .. MaxPending
  BY <1>1, NetAssumption DEF Slots
<1>6. Readable(Conn)
  BY <1>1, <1>2, <1>5 DEF Conn, Inv, StillReady
<1> QED
  BY <1>1, <1>2, <1>3, <1>4, <1>5, <1>6

\* Two slots never stand for the same connection.
LEMMA SlotsAreApart ==
    ASSUME Inv, AtReadySlot, NEW r \in Slots, r # i, LiveSlot(r)
    PROVE  /\ frame[Sock(r)] \in Fds
           /\ frame[Sock(r)] # frame[Sock(i)]
           /\ fdTable[frame[Sock(r)]] # NoClient
           /\ fdTable[frame[Sock(r)]] # Conn
<1>1. frame[Sock(r)] \in Fds /\ fdTable[frame[Sock(r)]] # NoClient
  BY DEF Inv, TableMatchesFiles
<1>2. frame[Sock(r)] # frame[Sock(i)]
  BY ReadySlot DEF Inv, TableMatchesFiles
<1> QED
  BY <1>1, <1>2, ReadySlot DEF Inv, ConnectionsDistinct, Conn

\* A handler that keeps its slot leaves the other slots ready.
LEMMA KeepSlot ==
    ASSUME Inv, AtReadySlot, TypeOK',
           UNCHANGED <<cpc, backlog, spc, fdTable, rfds, ready, maxfd, slotI>>,
           i' = i + 1,
           \A d \in Clients : d # Conn => toServer'[d] = toServer[d],
           \A r \in Slots : frame'[Sock(r)] = frame[Sock(r)]
    PROVE  Inv'
<1>1. TableMatchesFiles' /\ WaitsForOpenFiles' /\ ConnectionsDistinct'
  BY DEF Inv, TableMatchesFiles, WaitsForOpenFiles, ConnectionsDistinct, LiveSlot, WithinTable
<1>2. StillReady'
  <2>1. ASSUME NEW r \in Slots, r >= i', LiveSlot(r)', frame'[Sock(r)] \in ready
        PROVE  Readable(fdTable[frame[Sock(r)]])'
    <3>1. r # i /\ r >= i /\ r \in Nat
      BY <2>1, ReadySlot, Numbers
    <3>2. LiveSlot(r) /\ frame[Sock(r)] \in ready
      BY <2>1 DEF LiveSlot
    <3>3. Readable(fdTable[frame[Sock(r)]])
      BY <3>1, <3>2, ReadySlot DEF Inv, StillReady
    <3>4. fdTable[frame[Sock(r)]] \in Clients /\ fdTable[frame[Sock(r)]] # Conn
      BY <3>1, <3>2, SlotsAreApart DEF Inv, TypeOK
    <3> QED
      BY <3>3, <3>4 DEF Readable, Ended
  <2> QED
    BY <2>1, ReadySlot DEF StillReady
<1> QED
  BY <1>1, <1>2 DEF Inv

\* exit() changes nothing but up.
LEMMA ExitInv ==
    ASSUME Inv, Exit, UNCHANGED <<clientVars, toServer, toClient, backlog, srvClosed,
                                  printed, serverVars>>
    PROVE  Inv'
BY DEF Inv, Exit, clientVars, serverVars, TypeOK, NetTypeOK, TableMatchesFiles,
       WaitsForOpenFiles, ConnectionsDistinct, StillReady, LiveSlot, WithinTable,
       Readable, Ended

LEMMA FirstShakeInv ==
    ASSUME Inv, FirstShake
    PROVE  Inv'
<1> DEFINE n == Received(Conn)
<1>1. AtReadySlot /\ toServer[Conn] # << >>
  BY DEF FirstShake
<1>2. Conn \in Clients /\ NetTypeOK /\ n \in CInt /\ n \in Int
  BY <1>1, ReadySlot, ReceivedTypes, IntsAreIntegers DEF Inv, TypeOK
<1>3. Wrap(n + 1) \in CInt
  BY <1>2, AnswerIsInt
<1>4. /\ Fputs(Conn, n) /\ ServerSend(Conn, Wrap(n + 1)) /\ Drain(Conn)
      /\ frame' = [frame EXCEPT ![Flag(i)] = 0, ![XNum(i)] = n]
  BY DEF FirstShake
<1>5. /\ printed' \in [Clients -> Seq(CInt)]
      /\ toClient' \in [Clients -> Seq(CInt)]
      /\ toServer' \in [Clients -> Seq(CInt)]
  BY <1>2, <1>3, <1>4, OutputTypes, ReceivedTypes
<1> HIDE DEF n
<1>6. /\ frame' \in [Frame -> Int]
      /\ \A r \in Slots : frame'[Sock(r)] = frame[Sock(r)]
  BY <1>1, <1>2, <1>4, ReadySlot, FlagsAreNotSocks DEF Inv, TypeOK
<1>7. i' \in 0 .. MaxPending
  BY <1>1, ReadySlot DEF FirstShake
<1>8. TypeOK'
  BY <1>2, <1>5, <1>6, <1>7 DEF FirstShake, clientVars, Inv, TypeOK, NetTypeOK
<1>9. \A d \in Clients : d # Conn => toServer'[d] = toServer[d]
  BY <1>2, <1>4 DEF Drain, NetTypeOK
<1> QED
  BY <1>1, <1>6, <1>8, <1>9, KeepSlot DEF FirstShake, clientVars

LEMMA FirstShakeEmptyInv ==
    ASSUME Inv, FirstShakeEmpty
    PROVE  Inv'
<1>1. AtReadySlot
  BY DEF FirstShakeEmpty
<1>2. CASE Exit /\ UNCHANGED <<printed, toClient, frame, i>>
  BY <1>2, ExitInv DEF FirstShakeEmpty, serverVars
<1>3. CASE \E n \in Junk :
             /\ Fputs(Conn, n) /\ ServerSend(Conn, Wrap(n + 1))
             /\ frame' = [frame EXCEPT ![Flag(i)] = 0, ![XNum(i)] = n]
             /\ i' = i + 1 /\ UNCHANGED up
  <2>1. PICK n \in Junk :
             /\ Fputs(Conn, n) /\ ServerSend(Conn, Wrap(n + 1))
             /\ frame' = [frame EXCEPT ![Flag(i)] = 0, ![XNum(i)] = n]
             /\ i' = i + 1 /\ UNCHANGED up
    BY <1>3
  <2>2. Conn \in Clients /\ NetTypeOK /\ n \in CInt /\ n \in Int
    BY <1>1, ReadySlot, AsyncAssumption, IntsAreIntegers DEF Inv, TypeOK
  <2>3. Wrap(n + 1) \in CInt
    BY <2>2, AnswerIsInt
  <2>4. printed' \in [Clients -> Seq(CInt)] /\ toClient' \in [Clients -> Seq(CInt)]
    BY <2>1, <2>2, <2>3, OutputTypes
  <2>5. /\ frame' \in [Frame -> Int]
        /\ \A r \in Slots : frame'[Sock(r)] = frame[Sock(r)]
    BY <1>1, <2>1, <2>2, ReadySlot, FlagsAreNotSocks DEF Inv, TypeOK
  <2>6. i' \in 0 .. MaxPending
    BY <1>1, <2>1, ReadySlot
  <2>7. TypeOK'
    BY <2>1, <2>2, <2>4, <2>5, <2>6
       DEF FirstShakeEmpty, clientVars, Inv, TypeOK, NetTypeOK
  <2> QED
    BY <1>1, <2>1, <2>5, <2>7, KeepSlot DEF FirstShakeEmpty, clientVars
<1> QED
  BY <1>2, <1>3 DEF FirstShakeEmpty

\* The handler that ends a conversation gives up its slot, its descriptor and
\* its place in rfds together.
LEMMA SecondShakeInv ==
    ASSUME Inv, SecondShake
    PROVE  Inv'
<1> DEFINE f == frame[Sock(i)]
           c == Conn
<1>1. AtReadySlot
  BY DEF SecondShake
<1>2. /\ f \in Fds /\ c \in Clients /\ c = fdTable[f] /\ i \in Slots /\ i \in Nat
      /\ spc = "scan" /\ i + 1 \in 0 .. MaxPending
  BY <1>1, ReadySlot DEF Conn
<1>3. CASE /\ toServer[c] # << >> /\ Fputs(c, Received(c)) /\ Drain(c)
           /\ rfds' = rfds \ {f}
           /\ fdTable' = [fdTable EXCEPT ![f] = NoClient]
           /\ srvClosed' = srvClosed \cup {c}
           /\ frame' = [frame EXCEPT ![Sock(i)] = -1]
           /\ i' = i + 1
           /\ UNCHANGED up
  <2>1. NetTypeOK /\ Received(c) \in CInt
    BY <1>2, <1>3, ReceivedTypes DEF Inv, TypeOK
  <2>2. printed' \in [Clients -> Seq(CInt)] /\ toServer' \in [Clients -> Seq(CInt)]
    BY <1>2, <1>3, <2>1, OutputTypes, ReceivedTypes
  <2>3. /\ fdTable \in [Fds -> Clients \cup {NoClient}] /\ frame \in [Frame -> Int]
        /\ toServer \in [Clients -> Seq(CInt)] /\ rfds \subseteq AllFds
    BY <2>1 DEF Inv, TypeOK, NetTypeOK
  <2>4. /\ UNCHANGED <<cpc, xNum, yNum, toClient, backlog, spc, ready, maxfd, slotI>>
    BY DEF SecondShake, clientVars
  <2> HIDE DEF f, c
  <2>5. /\ fdTable'[f] = NoClient
        /\ \A fd \in Fds : fd # f => fdTable'[fd] = fdTable[fd]
        /\ fdTable' \in [Fds -> Clients \cup {NoClient}]
    BY <1>2, <1>3, <2>3
  <2>6. /\ frame' \in [Frame -> Int]
        /\ \A r \in Slots : frame'[Sock(r)] = IF r = i THEN -1 ELSE frame[Sock(r)]
    BY <1>2, <1>3, <2>3, Numbers DEF Sock
  <2>7. TypeOK'
    <3>1. NetTypeOK'
      BY <1>2, <1>3, <2>1, <2>2, <2>4 DEF NetTypeOK
    <3>2. rfds' \subseteq AllFds /\ i' \in 0 .. MaxPending
      BY <1>2, <1>3, <2>3
    <3> QED
      BY <2>4, <2>5, <2>6, <3>1, <3>2 DEF Inv, TypeOK
  <2>8. ASSUME NEW r \in Slots, LiveSlot(r)'
        PROVE  /\ r # i /\ LiveSlot(r) /\ frame'[Sock(r)] = frame[Sock(r)]
               /\ frame[Sock(r)] \in Fds /\ frame[Sock(r)] # f
               /\ fdTable[frame[Sock(r)]] # NoClient
               /\ fdTable'[frame[Sock(r)]] = fdTable[frame[Sock(r)]]
               /\ fdTable[frame[Sock(r)]] # c
    <3>1. r # i /\ LiveSlot(r) /\ frame'[Sock(r)] = frame[Sock(r)]
      BY <2>6, <2>8 DEF LiveSlot
    <3>2. /\ frame[Sock(r)] \in Fds /\ frame[Sock(r)] # f
          /\ fdTable[frame[Sock(r)]] # NoClient /\ fdTable[frame[Sock(r)]] # c
      BY <1>1, <3>1, SlotsAreApart DEF f, c
    <3> QED
      BY <2>5, <3>1, <3>2
  <2>9. TableMatchesFiles'
    <3>1. \A r \in Slots : LiveSlot(r)' =>
            r < slotI' /\ frame'[Sock(r)] \in Fds /\ fdTable'[frame'[Sock(r)]] # NoClient
      BY <2>4, <2>8 DEF Inv, TableMatchesFiles
    <3>2. ASSUME NEW r \in Slots, NEW s \in Slots, LiveSlot(r)', frame'[Sock(r)] = frame'[Sock(s)]
          PROVE  r = s
      <4>1. LiveSlot(s)'
        BY <3>2 DEF LiveSlot
      <4> QED
        BY <2>8, <3>2, <4>1 DEF Inv, TableMatchesFiles
    <3>3. ASSUME WithinTable', NEW fd \in Fds, fdTable'[fd] # NoClient
          PROVE  \E s \in Slots : frame'[Sock(s)] = fd
      <4>1. fd # f /\ fdTable[fd] # NoClient /\ WithinTable
        BY <2>4, <2>5, <3>3 DEF WithinTable
      <4>2. PICK s \in Slots : frame[Sock(s)] = fd
        BY <4>1 DEF Inv, TableMatchesFiles
      <4>3. s # i
        BY <4>1, <4>2 DEF f
      <4> QED
        BY <2>6, <4>2, <4>3
    <3> QED
      BY <3>1, <3>2, <3>3 DEF TableMatchesFiles
  <2>10. WaitsForOpenFiles'
    <3>1. rfds' = {Listener} \cup {fd \in Fds : fdTable'[fd] # NoClient}
      BY <1>2, <1>3, <2>5, Numbers DEF Inv, WaitsForOpenFiles
    <3> QED
      BY <1>3, <2>4, <3>1 DEF Inv, WaitsForOpenFiles
  <2>11. ConnectionsDistinct'
    BY <2>4, <2>5 DEF Inv, ConnectionsDistinct
  <2>12. StillReady'
    <3>1. \A d \in Clients : d # c => (Readable(d) => Readable(d)')
      BY <1>2, <1>3, <2>3, <2>4 DEF Drain, Readable, Ended
    <3>2. ASSUME NEW r \in Slots, r >= i', LiveSlot(r)', frame'[Sock(r)] \in ready
          PROVE  Readable(fdTable[frame[Sock(r)]])'
      <4>1. r >= i
        BY <1>2, <1>3, <3>2, Numbers
      <4>2. Readable(fdTable[frame[Sock(r)]])
        BY <1>2, <2>8, <3>2, <4>1 DEF Inv, StillReady
      <4>3. fdTable[frame[Sock(r)]] \in Clients /\ fdTable[frame[Sock(r)]] # c
        BY <2>3, <2>8, <3>2
      <4>4. fdTable'[frame'[Sock(r)]] = fdTable[frame[Sock(r)]]
        BY <2>8, <3>2
      <4> QED
        BY <3>1, <4>2, <4>3, <4>4
    <3> QED
      BY <1>2, <2>4, <3>2 DEF StillReady
  <2> QED
    BY <2>7, <2>9, <2>10, <2>11, <2>12 DEF Inv
<1>4. CASE Exit /\ UNCHANGED <<printed, toServer, rfds, fdTable, srvClosed, frame, i>>
  BY <1>4, ExitInv DEF SecondShake, serverVars
<1> QED
  BY <1>3, <1>4 DEF SecondShake

-----------------------------------------------------------------------------
(***************************************************************************)
(* The theorems.                                                           *)
(***************************************************************************)
LEMMA NextInv == Inv /\ [Next]_vars => Inv'
<1> SUFFICES ASSUME Inv, [Next]_vars PROVE Inv'
  OBVIOUS
<1>1. CASE Server
  BY <1>1, SelectInv, SkipAcceptInv, AcceptInv, FirstShakeInv, FirstShakeEmptyInv,
     SecondShakeInv, SkipSlotInv, EndScanInv DEF Server
<1>2. ASSUME NEW c \in Clients, Client(c) \/ (Kill(c) /\ UNCHANGED serverVars)
      PROVE  Inv'
  BY <1>2, ClientInv DEF Client
<1>3. CASE UNCHANGED vars
  BY <1>3 DEF vars, netVars, serverVars, Inv, TypeOK, NetTypeOK, TableMatchesFiles,
     WaitsForOpenFiles, ConnectionsDistinct, StillReady, LiveSlot, WithinTable,
     Readable, Ended
<1> QED
  BY <1>1, <1>2, <1>3 DEF Next, Idle

THEOREM Invariance == Spec => []Inv
<1> QED
  BY InitInv, NextInv, PTL DEF Spec

\* The variables keep their types.
THEOREM TypeCorrect == Spec => []TypeOK
BY Invariance, PTL DEF Inv

\* The connection table and the open files agree, for as long as the table has
\* room as well as after.
THEOREM TableCorrect == Spec => []TableMatchesFiles
BY Invariance, PTL DEF Inv

\* select() is always asked about exactly the open files.
THEOREM SelectCorrect == Spec => []WaitsForOpenFiles
BY Invariance, PTL DEF Inv

\* The server blocks in select() only: no accept() without a connection, and no
\* handler without an open connection to receive from.
THEOREM NeverBlocks == Spec => []HandlersDoNotBlock
<1>1. Inv => HandlersDoNotBlock
  BY ReadySlot DEF Inv, StillReady, HandlersDoNotBlock
<1> QED
  BY <1>1, Invariance, PTL

-----------------------------------------------------------------------------
(***************************************************************************)
(* AsyncServer keeps the promise of HandshakeService for as long as no     *)
(* more than MAX_PENDING connections are accepted: for any number of such  *)
(* clients, any inputs, any uninitialised memory, and any clients that are *)
(* killed.                                                                 *)
(*                                                                         *)
(* The inductive invariant, on top of Inv.  A slot's flag and number tell  *)
(* the stage of the conversation that the slot stands for; a connection    *)
(* without a slot has been read from either not at all or to its end.      *)
(***************************************************************************)
\* A client that died before it sent X, for which x was printed.
Junked(c, x) ==
    /\ printed[c] = <<x>> /\ toServer[c] = << >> /\ toClient[c] = << >>
    /\ cpc[c] = "failed"

SlotTalks(s) ==
    LET c == fdTable[frame[Sock(s)]] IN
    \/ frame[Flag(s)] = -1 /\ Unread(c)
    \/ frame[Flag(s)] = 0 /\ frame[XNum(s)] = xNum[c] /\ Answered(c)
    \/ frame[Flag(s)] = 0 /\ Junked(c, frame[XNum(s)])

Held(c) == \E fd \in Fds : fdTable[fd] = c

SlotsTalk == \A s \in Slots : LiveSlot(s) => SlotTalks(s)

FreshSlots == \A s \in Slots : s >= slotI => frame[Flag(s)] = -1

OthersTalk ==
    \A c \in Clients : IF c \in srvClosed THEN Finished(c) ELSE Held(c) \/ Unread(c)

Conversing ==
    WithinTable => IF up THEN SlotsTalk /\ FreshSlots /\ OthersTalk
                   ELSE \A c \in Clients : Leftover(c)

\* A closed connection is nowhere else.
ClosedApart ==
    \A c \in srvClosed :
        /\ cpc[c] # "connect" /\ ~Held(c)
        /\ \A k \in 1 .. Len(backlog) : backlog[k] # c

\* The connections that ever got a slot.
Accepted == {c \in Clients : c \in srvClosed \/ Held(c)}

SlotPerConnection == slotI = Cardinality(Accepted)

TalkInv == Inv /\ ClosedApart /\ SlotPerConnection /\ Conversing

-----------------------------------------------------------------------------
\* No two cells of the frame are the same.
LEMMA Cells ==
    ASSUME NEW s \in Slots, NEW r \in Slots
    PROVE  /\ Sock(s) \in Frame /\ Flag(s) \in Frame /\ XNum(s) \in Frame
           /\ Sock(s) # Flag(r) /\ Sock(s) # XNum(r) /\ Flag(s) # XNum(r)
           /\ s # r => Sock(s) # Sock(r) /\ Flag(s) # Flag(r) /\ XNum(s) # XNum(r)
BY NetAssumption DEF Sock, Flag, XNum, Slots, Frame

\* A step of the server on other connections.
LEMMA Untouched ==
    ASSUME NEW c, UNCHANGED clientVars, printed'[c] = printed[c],
           toServer'[c] = toServer[c], toClient'[c] = toClient[c]
    PROVE  /\ Unread(c) => Unread(c)'
           /\ Answered(c) => Answered(c)'
           /\ Finished(c) => Finished(c)'
           /\ Leftover(c) => Leftover(c)'
           /\ \A x : Junked(c, x) => Junked(c, x)'
BY DEF Unread, Answered, Finished, Leftover, Junked, Y, Z, clientVars

\* A step of any client.
LEMMA ClientsKeep ==
    ASSUME NetTypeOK, NEW d \in Clients, Connect(d) \/ ClientStep(d) \/ Kill(d), up,
           NEW c \in Clients
    PROVE  /\ c \notin srvClosed /\ Unread(c) => Unread(c)'
           /\ c \notin srvClosed /\ Answered(c) => Answered(c)'
           /\ Finished(c) => Finished(c)'
           /\ \A x : Junked(c, x) => Junked(c, x)'
<1>1. \A k : Stage(c, k) /\ (c \in srvClosed => k = "finished") => Stage(c, k)'
  BY ClientConverses, OthersStay
<1>2. /\ Unread(c) => Stage(c, "unread")
      /\ Answered(c) => Stage(c, "answered")
      /\ Finished(c) => Stage(c, "finished")
  BY DEF Stage
<1>3. /\ Stage(c, "unread")' => Unread(c)'
      /\ Stage(c, "answered")' => Answered(c)'
      /\ Stage(c, "finished")' => Finished(c)'
  BY DEF Stage
<1>4. \A x : Junked(c, x) => Junked(c, x)'
  <2>1. CASE c # d
    BY <2>1, ClientIsAlone DEF Junked
  <2>2. CASE c = d
    BY <2>2 DEF Junked, Connect, ClientStep, SendX, RecvY, SendZ, Close, Kill, Ended
  <2> QED
    BY <2>1, <2>2
<1>5. /\ Stage(c, "unread") /\ c \notin srvClosed => Stage(c, "unread")'
      /\ Stage(c, "answered") /\ c \notin srvClosed => Stage(c, "answered")'
      /\ Stage(c, "finished") => Stage(c, "finished")'
  BY <1>1
<1> QED
  BY <1>2, <1>3, <1>4, <1>5

\* Within the table, an open connection has a slot.
LEMMA HeldHasSlot ==
    ASSUME Inv, WithinTable, NEW c \in Clients, Held(c)
    PROVE  \E s \in Slots : LiveSlot(s) /\ fdTable[frame[Sock(s)]] = c
<1>1. PICK fd \in Fds : fdTable[fd] = c
  BY DEF Held
<1>2. PICK s \in Slots : frame[Sock(s)] = fd
  BY <1>1, NetAssumption DEF Inv, TableMatchesFiles
<1> QED
  BY <1>1, <1>2, Numbers DEF LiveSlot

\* While the server is up, every conversation is at a stage, or its client has died.
LEMMA AtAStage ==
    ASSUME TalkInv, up, WithinTable, NEW c \in Clients
    PROVE  \/ \E k : Stage(c, k) /\ (c \in srvClosed => k = "finished")
           \/ c \notin srvClosed /\ \E x : Junked(c, x)
<1>1. SlotsTalk /\ OthersTalk /\ ClosedApart
  BY DEF TalkInv, Conversing
<1>2. CASE c \in srvClosed
  BY <1>1, <1>2 DEF OthersTalk, Stage
<1>3. CASE c \notin srvClosed /\ ~Held(c)
  BY <1>1, <1>3 DEF OthersTalk, Stage
<1>4. CASE c \notin srvClosed /\ Held(c)
  <2>1. PICK s \in Slots : LiveSlot(s) /\ fdTable[frame[Sock(s)]] = c
    BY <1>4, HeldHasSlot DEF TalkInv
  <2>2. Unread(c) \/ Answered(c) \/ \E x : Junked(c, x)
    BY <1>1, <2>1 DEF SlotsTalk, SlotTalks
  <2>3. Unread(c) => Stage(c, "unread")
    BY DEF Stage
  <2>4. Answered(c) => Stage(c, "answered")
    BY DEF Stage
  <2> QED
    BY <1>4, <2>2, <2>3, <2>4
<1> QED
  BY <1>2, <1>3, <1>4

LEMMA AllLeave ==
    ASSUME TalkInv, WithinTable, NEW c \in Clients
    PROVE  Leftover(c)
<1>1. NetTypeOK
  BY DEF TalkInv, Inv, TypeOK
<1>2. CASE ~up
  BY <1>2 DEF TalkInv, Conversing
<1>3. ASSUME NEW x, Junked(c, x) PROVE Leftover(c)
  <2>1. Len(<< >>) = 0 /\ << >> # <<x>>
    OBVIOUS
  <2> QED
    BY <1>3, <2>1 DEF Junked, Leftover
<1> QED
  BY <1>1, <1>2, <1>3, AtAStage, StageLeaves

-----------------------------------------------------------------------------
LEMMA InitTalks == Init => TalkInv
<1> SUFFICES ASSUME Init PROVE TalkInv
  OBVIOUS
<1>1. Inv
  BY InitInv
<1>2. \A c \in Clients : Unread(c) /\ ~Held(c) /\ c \notin srvClosed
  BY AllUnread, NetAssumption DEF Init, NetInit, Held
<1>3. SlotPerConnection
  <2>1. Accepted = {}
    BY <1>2 DEF Accepted
  <2> QED
    BY <2>1, FS_EmptySet DEF Init, SlotPerConnection
<1>4. \A s \in Slots : ~LiveSlot(s) /\ frame[Flag(s)] = -1
  <2>1. ASSUME NEW s \in Slots
        PROVE  Sock(s) \in Frame /\ Flag(s) \in Frame /\ Sock(s) < XNum(0) /\ Flag(s) < XNum(0)
    BY NetAssumption DEF Sock, Flag, XNum, Slots, Frame
  <2> QED
    BY <2>1 DEF Init, LiveSlot
<1>5. Conversing
  BY <1>2, <1>4 DEF Conversing, SlotsTalk, FreshSlots, OthersTalk, Init, NetInit
<1>6. ClosedApart
  BY DEF ClosedApart, Init, NetInit
<1> QED
  BY <1>1, <1>3, <1>5, <1>6 DEF TalkInv

\* exit() leaves of every conversation what had been said.
LEMMA ExitTalks ==
    ASSUME TalkInv, Exit, Inv',
           UNCHANGED <<clientVars, toServer, toClient, backlog, srvClosed, printed, fdTable, slotI>>
    PROVE  TalkInv'
<1>1. ClosedApart' /\ SlotPerConnection'
  BY DEF TalkInv, ClosedApart, SlotPerConnection, Accepted, Held, clientVars
<1>2. \A c \in Clients : Leftover(c) => Leftover(c)'
  BY Untouched
<1>3. Conversing'
  BY <1>2, AllLeave DEF Conversing, WithinTable, Exit
<1> QED
  BY <1>1, <1>3 DEF TalkInv

\* A step of the server that moves neither messages nor connections.
LEMMA QuietTalks ==
    ASSUME TalkInv, UNCHANGED <<netVars, fdTable, frame, slotI>>, Inv'
    PROVE  TalkInv'
<1>1. UNCHANGED <<cpc, xNum, yNum, toServer, toClient, backlog, srvClosed, printed, up,
                  fdTable, frame, slotI>>
  BY DEF netVars
<1>2. /\ \A c : (Unread(c) => Unread(c)') /\ (Answered(c) => Answered(c)')
      /\ \A c : (Finished(c) => Finished(c)') /\ (Leftover(c) => Leftover(c)')
      /\ \A c, x : Junked(c, x) => Junked(c, x)'
  BY <1>1, Untouched DEF clientVars
<1>3. ClosedApart' /\ SlotPerConnection'
  BY <1>1 DEF TalkInv, ClosedApart, SlotPerConnection, Accepted, Held
<1>4. SlotsTalk => SlotsTalk'
  BY <1>1, <1>2 DEF SlotsTalk, SlotTalks, LiveSlot
<1>5. FreshSlots => FreshSlots'
  BY <1>1 DEF FreshSlots
<1>6. OthersTalk => OthersTalk'
  BY <1>1, <1>2 DEF OthersTalk, Held
<1> QED
  BY <1>1, <1>2, <1>3, <1>4, <1>5, <1>6 DEF TalkInv, Conversing, WithinTable

LEMMA ClientTalks ==
    ASSUME TalkInv, NEW d \in Clients, Connect(d) \/ ClientStep(d) \/ Kill(d), UNCHANGED serverVars
    PROVE  TalkInv'
<1>0. NetTypeOK /\ fdTable \in [Fds -> Clients \cup {NoClient}]
  BY DEF TalkInv, Inv, TypeOK
<1>1. Inv'
  BY ClientInv DEF TalkInv
<1>2. UNCHANGED <<srvClosed, xNum, up, printed, fdTable, frame, slotI>>
  BY <1>0, ClientIsAlone DEF serverVars
<1>3. ClosedApart'
  <2>1. \A c \in Clients : cpc[c] # "connect" => cpc'[c] # "connect"
    BY <1>0 DEF Connect, ClientStep, SendX, RecvY, SendZ, Close, Kill, ClientSend, Goto, NetTypeOK
  <2>2. backlog' = backlog \/ (backlog' = Append(backlog, d) /\ cpc[d] = "connect")
    BY DEF Connect, ClientStep, SendX, RecvY, SendZ, Close, Kill
  <2>3. ASSUME NEW c \in srvClosed, NEW k \in 1 .. Len(backlog') PROVE backlog'[k] # c
    <3>1. (backlog \in Seq(Clients) /\ c # d) \/ backlog' = backlog
      BY <1>0, <2>2 DEF TalkInv, ClosedApart, NetTypeOK
    <3>2. CASE backlog' = backlog
      BY <2>3, <3>2 DEF TalkInv, ClosedApart
    <3>3. CASE backlog' = Append(backlog, d) /\ c # d /\ backlog \in Seq(Clients)
      <4>1. (k \in 1 .. Len(backlog) /\ backlog'[k] = backlog[k]) \/ backlog'[k] = d
        BY <2>3, <3>3
      <4> QED
        BY <3>3, <4>1 DEF TalkInv, ClosedApart
    <3> QED
      BY <2>2, <3>1, <3>2, <3>3
  <2> QED
    BY <1>0, <1>2, <2>1, <2>3 DEF TalkInv, ClosedApart, Held, NetTypeOK
<1>4. SlotPerConnection'
  BY <1>2 DEF TalkInv, SlotPerConnection, Accepted, Held
<1>5. CASE up /\ WithinTable
  <2>1. SlotsTalk /\ FreshSlots /\ OthersTalk /\ ClosedApart
    BY <1>5 DEF TalkInv, Conversing
  <2>2. \A c \in Clients :
          /\ c \notin srvClosed /\ Unread(c) => Unread(c)'
          /\ c \notin srvClosed /\ Answered(c) => Answered(c)'
          /\ Finished(c) => Finished(c)'
          /\ \A x : Junked(c, x) => Junked(c, x)'
    BY <1>0, <1>5, ClientsKeep
  <2>3. \A s \in Slots : LiveSlot(s) => fdTable[frame[Sock(s)]] \in Clients \ srvClosed
    BY <1>0, <2>1 DEF TalkInv, Inv, TableMatchesFiles, ClosedApart, Held
  <2>4. SlotsTalk'
    <3> SUFFICES ASSUME NEW s \in Slots, LiveSlot(s) PROVE SlotTalks(s)'
      BY <1>2 DEF SlotsTalk, LiveSlot
    <3> DEFINE c == fdTable[frame[Sock(s)]]
    <3>1. c \in Clients \ srvClosed /\ c' = c
      BY <1>2, <2>3
    <3> HIDE DEF c
    <3>2. SlotTalks(s)
      BY <2>1 DEF SlotsTalk
    <3> QED
      BY <1>2, <2>2, <3>1, <3>2 DEF SlotTalks, c
  <2>5. FreshSlots' /\ OthersTalk'
    BY <1>2, <2>1, <2>2 DEF FreshSlots, OthersTalk, Held
  <2> QED
    BY <1>1, <1>2, <1>3, <1>4, <1>5, <2>4, <2>5 DEF TalkInv, Conversing
<1>6. CASE ~up /\ WithinTable
  <2>1. \A c \in Clients : Leftover(c)'
    BY <1>0, <1>6, AllLeave, ClientWindsUp, OthersStay
  <2> QED
    BY <1>1, <1>2, <1>3, <1>4, <1>6, <2>1 DEF TalkInv, Conversing
<1>7. CASE ~WithinTable
  BY <1>1, <1>2, <1>3, <1>4, <1>7 DEF TalkInv, Conversing, WithinTable
<1> QED
  BY <1>5, <1>6, <1>7

-----------------------------------------------------------------------------
(***************************************************************************)
(* accept(): the new slot is fresh, and its connection not read from yet.  *)
(***************************************************************************)
LEMMA AcceptTalks ==
    ASSUME TalkInv, up, Accept
    PROVE  TalkInv'
<1>2. /\ fdTable \in [Fds -> Clients \cup {NoClient}] /\ frame \in [Frame -> Int]
      /\ backlog \in Seq(Clients) /\ slotI \in Nat /\ NetTypeOK
      /\ NoClient \notin Clients
  BY NetAssumption DEF TalkInv, Inv, TypeOK, NetTypeOK
<1>3. /\ backlog # << >> /\ backlog' = Tail(backlog) /\ slotI' = slotI + 1
      /\ UNCHANGED <<cpc, xNum, toServer, toClient, srvClosed, printed, up>> /\ UNCHANGED clientVars
  BY DEF Accept, TalkInv, Inv, StillReady, clientVars
<1>0. PICK h \in Clients : h = Head(backlog)
  BY <1>2, <1>3
<1>1. PICK fd \in Fds :
        /\ fdTable[fd] = NoClient
        /\ fdTable' = [fdTable EXCEPT ![fd] = h]
        /\ frame' = [frame EXCEPT ![slotI] = fd]
  BY <1>0 DEF Accept, LowestFree
<1>4. /\ h = backlog[1] /\ 1 \in 1 .. Len(backlog)
      /\ \A k \in 1 .. Len(backlog') : k + 1 \in 1 .. Len(backlog) /\ backlog'[k] = backlog[k + 1]
  BY <1>0, <1>2, <1>3
<1>5. h \notin srvClosed /\ ~Held(h)
  BY <1>2, <1>4 DEF TalkInv, ClosedApart, Inv, ConnectionsDistinct, Held
<1>6. \A gd \in Fds : fdTable'[gd] = IF gd = fd THEN h ELSE fdTable[gd]
  BY <1>1, <1>2
<1>7. \A c \in Clients : Held(c)' <=> Held(c) \/ c = h
  BY <1>1, <1>2, <1>6 DEF Held
<1>8. Inv'
  BY AcceptInv DEF TalkInv
<1>9. ClosedApart'
  <2>1. \A c \in srvClosed : c \in Clients /\ c # h
    BY <1>2, <1>5 DEF NetTypeOK
  <2> QED
    BY <1>3, <1>4, <1>7, <2>1 DEF TalkInv, ClosedApart
<1>10. SlotPerConnection'
  <2>1. Accepted' = Accepted \cup {h}
    BY <1>3, <1>4, <1>7 DEF Accepted
  <2>2. h \notin Accepted
    BY <1>5 DEF Accepted
  <2>3. IsFiniteSet(Accepted)
    BY AsyncAssumption, FS_Subset DEF Accepted
  <2>4. Cardinality(Accepted \cup {h}) = Cardinality(Accepted) + 1
    BY <2>2, <2>3, FS_AddElement
  <2> QED
    BY <1>3, <2>1, <2>4 DEF TalkInv, SlotPerConnection
<1>11. ASSUME WithinTable' PROVE SlotsTalk' /\ FreshSlots' /\ OthersTalk'
  <2>1. slotI \in Slots /\ WithinTable
    BY <1>2, <1>3, <1>11, NetAssumption DEF WithinTable, Slots
  <2>2. SlotsTalk /\ FreshSlots /\ OthersTalk
    BY <2>1 DEF TalkInv, Conversing
  <2>3. \A s \in Slots : /\ frame'[Sock(s)] = IF s = slotI THEN fd ELSE frame[Sock(s)]
                         /\ frame'[Flag(s)] = frame[Flag(s)]
                         /\ frame'[XNum(s)] = frame[XNum(s)]
    <3>1. ASSUME NEW s \in Slots
          PROVE  /\ Sock(s) = slotI <=> s = slotI
                 /\ Flag(s) # slotI /\ XNum(s) # slotI
      BY <2>1, NetAssumption DEF Sock, Flag, XNum, Slots
    <3> QED
      BY <1>1, <1>2, <3>1, Cells
  <2>4. ASSUME NEW s \in Slots, LiveSlot(s)' PROVE SlotTalks(s)'
    <3>1. CASE s = slotI
      <4>1. fdTable'[frame'[Sock(s)]] = h
        BY <1>6, <2>3, <3>1
      <4>2. frame'[Flag(s)] = -1
        BY <1>2, <2>2, <2>3, <3>1 DEF FreshSlots
      <4>3. Unread(h)'
        BY <1>3, <1>5, <2>2, Untouched DEF OthersTalk
      <4> QED
        BY <4>1, <4>2, <4>3 DEF SlotTalks
    <3>2. CASE s # slotI
      <4>1. LiveSlot(s) /\ frame'[Sock(s)] = frame[Sock(s)]
        BY <2>3, <2>4, <3>2 DEF LiveSlot
      <4>2. frame[Sock(s)] \in Fds /\ fdTable[frame[Sock(s)]] # NoClient
        BY <4>1 DEF TalkInv, Inv, TableMatchesFiles
      <4>3. PICK c \in Clients : c = fdTable[frame[Sock(s)]] /\ c = fdTable'[frame'[Sock(s)]]
        BY <1>1, <1>2, <1>6, <4>1, <4>2
      <4>4. SlotTalks(s)
        BY <2>2, <4>1 DEF SlotsTalk
      <4>5. /\ Unread(c) => Unread(c)'
            /\ Answered(c) => Answered(c)'
            /\ \A x : Junked(c, x) => Junked(c, x)'
        BY <1>3, Untouched
      <4> QED
        BY <1>3, <2>3, <4>3, <4>4, <4>5 DEF SlotTalks
    <3> QED
      BY <3>1, <3>2
  <2>5. OthersTalk'
    BY <1>3, <1>7, <2>2, Untouched DEF OthersTalk
  <2>6. FreshSlots'
    BY <1>2, <1>3, <2>2, <2>3 DEF FreshSlots, Slots
  <2> QED
    BY <2>4, <2>5, <2>6 DEF SlotsTalk
<1> QED
  BY <1>3, <1>8, <1>9, <1>10, <1>11 DEF TalkInv, Conversing

-----------------------------------------------------------------------------
(***************************************************************************)
(* The handlers.                                                           *)
(***************************************************************************)
\* X is received and answered in one step.
LEMMA ShakesOnce ==
    ASSUME NetTypeOK, NEW c \in Clients, Unread(c), toServer[c] # << >>, UNCHANGED clientVars,
           Fputs(c, Received(c)), ServerSend(c, Wrap(Received(c) + 1)), Drain(c)
    PROVE  Answered(c)' /\ Received(c) = xNum[c]
<1>1. \A n : Head(<<n>>) = n /\ Append(<< >>, n) = <<n>> /\ << >> # <<n>>
  OBVIOUS
<1>2. /\ Received(c) = xNum[c] /\ printed[c] = << >> /\ toClient[c] = << >>
      /\ cpc[c] \in {"recvY", "failed"}
  BY <1>1 DEF Unread, Received
<1>3. printed'[c] = <<xNum[c]>> /\ toServer'[c] = << >>
  BY <1>1, <1>2 DEF NetTypeOK, Fputs, Drain
<1>4. (toClient'[c] = << >> /\ cpc[c] = "failed") \/ toClient'[c] = <<Y(c)>>
  BY <1>1, <1>2 DEF NetTypeOK, ServerSend, Ended, Y
<1> QED
  BY <1>2, <1>3, <1>4 DEF Answered, Y, clientVars

\* An ended client without a message, of which nothing was read, had died.
LEMMA SilentIsDead ==
    ASSUME NEW c \in Clients, Unread(c), toServer[c] = << >>, Readable(c)
    PROVE  cpc[c] = "failed"
<1>1. \A n : << >> # <<n>>
  OBVIOUS
<1> QED
  BY <1>1 DEF Unread, Readable, Ended

\* A handler concerns one slot and its connection.
LEMMA OneSlotHandled ==
    ASSUME TalkInv, up, WithinTable, AtReadySlot, UNCHANGED clientVars,
           \A d \in Clients : d # Conn => /\ printed'[d] = printed[d]
                                          /\ toServer'[d] = toServer[d]
                                          /\ toClient'[d] = toClient[d],
           \A r \in Slots : r # i => /\ frame'[Sock(r)] = frame[Sock(r)]
                                     /\ frame'[Flag(r)] = frame[Flag(r)]
                                     /\ frame'[XNum(r)] = frame[XNum(r)],
           \A fd \in Fds : fd # frame[Sock(i)] => fdTable'[fd] = fdTable[fd]
    PROVE  /\ \A r \in Slots : r # i /\ LiveSlot(r)' => SlotTalks(r)'
           /\ \A d \in Clients : d # Conn => /\ Unread(d) => Unread(d)'
                                             /\ Finished(d) => Finished(d)'
<1>1. Inv /\ SlotsTalk /\ fdTable \in [Fds -> Clients \cup {NoClient}]
  BY DEF TalkInv, Conversing, Inv, TypeOK
<1>2. ASSUME NEW r \in Slots, r # i, LiveSlot(r)' PROVE SlotTalks(r)'
  <2>1. LiveSlot(r)
    BY <1>2 DEF LiveSlot
  <2>2. frame[Sock(r)] \in Fds /\ frame[Sock(r)] # frame[Sock(i)]
        /\ fdTable[frame[Sock(r)]] \in Clients /\ fdTable[frame[Sock(r)]] # Conn
    BY <1>1, <1>2, <2>1, SlotsAreApart
  <2>3. PICK d \in Clients : d # Conn /\ d = fdTable[frame[Sock(r)]] /\ d = fdTable'[frame'[Sock(r)]]
    BY <1>2, <2>2
  <2>4. SlotTalks(r)
    BY <1>1, <2>1 DEF SlotsTalk
  <2>5. /\ Unread(d) => Unread(d)'
        /\ Answered(d) => Answered(d)'
        /\ \A x : Junked(d, x) => Junked(d, x)'
    BY <2>3, Untouched
  <2>6. xNum' = xNum
    BY DEF clientVars
  <2> QED
    BY <1>2, <2>3, <2>4, <2>5, <2>6 DEF SlotTalks
<1>3. ASSUME NEW d \in Clients, d # Conn
      PROVE  (Unread(d) => Unread(d)') /\ (Finished(d) => Finished(d)')
  BY <1>3, Untouched
<1> QED
  BY <1>2, <1>3

\* What the scan's slot says of its conversation.
LEMMA SlotSays ==
    ASSUME TalkInv, up, WithinTable, AtReadySlot
    PROVE  /\ Conn \in Clients /\ Held(Conn) /\ Conn \notin srvClosed
           /\ frame[Flag(i)] = -1 => Unread(Conn)
           /\ frame[Flag(i)] > -1 => \/ Answered(Conn) /\ frame[XNum(i)] = xNum[Conn]
                                     \/ Junked(Conn, frame[XNum(i)])
<1>1. Inv /\ SlotsTalk /\ ClosedApart
  BY DEF TalkInv, Conversing
<1>2. i \in Slots /\ LiveSlot(i) /\ frame[Sock(i)] \in Fds /\ Conn \in Clients
  BY <1>1, ReadySlot
<1>3. SlotTalks(i)
  BY <1>1, <1>2 DEF SlotsTalk
<1>4. Held(Conn)
  BY <1>2 DEF Held, Conn
<1> QED
  BY <1>1, <1>2, <1>3, <1>4 DEF SlotTalks, Conn, ClosedApart

\* A first handler: its slot holds what was printed, and keeps its connection.
LEMMA ShakenTalks ==
    ASSUME TalkInv, up, Inv', AtReadySlot, NEW s \in Slots, s = i,
           NEW c \in Clients, c = Conn, NEW n \in Int, Fputs(c, n),
           frame' = [frame EXCEPT ![Flag(s)] = 0, ![XNum(s)] = n],
           ServerSend(c, Wrap(n + 1)),
           Drain(c) \/ UNCHANGED toServer,
           UNCHANGED <<clientVars, backlog, srvClosed, up, fdTable, slotI>>,
           WithinTable => \/ Answered(c)' /\ n = xNum[c]
                          \/ Junked(c, n)'
    PROVE  TalkInv'
<1>1. ClosedApart' /\ SlotPerConnection'
  BY DEF TalkInv, ClosedApart, SlotPerConnection, Accepted, Held, clientVars
<1>2. ASSUME WithinTable PROVE SlotsTalk' /\ FreshSlots' /\ OthersTalk'
  <2>1. /\ LiveSlot(s) /\ s < slotI /\ frame \in [Frame -> Int] /\ NetTypeOK
        /\ slotI \in Nat
    BY ReadySlot DEF TalkInv, Inv, TypeOK, TableMatchesFiles
  <2>2. /\ frame'[Flag(s)] = 0 /\ frame'[XNum(s)] = n /\ frame'[Sock(s)] = frame[Sock(s)]
        /\ \A r \in Slots : r # s => /\ frame'[Sock(r)] = frame[Sock(r)]
                                     /\ frame'[Flag(r)] = frame[Flag(r)]
                                     /\ frame'[XNum(r)] = frame[XNum(r)]
    <3>1. \A a \in Frame : frame'[a] = IF a = XNum(s) THEN n
                                       ELSE IF a = Flag(s) THEN 0 ELSE frame[a]
      BY <2>1
    <3> QED
      BY <2>1, <3>1, Cells
  <2>3. \A d \in Clients : d # c => /\ printed'[d] = printed[d]
                                       /\ toServer'[d] = toServer[d]
                                       /\ toClient'[d] = toClient[d]
    BY <2>1 DEF NetTypeOK, Fputs, ServerSend, Drain
  <2>4. /\ \A r \in Slots : r # s /\ LiveSlot(r)' => SlotTalks(r)'
        /\ \A d \in Clients : d # c => (Unread(d) => Unread(d)') /\ (Finished(d) => Finished(d)')
    BY <1>2, <2>2, <2>3, OneSlotHandled
  <2>5. SlotTalks(s)'
    <3>1. fdTable'[frame'[Sock(s)]] = c
      BY <2>2 DEF Conn
    <3> QED
      BY <1>2, <2>2, <3>1 DEF SlotTalks, clientVars
  <2>6. SlotsTalk'
    BY <2>4, <2>5 DEF SlotsTalk
  <2>7. FreshSlots'
    <3> SUFFICES ASSUME NEW r \in Slots, r >= slotI PROVE frame'[Flag(r)] = -1
      BY DEF FreshSlots
    <3>1. r # s
      BY <2>1, Numbers
    <3>2. FreshSlots
      BY <1>2 DEF TalkInv, Conversing
    <3>3. frame[Flag(r)] = -1
      BY <3>2 DEF FreshSlots
    <3> QED
      BY <2>2, <3>1, <3>3
  <2>8. OthersTalk'
    <3>1. \A d \in Clients : Held(d)' <=> Held(d)
      BY DEF Held
    <3>2. Held(c) /\ c \notin srvClosed
      BY <1>2, SlotSays
    <3> QED
      BY <1>2, <2>4, <3>1, <3>2 DEF TalkInv, Conversing, OthersTalk
  <2> QED
    BY <2>6, <2>7, <2>8
<1> QED
  BY <1>1, <1>2 DEF TalkInv, Conversing, WithinTable

LEMMA FirstShakeTalks ==
    ASSUME TalkInv, up, FirstShake
    PROVE  TalkInv'
<1>1. Inv /\ Inv' /\ NetTypeOK /\ AtReadySlot
  BY FirstShakeInv DEF TalkInv, Inv, TypeOK, FirstShake
<1>2. PICK c \in Clients : c = Conn
  BY <1>1, ReadySlot
<1>3. PICK s \in Slots : s = i
  BY <1>1, ReadySlot
<1>4. Received(c) \in Int /\ toServer[c] # << >>
  BY <1>1, <1>2, ReceivedTypes, IntsAreIntegers DEF FirstShake
<1>5. /\ Fputs(c, Received(c)) /\ ServerSend(c, Wrap(Received(c) + 1)) /\ Drain(c)
      /\ frame' = [frame EXCEPT ![Flag(s)] = 0, ![XNum(s)] = Received(c)]
      /\ UNCHANGED <<clientVars, backlog, srvClosed, up, fdTable, slotI>>
  BY <1>2, <1>3 DEF FirstShake
<1>6. ASSUME WithinTable PROVE Answered(c)' /\ Received(c) = xNum[c]
  <2>1. Unread(c)
    BY <1>1, <1>2, <1>6, SlotSays DEF FirstShake
  <2> QED
    BY <1>1, <1>4, <1>5, <2>1, ShakesOnce
<1>7. PICK n \in Int : n = Received(c)
  BY <1>4
<1> QED
  BY <1>1, <1>2, <1>3, <1>5, <1>6, <1>7, ShakenTalks

LEMMA FirstShakeEmptyTalks ==
    ASSUME TalkInv, up, FirstShakeEmpty
    PROVE  TalkInv'
<1>1. Inv /\ Inv' /\ NetTypeOK /\ AtReadySlot /\ UNCHANGED toServer
  BY FirstShakeEmptyInv DEF TalkInv, Inv, TypeOK, FirstShakeEmpty
<1>2. PICK c \in Clients : c = Conn
  BY <1>1, ReadySlot
<1>3. PICK s \in Slots : s = i
  BY <1>1, ReadySlot
<1>4. CASE Exit /\ UNCHANGED <<printed, toClient, frame, i>>
  BY <1>1, <1>4, ExitTalks DEF FirstShakeEmpty
<1>5. CASE ~(Exit /\ UNCHANGED <<printed, toClient, frame, i>>)
  <2>1. PICK n \in Junk :
          /\ Fputs(c, n) /\ ServerSend(c, Wrap(n + 1))
          /\ frame' = [frame EXCEPT ![Flag(s)] = 0, ![XNum(s)] = n]
    BY <1>2, <1>3, <1>5 DEF FirstShakeEmpty
  <2>2. n \in Int /\ Ended(c)
    BY <1>2, <1>5, AsyncAssumption, IntsAreIntegers DEF FirstShakeEmpty
  <2>3. UNCHANGED <<clientVars, backlog, srvClosed, up, fdTable, slotI>>
    BY <1>5 DEF FirstShakeEmpty
  <2>4. ASSUME WithinTable PROVE Junked(c, n)'
    <3>1. Unread(c) /\ toServer[c] = << >> /\ Readable(c)
      BY <1>1, <1>2, <2>2, <2>4, SlotSays DEF FirstShakeEmpty, Readable
    <3>2. cpc[c] = "failed" /\ printed[c] = << >> /\ toClient[c] = << >>
      BY <3>1, SilentIsDead DEF Unread
    <3>3. printed'[c] = <<n>> /\ toClient'[c] = << >>
      <4>1. Append(<< >>, n) = <<n>>
        OBVIOUS
      <4> QED
        BY <1>1, <2>1, <2>2, <3>2, <4>1 DEF Fputs, ServerSend, NetTypeOK
    <3> QED
      BY <1>1, <2>3, <3>1, <3>2, <3>3 DEF Junked, clientVars
  <2> QED
    BY <1>1, <1>2, <1>3, <2>1, <2>2, <2>3, <2>4, ShakenTalks
<1> QED
  BY <1>4, <1>5

\* What the second handler finds in a slot: Z, or that its client has ended.
LEMMA SecondSays ==
    ASSUME TalkInv, up, WithinTable, AtReadySlot, frame[Flag(i)] > -1
    PROVE  IF toServer[Conn] # << >>
           THEN Answered(Conn) /\ Received(Conn) = Wrap(frame[XNum(i)] + 2)
           ELSE cpc[Conn] = "failed"
<1>1. PICK c \in Clients : c = Conn
  BY SlotSays
<1>2. NetTypeOK /\ Readable(c) /\ Z(c) = Wrap(xNum[c] + 2)
  BY <1>1, ReadySlot, ZIsX2 DEF TalkInv, Inv, TypeOK, Service!Wrap, Wrap
<1>3. \A n : << >> # <<n>>
  OBVIOUS
<1>4. \/ Answered(c) /\ frame[XNum(i)] = xNum[c]
      \/ toServer[c] = << >> /\ cpc[c] = "failed"
  BY <1>1, SlotSays DEF Junked
<1>5. Answered(c) /\ toServer[c] # << >> => Received(c) = Z(c)
  BY <1>2, ZReceived
<1>6. Answered(c) /\ toServer[c] = << >> => cpc[c] = "failed"
  BY <1>2, <1>3 DEF Answered, Readable, Ended
<1> QED
  BY <1>1, <1>2, <1>4, <1>5, <1>6

LEMMA SecondShakeTalks ==
    ASSUME TalkInv, up, SecondShake
    PROVE  TalkInv'
<1>1. Inv /\ Inv' /\ NetTypeOK /\ AtReadySlot /\ UNCHANGED <<clientVars, toClient, backlog, slotI>>
  BY SecondShakeInv DEF TalkInv, Inv, TypeOK, SecondShake
<1>2. PICK c \in Clients : c = Conn
  BY <1>1, ReadySlot
<1>3. PICK s \in Slots : s = i
  BY <1>1, ReadySlot
<1>4. PICK f \in Fds : f = frame[Sock(i)] /\ c = fdTable[f]
  BY <1>1, <1>2, ReadySlot DEF Conn
<1>5. /\ frame \in [Frame -> Int] /\ fdTable \in [Fds -> Clients \cup {NoClient}]
      /\ NoClient \notin Clients
      /\ \A fd \in Fds : fdTable[fd] = c => fd = f
  BY <1>1, <1>4, NetAssumption DEF Inv, TypeOK, ConnectionsDistinct
<1>6. CASE Exit /\ UNCHANGED <<printed, toServer, rfds, fdTable, srvClosed, frame, i>>
  BY <1>1, <1>6, ExitTalks
<1>7. CASE ~(Exit /\ UNCHANGED <<printed, toServer, rfds, fdTable, srvClosed, frame, i>>)
  <2>1. /\ toServer[c] # << >> /\ Fputs(c, Received(c)) /\ Drain(c)
        /\ fdTable' = [fdTable EXCEPT ![f] = NoClient]
        /\ srvClosed' = srvClosed \cup {c}
        /\ frame' = [frame EXCEPT ![Sock(s)] = -1]
        /\ UNCHANGED up
    BY <1>2, <1>3, <1>4, <1>7 DEF SecondShake
  <2>2. \A fd \in Fds : fdTable'[fd] = IF fd = f THEN NoClient ELSE fdTable[fd]
    BY <1>5, <2>1
  <2>3. \A d \in Clients : Held(d)' <=> Held(d) /\ d # c
    BY <1>4, <1>5, <2>2 DEF Held
  <2>4. cpc' = cpc /\ backlog' = backlog /\ slotI' = slotI
    BY <1>1 DEF clientVars
  <2>5. ClosedApart'
    <3>1. cpc[c] # "connect" /\ \A k \in 1 .. Len(backlog) : backlog[k] # c
      BY <1>1, <1>4, <1>5 DEF Inv, ConnectionsDistinct
    <3>2. srvClosed \subseteq Clients
      BY <1>1 DEF NetTypeOK
    <3> QED
      BY <2>1, <2>3, <2>4, <3>1, <3>2 DEF TalkInv, ClosedApart
  <2>6. SlotPerConnection'
    <3>1. Held(c)
      BY <1>4 DEF Held
    <3>2. Accepted' = Accepted
      BY <2>1, <2>3, <3>1 DEF Accepted
    <3> QED
      BY <2>4, <3>2 DEF TalkInv, SlotPerConnection
  <2>7. ASSUME WithinTable PROVE SlotsTalk' /\ FreshSlots' /\ OthersTalk'
    <3>1. Answered(c)
      BY <1>1, <1>2, <2>1, <2>7, SecondSays DEF SecondShake
    <3>2. Finished(c)'
      BY <1>1, <2>1, <3>1, ReceivesZ
    <3>3. \A r \in Slots : /\ frame'[Sock(r)] = IF r = s THEN -1 ELSE frame[Sock(r)]
                           /\ frame'[Flag(r)] = frame[Flag(r)]
                           /\ frame'[XNum(r)] = frame[XNum(r)]
      BY <1>5, <2>1, Cells
    <3>4. \A d \in Clients : d # c => /\ printed'[d] = printed[d]
                                      /\ toServer'[d] = toServer[d]
                                      /\ toClient'[d] = toClient[d]
      BY <1>1, <2>1 DEF NetTypeOK, Fputs, Drain
    <3>5. /\ \A r \in Slots : r # s /\ LiveSlot(r)' => SlotTalks(r)'
          /\ \A d \in Clients : d # c => (Unread(d) => Unread(d)') /\ (Finished(d) => Finished(d)')
      BY <1>1, <1>2, <1>3, <1>4, <2>2, <2>7, <3>3, <3>4, OneSlotHandled
    <3>6. SlotsTalk'
      BY <3>3, <3>5 DEF SlotsTalk, LiveSlot
    <3>7. FreshSlots'
      BY <2>4, <2>7, <3>3 DEF TalkInv, Conversing, FreshSlots
    <3>8. OthersTalk'
      BY <2>1, <2>3, <2>7, <3>2, <3>5 DEF TalkInv, Conversing, OthersTalk
    <3> QED
      BY <3>6, <3>7, <3>8
  <2> QED
    BY <1>1, <2>1, <2>4, <2>5, <2>6, <2>7 DEF TalkInv, Conversing, WithinTable
<1> QED
  BY <1>6, <1>7

-----------------------------------------------------------------------------
(***************************************************************************)
(* The theorems.                                                           *)
(***************************************************************************)
LEMMA TalkStep == TalkInv /\ [Next]_vars => TalkInv'
<1> SUFFICES ASSUME TalkInv, [Next]_vars PROVE TalkInv'
  OBVIOUS
<1>0. Inv'
  BY NextInv DEF TalkInv
<1>1. CASE up /\ (Select \/ SkipAccept \/ SkipSlot \/ EndScan)
  BY <1>0, <1>1, QuietTalks DEF Select, SkipAccept, SkipSlot, EndScan
<1>2. CASE up /\ Accept
  BY <1>2, AcceptTalks
<1>3. CASE up /\ (FirstShake \/ FirstShakeEmpty \/ SecondShake)
  BY <1>3, FirstShakeTalks, FirstShakeEmptyTalks, SecondShakeTalks
<1>4. ASSUME NEW c \in Clients, Client(c) \/ (Kill(c) /\ UNCHANGED serverVars) PROVE TalkInv'
  BY <1>4, ClientTalks DEF Client
<1>5. CASE UNCHANGED vars
  BY <1>0, <1>5, QuietTalks DEF vars, serverVars
<1> QED
  BY <1>1, <1>2, <1>3, <1>4, <1>5 DEF Next, Server, Idle

LEMMA TalkAlways == Spec => []TalkInv
BY InitTalks, TalkStep, PTL DEF Spec

\* Until the table overflows, the flag and the number of every slot are those of the
\* conversation whose descriptor the slot holds, although slots, descriptors and
\* connections come and go at different moments and clients may die at any.
THEOREM SlotsMatch == Spec => []SlotMatchesConversation
<1>1. TalkInv => SlotMatchesConversation
  BY DEF TalkInv, Conversing, SlotsTalk, SlotTalks, SlotMatchesConversation, Unread, Answered,
         Junked
<1> QED
  BY <1>1, TalkAlways, PTL

\* With no more clients than the table has slots, the table never overflows.
LEMMA TableSuffices ==
    ASSUME Cardinality(Clients) <= MaxPending, TalkInv
    PROVE  WithinTable
<1>1. Accepted \subseteq Clients
  BY DEF Accepted
<1>2. Cardinality(Accepted) <= Cardinality(Clients) /\ Cardinality(Accepted) \in Nat
  BY <1>1, AsyncAssumption, FS_Subset, FS_CardinalityType
<1> QED
  BY <1>2, Numbers DEF TalkInv, SlotPerConnection, WithinTable

LEMMA InitServes == Init => Service!Init
<1>1. Init => \A c \in Clients : Outcome(c) = "running"
  BY OutcomeIs DEF Init, NetInit
<1> QED
  BY <1>1 DEF Init, NetInit, Service!Init

\* Whatever is in the buffer is printed for a client that died.
LEMMA PrintsJunk ==
    ASSUME NEW c \in Clients, up, Unread(c), cpc[c] = "failed", NEW n \in CInt, Fputs(c, n),
           UNCHANGED <<cpc, xNum, up>>
    PROVE  Service!Next
<1>1. Service!PrintForDead(c)
  BY OutcomeIs DEF Service!PrintForDead, Service!Fputs, Service!CInt, CInt, Fputs, Outcome, Unread
<1> QED
  BY <1>1 DEF Service!Next

LEMMA ExitsForDead ==
    ASSUME NEW c \in Clients, up, cpc[c] = "failed", Exit, UNCHANGED <<cpc, xNum, printed>>
    PROVE  Service!Next
<1>1. Service!ServerExits
  BY OutcomeIs DEF Service!ServerExits, Exit, Outcome
<1> QED
  BY <1>1 DEF Service!Next

LEMMA StepServes ==
    ASSUME TalkInv, WithinTable, [Next]_vars
    PROVE  Service!Next \/ UNCHANGED Service!vars
<1>0. NetTypeOK /\ Inv
  BY DEF TalkInv, Inv, TypeOK
<1>1. ASSUME NEW c \in Clients, Client(c) \/ Kill(c)
      PROVE  Service!Next \/ UNCHANGED Service!vars
  <2>1. CASE up
    <3>1. cpc[c] # "failed"
      BY <1>1 DEF Client, Connect, ClientStep, SendX, RecvY, SendZ, Close, Kill, Ended
    <3>2. PICK k : Stage(c, k) /\ (c \in srvClosed => k = "finished")
      BY <2>1, <3>1, AtAStage DEF Junked
    <3> QED
      BY <1>0, <1>1, <2>1, <3>2, ClientRefines DEF Client
  <2>2. CASE ~up
    <3>1. Leftover(c)
      BY AllLeave
    <3> QED
      BY <1>0, <1>1, <2>2, <3>1, ClientRefines DEF Client
  <2> QED
    BY <2>1, <2>2
<1>2. CASE up /\ (Select \/ SkipAccept \/ Accept \/ SkipSlot \/ EndScan)
  BY <1>2, Stutters DEF Select, SkipAccept, Accept, SkipSlot, EndScan, netVars, clientVars
<1>3. CASE up /\ FirstShake
  <2>1. PICK c \in Clients : c = Conn /\ Unread(c)
    BY <1>0, <1>3, SlotSays DEF FirstShake
  <2> QED
    BY <1>0, <1>3, <2>1, PrintsX DEF FirstShake, clientVars
<1>4. CASE up /\ FirstShakeEmpty
  <2>1. PICK c \in Clients : c = Conn /\ Unread(c) /\ toServer[c] = << >> /\ Readable(c)
    BY <1>0, <1>4, SlotSays, ReadySlot DEF FirstShakeEmpty
  <2>2. cpc[c] = "failed" /\ UNCHANGED <<cpc, xNum>>
    BY <1>4, <2>1, SilentIsDead DEF FirstShakeEmpty, clientVars
  <2>3. CASE Exit /\ UNCHANGED printed
    BY <1>4, <2>2, <2>3, ExitsForDead
  <2>4. CASE ~(Exit /\ UNCHANGED printed)
    <3>1. PICK n \in Junk : Fputs(c, n) /\ UNCHANGED up
      BY <1>4, <2>1, <2>4 DEF FirstShakeEmpty
    <3> QED
      BY <1>4, <2>1, <2>2, <3>1, AsyncAssumption, PrintsJunk
  <2> QED
    BY <2>3, <2>4
<1>5. CASE up /\ SecondShake
  <2>1. PICK c \in Clients : c = Conn
    BY <1>5, SlotSays DEF SecondShake
  <2>2. /\ toServer[c] # << >> => Answered(c) /\ Received(c) = Wrap(frame[XNum(i)] + 2)
        /\ toServer[c] = << >> => cpc[c] = "failed"
    BY <1>5, <2>1, SecondSays DEF SecondShake
  <2>3. UNCHANGED <<cpc, xNum>>
    BY <1>5 DEF SecondShake, clientVars
  <2>4. CASE toServer[c] # << >>
    <3>1. Fputs(c, Received(c)) /\ UNCHANGED up
      BY <1>5, <2>1, <2>2, <2>4 DEF SecondShake
    <3> QED
      BY <1>0, <1>5, <2>2, <2>3, <2>4, <3>1, PrintsZ
  <2>5. CASE toServer[c] = << >>
    <3>1. Exit /\ UNCHANGED printed
      BY <1>5, <2>1, <2>5 DEF SecondShake
    <3> QED
      BY <1>5, <2>2, <2>3, <2>5, <3>1, ExitsForDead
  <2> QED
    BY <2>4, <2>5
<1>6. CASE Idle \/ UNCHANGED vars
  BY <1>6, Stutters DEF Idle, vars, netVars
<1> QED
  BY <1>1, <1>2, <1>3, <1>4, <1>5, <1>6 DEF Next, Server

\* With no more clients than MAX_PENDING, the select() server keeps the promise of
\* HandshakeService: X and then X + 2 printed for each client, in int arithmetic,
\* whatever the order in which it meets them in its table, and whichever are killed.
THEOREM Refinement ==
    ASSUME Cardinality(Clients) <= MaxPending
    PROVE  Spec => ServiceSpec
<1>1. TalkInv /\ [Next]_vars => [Service!Next]_Service!vars
  BY TableSuffices, StepServes
<1> QED
  BY <1>1, InitServes, TalkAlways, PTL DEF Spec, ServiceSpec, Service!Spec

\* What the clients of the select() server, up to MAX_PENDING of them, can rely on: as
\* long as nobody is killed it stays up and no client fails, and whoever is killed, the
\* others have their own numbers printed, in order, and end well only with X printed.
THEOREM ServesItsClients ==
    ASSUME Cardinality(Clients) <= MaxPending
    PROVE  Spec => [](ClientsServed /\ DownForAKill)
<1>1. Init => ClientsServed /\ DownForAKill
  BY StartsServed DEF Init
<1>2. TalkInv /\ ClientsServed /\ DownForAKill /\ [Next]_vars => (ClientsServed /\ DownForAKill)'
  BY TableSuffices, StepServes, ServiceServes, StutterServes DEF TalkInv, Inv, TypeOK
<1> QED
  BY <1>1, <1>2, TalkAlways, PTL DEF Spec

\* Until its table overflows, no recv() of the select() server or of its clients meets
\* two messages at once, whatever the order in which the connections are served.
THEOREM OneInFlight == Spec => [](WithinTable => AtMostOneInFlight)
<1>1. TalkInv /\ WithinTable => AtMostOneInFlight
  <2> SUFFICES ASSUME TalkInv, WithinTable, NEW c \in Clients
               PROVE  Len(toServer[c]) <= 1 /\ Len(toClient[c]) <= 1
    BY DEF AtMostOneInFlight
  <2>1. CASE ~up
    BY <2>1, AllLeave DEF Leftover
  <2>2. CASE up
    <3>1. ASSUME NEW k, Stage(c, k) PROVE Len(toServer[c]) <= 1 /\ Len(toClient[c]) <= 1
      BY <3>1, StageLeaves DEF TalkInv, Inv, TypeOK, Leftover
    <3>2. ASSUME NEW x, Junked(c, x) PROVE Len(toServer[c]) <= 1 /\ Len(toClient[c]) <= 1
      <4>1. Len(<< >>) = 0
        OBVIOUS
      <4> QED
        BY <3>2, <4>1 DEF Junked
    <3> QED
      BY <2>2, <3>1, <3>2, AtAStage
  <2> QED
    BY <2>1, <2>2
<1> QED
  BY <1>1, TalkAlways, PTL
=============================================================================
