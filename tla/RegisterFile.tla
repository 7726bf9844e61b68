----------------------------- MODULE RegisterFile -----------------------------
(***************************************************************************)
(* What the library promises of the registers of the waves: each wave has  *)
(* one register file.  A wave that is not stopped changes its registers;   *)
(* the registers of a stopped wave are what the client, or the library     *)
(* when it gives the wave an id, last wrote, and a read returns them.      *)
(* There are no queues, save areas or caches here.                         *)
(***************************************************************************)
CONSTANTS Waves,      \* the waves of the process
          Index,      \* the bytes of one wave's registers
          IdByte,     \* the byte that holds the wave_id (a ttmp register)
          Values,     \* what a byte may hold
          Undefined,  \* wave_t::undefined, in the id byte of a new wave
          WaveId,     \* an id, in the id byte of a wave the library knows
          NoValue     \* the registers of a wave that is lost

VARIABLES reg,        \* the value of each byte
          stopped,    \* the waves that the library has stopped
          lost,       \* the waves whose queue has been destroyed
          got         \* the last answer to a read

fileVars == <<reg, stopped, lost, got>>

Bytes == Waves \X Index
BytesOf(W) == W \X Index

Init ==
  /\ reg \in [Bytes -> Values]
  /\ \A w \in Waves : reg[<<w, IdByte>>] = Undefined
  /\ stopped = {}
  /\ lost = {}
  /\ got = NoValue

\* A wave that is not stopped computes.
Compute(w, i, v) ==
  /\ w \notin stopped \cup lost
  /\ i # IdByte
  /\ reg' = [reg EXCEPT ![<<w, i>>] = v]
  /\ UNCHANGED <<stopped, lost, got>>

\* The library finds a wave in a save area: a new one is given an id, and the
\* wave may have stopped by itself.
Find(w) ==
  /\ reg' = IF w \in lost \/ reg[<<w, IdByte>>] # Undefined
              THEN reg ELSE [reg EXCEPT ![<<w, IdByte>>] = WaveId]
  /\ stopped' \in {stopped, stopped \cup {w}}
  /\ UNCHANGED <<lost, got>>

\* The client stops or resumes a wave.
Stop(w) ==
  /\ stopped' = stopped \cup {w}
  /\ UNCHANGED <<reg, lost, got>>

Start(w) ==
  /\ stopped' = stopped \ {w}
  /\ UNCHANGED <<reg, lost, got>>

\* A read of a stopped wave returns its registers.  What a read of a lost wave
\* returns is not promised.
Read(w, R) ==
  /\ w \in stopped
  /\ got' \in [R -> Values]
  /\ w \notin lost => \A i \in R : got'[i] = reg[<<w, i>>]
  /\ UNCHANGED <<reg, stopped, lost>>

Write(w, f) ==
  /\ w \in stopped
  /\ reg' = [b \in Bytes |->
               IF b[1] = w /\ b[2] \in DOMAIN f /\ w \notin lost
                 THEN f[b[2]] ELSE reg[b]]
  /\ UNCHANGED <<stopped, lost, got>>

\* The queue of some waves is destroyed; later their objects are.
Lose(W) ==
  /\ lost' = lost \cup W
  /\ reg' = [b \in Bytes |-> IF b[1] \in W THEN NoValue ELSE reg[b]]
  /\ UNCHANGED <<stopped, got>>

Forget(W) ==
  /\ W \subseteq lost
  /\ stopped' = stopped \ W
  /\ UNCHANGED <<reg, lost, got>>

Next ==
  \/ \E w \in Waves : \/ Find(w) \/ Stop(w) \/ Start(w)
                      \/ \E i \in Index, v \in Values : Compute(w, i, v)
                      \/ \E R \in SUBSET Index :
                           \/ Read(w, R)
                           \/ \E f \in [R -> Values] : Write(w, f)
  \/ \E W \in SUBSET Waves : Lose(W) \/ Forget(W)

Spec == Init /\ [][Next]_fileVars

===============================================================================
