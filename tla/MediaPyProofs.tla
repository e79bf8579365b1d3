--------------------------- MODULE MediaPyProofs ---------------------------
(***************************************************************************)
(* Proofs about MediaPy for every bound on skipped keys, frames and        *)
(* inputs: a ratchet gives a key out once, the keys of the last max_skip    *)
(* generations are kept, both ratchets stem from the present epoch, frames *)
(* within the window are heard, and the voice gateway is told of           *)
(* transitions and of speaking in order.                                   *)
(***************************************************************************)
EXTENDS MediaPy, FiniteSetTheorems, SequenceTheorems, TLAPS

IsRatchet(r) ==
    /\ r = [base |-> r.base, generation |-> r.generation, skipped |-> r.skipped]
    /\ r.generation \in Nat /\ r.skipped \subseteq 0 .. r.generation - 1

(* A frame has a generation unless it was sent in the clear.               *)
Numbered(f) == f.gen \in Nat \/ (f.gen = None /\ f.seed = None)

Shape ==
    /\ IsRatchet(sending) /\ IsRatchet(receiving)
    /\ used \subseteq 0 .. receiving.generation - 1
    /\ sent \in 0 .. MaxSent
    /\ \A f \in net : Numbered(f)

IInv == Shape /\ RatchetsOfEpoch /\ KeysOnce /\ WindowKept

-----------------------------------------------------------------------------
(* derive_for.                                                             *)

(* Creating the ratchet changes neither its generation nor its cache.      *)
LEMMA RatchetMade ==
    ASSUME NEW r, IsRatchet(r), r = NoRatchet \/ r.base = secret
    PROVE  /\ IsRatchet(Ratchet(r)) /\ Ratchet(r).base = secret
           /\ Ratchet(r).generation = r.generation /\ Ratchet(r).skipped = r.skipped
  BY DEF IsRatchet, Ratchet, NoRatchet

(* An element with fewer than n integers above it, up to a bound, is among *)
(* the n newest.                                                           *)
LEMMA NewestKeeps ==
    ASSUME NEW n \in Nat, NEW g \in Nat, NEW S \in SUBSET (0 .. g - 1), NEW x \in S, x + n >= g
    PROVE  x \in Newest(S, n)
  <1> DEFINE above == {y \in S : x < y}
  <1>0. x \in Int /\ x \in 0 .. g - 1
    OBVIOUS
  <1>1. above \subseteq (x + 1) .. (g - 1)
    <2> SUFFICES ASSUME NEW y \in S, x < y PROVE y \in (x + 1) .. (g - 1)
      OBVIOUS
    <2>1. y \in 0 .. g - 1
      OBVIOUS
    <2> QED BY <1>0, <2>1
  <1>2. /\ IsFiniteSet((x + 1) .. (g - 1))
        /\ Cardinality((x + 1) .. (g - 1)) = IF x + 1 > g - 1 THEN 0 ELSE (g - 1) - (x + 1) + 1
    BY <1>0, FS_Interval
  <1>3. IsFiniteSet(above) /\ Cardinality(above) <= Cardinality((x + 1) .. (g - 1))
    BY <1>1, <1>2, FS_Subset
  <1>4. Cardinality(above) \in Nat
    BY <1>3, FS_CardinalityType
  <1>5. Cardinality(above) < n
    BY <1>0, <1>2, <1>3, <1>4
  <1> QED BY <1>5 DEF Newest

(* What a successful derive_for does to the cache, the keys given out and  *)
(* the window of the last max_skip generations.                            *)
LEMMA DeriveFor ==
    ASSUME NEW r, IsRatchet(r), NEW u \in SUBSET (0 .. r.generation - 1), NEW g \in Nat,
           ~Refused(r, g), u \cap r.skipped = {},
           \A x \in 0 .. r.generation - 1 :
               x + MaxSkip + 1 >= r.generation => x \in u \/ x \in r.skipped
    PROVE  LET d == derive_for(r, g)
               v == u \cup {g}
           IN  /\ IsRatchet(d) /\ d.base = r.base
               /\ v \subseteq 0 .. d.generation - 1
               /\ v \cap d.skipped = {}
               /\ \A x \in 0 .. d.generation - 1 :
                      x + MaxSkip + 1 >= d.generation => x \in v \/ x \in d.skipped
  <1>0. MaxSkip \in Nat /\ r.generation \in Nat /\ r.skipped \subseteq 0 .. r.generation - 1
    BY MediaConstants DEF IsRatchet
  <1>1. CASE g < r.generation
    <2>1. derive_for(r, g) = [base |-> r.base, generation |-> r.generation,
                              skipped |-> r.skipped \ {g}]
      BY <1>1 DEF derive_for, IsRatchet
    <2> QED BY <1>0, <1>1, <2>1 DEF IsRatchet
  <1>2. CASE g = r.generation
    <2>0. ~(g < r.generation)
      BY <1>0, <1>2
    <2>1. derive_for(r, g) = [base |-> r.base, generation |-> g + 1, skipped |-> r.skipped]
      BY <1>2, <2>0 DEF derive_for, IsRatchet
    <2> QED BY <1>0, <1>2, <2>1 DEF IsRatchet
  <1>3. CASE g > r.generation
    <2> DEFINE S == r.skipped \cup (r.generation .. g - 1)
               d == [base |-> r.base, generation |-> g + 1, skipped |-> Newest(S, MaxSkip)]
    <2>0. ~(g < r.generation) /\ g # r.generation
      BY <1>0, <1>3
    <2>1. derive_for(r, g) = d
      BY <2>0 DEF derive_for, IsRatchet
    <2>2. S \subseteq 0 .. g - 1 /\ Newest(S, MaxSkip) \subseteq S
      BY <1>0, <1>3 DEF Newest
    <2>3. u \cap S = {} /\ g \notin S
      BY <1>0, <2>2
    <2>4. ASSUME NEW x \in 0 .. g, x + MaxSkip + 1 >= g + 1
          PROVE  x \in u \cup {g} \/ x \in Newest(S, MaxSkip)
      <3>1. x = g \/ x \in u \/ x \in S
        BY <1>0, <1>3, <2>4
      <3>2. x + MaxSkip >= g
        BY <1>0, <2>4
      <3>3. x \in S => x \in Newest(S, MaxSkip)
        <4> HIDE DEF S
        <4> QED BY <1>0, <2>2, <3>2, NewestKeeps
      <3> QED BY <3>1, <3>3
    <2>5. IsRatchet(d) /\ u \cup {g} \subseteq 0 .. g
      <3>1. 0 .. g - 1 \subseteq 0 .. g /\ (g + 1) - 1 = g /\ g + 1 \in Nat
        OBVIOUS
      <3>2. u \subseteq 0 .. g /\ g \in 0 .. g
        BY <1>0, <1>3
      <3>3. Newest(S, MaxSkip) \subseteq 0 .. g
        BY <2>2, <3>1
      <3> HIDE DEF S
      <3> QED BY <3>1, <3>2, <3>3 DEF IsRatchet
    <2>6. (u \cup {g}) \cap Newest(S, MaxSkip) = {}
      BY <2>2, <2>3
    <2> HIDE DEF S
    <2> QED BY <2>1, <2>4, <2>5, <2>6, <1>0
  <1> QED BY <1>0, <1>1, <1>2, <1>3

-----------------------------------------------------------------------------
(* The steps.                                                              *)

(* A datagram moves the receive ratchet only, through derive_for.          *)
LEMMA ArrivesStep ==
    ASSUME IInv, NEW f \in net, Arrives(f)
    PROVE  IInv'
  <1> DEFINE r == Ratchet(receiving)
  <1>1. /\ IsRatchet(r) /\ r.base = secret
        /\ r.generation = receiving.generation /\ r.skipped = receiving.skipped
    BY RatchetMade DEF IInv, Shape, RatchetsOfEpoch
  <1>2. PICK g \in Generations(f) :
            IF Refused(r, g) THEN receiving' = r /\ UNCHANGED <<used, heard>>
            ELSE receiving' = derive_for(r, g) /\ used' = used \cup {g}
    BY DEF Arrives, Hears
  <1>0. g \in Nat
    BY <1>2, MediaConstants DEF IInv, Shape, Numbered, Generations, Trailers
  <1>3. UNCHANGED <<secret, sending, sent>>
    BY DEF Arrives, UnchangedByNet, dave_vars
  <1>4. \A h \in net' : Numbered(h)
    <2>1. ASSUME NEW h \in net' PROVE h \in net \/ h = [f EXCEPT !.copies = 1]
      BY <2>1 DEF Arrives
    <2>2. /\ [f EXCEPT !.copies = 1].gen = f.gen
          /\ [f EXCEPT !.copies = 1].seed = f.seed
      OBVIOUS
    <2> QED BY <2>1, <2>2 DEF IInv, Shape, Numbered
  <1>5. CASE Refused(r, g)
    <2>1. receiving' = r /\ used' = used
      BY <1>2, <1>5
    <2> HIDE DEF r
    <2> QED BY <1>1, <1>3, <1>4, <2>1 DEF IInv, Shape, RatchetsOfEpoch, KeysOnce, WindowKept
  <1>6. CASE ~Refused(r, g)
    <2>1. receiving' = derive_for(r, g) /\ used' = used \cup {g}
      BY <1>2, <1>6
    <2> HIDE DEF r
    <2>2. /\ used \in SUBSET (0 .. r.generation - 1) /\ used \cap r.skipped = {}
          /\ \A x \in 0 .. r.generation - 1 :
                 x + MaxSkip + 1 >= r.generation => x \in used \/ x \in r.skipped
      BY <1>1 DEF IInv, Shape, KeysOnce, WindowKept
    <2>3. /\ MaxSkip \in Nat /\ IsRatchet(r) /\ r.base = secret
          /\ used \in SUBSET (0 .. r.generation - 1) /\ g \in Nat /\ ~Refused(r, g)
      BY <1>0, <1>1, <1>6, <2>2, MediaConstants
    <2> DEFINE d == derive_for(r, g)
               v == used \cup {g}
    <2>4. /\ IsRatchet(d) /\ d.base = r.base
          /\ v \subseteq 0 .. d.generation - 1
          /\ v \cap d.skipped = {}
          /\ \A x \in 0 .. d.generation - 1 :
                 x + MaxSkip + 1 >= d.generation => x \in v \/ x \in d.skipped
      BY <2>2, <2>3, DeriveFor
    <2>5. receiving' = d /\ used' = v
      BY <2>1
    <2> HIDE DEF d, v
    <2>6. Shape'
      BY <1>3, <1>4, <2>4, <2>5 DEF IInv, Shape
    <2>7. RatchetsOfEpoch'
      BY <1>3, <2>3, <2>4, <2>5 DEF IInv, RatchetsOfEpoch
    <2>8. KeysOnce' /\ WindowKept'
      BY <2>4, <2>5 DEF KeysOnce, WindowKept
    <2> QED BY <2>6, <2>7, <2>8 DEF IInv
  <1> QED BY <1>5, <1>6

(* New ratchets have given out nothing and kept nothing.                   *)
LEMMA ReseedStep ==
    ASSUME IInv, Reseed, UNCHANGED <<net, sent>>
    PROVE  IInv'
  <1>1. IsRatchet(NoRatchet) /\ NoRatchet.generation = 0 /\ NoRatchet.skipped = {}
    BY DEF IsRatchet, NoRatchet
  <1>2. sending' = NoRatchet /\ receiving' = NoRatchet /\ used' = {}
    BY DEF Reseed
  <1>3. \A x \in 0 .. NoRatchet.generation - 1 : FALSE
    BY <1>1
  <1> QED BY <1>1, <1>2, <1>3 DEF IInv, Shape, RatchetsOfEpoch, KeysOnce, WindowKept

(* One frame of the source, or some frames of silence.                     *)
Sends(k) == SendsFrames(k, {}) \/ (k = 1 /\ SendsFrames(k, {ClearFrame}))

(* What is on the wire afterwards.                                         *)
LEMMA SendsWhat ==
    ASSUME NEW k \in Nat, Sends(k)
    PROVE  /\ sent' = sent + k
           /\ \/ UNCHANGED sending
              \/ sending' = [Ratchet(sending) EXCEPT !.generation = @ + k]
           /\ \A f \in net' : \/ f \in net
                            \/ (k = 1 /\ f = ClearFrame)
                            \/ \E i \in 0 .. k - 1 : f = Frame(i)
  <1>1. CASE SendsFrames(k, {})
    BY <1>1 DEF SendsFrames
  <1>2. CASE k = 1 /\ SendsFrames(k, {ClearFrame})
    BY <1>2 DEF SendsFrames
  <1> QED BY <1>1, <1>2 DEF Sends

(* Sending a number of frames moves the send ratchet only.                 *)
LEMMA SendsStep ==
    ASSUME IInv, NEW k \in Nat, sent + k <= MaxSent, Sends(k),
           UNCHANGED <<secret, receiving, used>>
    PROVE  IInv'
  <1> DEFINE r == Ratchet(sending)
  <1>0. MaxSent \in Nat /\ sent \in 0 .. MaxSent /\ sending.generation \in Nat
    BY MediaConstants DEF IInv, Shape, IsRatchet
  <1>1. IsRatchet(r) /\ r.base = secret /\ r.generation = sending.generation
    BY RatchetMade DEF IInv, Shape, RatchetsOfEpoch
  <1>2. sent' \in 0 .. MaxSent
    BY <1>0, SendsWhat
  <1>3. Numbered(ClearFrame) /\ \A i \in 0 .. k - 1 : Numbered(Frame(i))
    BY <1>0, <1>1 DEF Frame, ClearFrame, Numbered
  <1>4. \A f \in net' : Numbered(f)
    BY <1>3, SendsWhat DEF IInv, Shape
  <1>5. IsRatchet(sending') /\ (sending' = NoRatchet \/ sending'.base = secret)
    <2>1. CASE sending' = [r EXCEPT !.generation = @ + k]
      <3> HIDE DEF r
      <3>2. sending' = [base |-> r.base, generation |-> r.generation + k, skipped |-> r.skipped]
        BY <1>1, <2>1 DEF IsRatchet
      <3>3. r.generation + k \in Nat /\ r.skipped \subseteq 0 .. (r.generation + k) - 1
        BY <1>0, <1>1 DEF IsRatchet
      <3> QED BY <1>1, <3>2, <3>3 DEF IsRatchet
    <2>2. CASE UNCHANGED sending
      BY <2>2 DEF IInv, Shape, RatchetsOfEpoch
    <2> QED BY <2>1, <2>2, SendsWhat
  <1> QED BY <1>2, <1>4, <1>5 DEF IInv, Shape, RatchetsOfEpoch, KeysOnce, WindowKept

(* The steps that leave the keys alone.                                    *)
LEMMA StutterStep ==
    ASSUME IInv, UNCHANGED <<secret, sending, receiving, used, sent, net>>
    PROVE  IInv'
  BY DEF IInv, Shape, IsRatchet, RatchetsOfEpoch, KeysOnce, WindowKept

(* The opcodes either reseed both ratchets or leave the secret alone.      *)
LEMMA OpcodeStep == ASSUME IInv, Opcode PROVE IInv'
  <1>1. UNCHANGED <<net, sent>>
    BY DEF Opcode, handle_session_description, _prepare_transition, _execute_transition,
           _prepare_epoch, handle_proposals, handle_commit_welcome, handle_welcome,
           handle_invalid_commit_welcome, UnchangedByOps, net_vars
  <1>2. Reseed \/ UNCHANGED <<secret, sending, receiving, used>>
    BY DEF Opcode, handle_session_description, _prepare_transition, _execute_transition,
           _prepare_epoch, handle_proposals, handle_commit_welcome, handle_welcome,
           handle_invalid_commit_welcome, ratchets
  <1> QED BY <1>1, <1>2, ReseedStep, StutterStep

(* What the player's task may do to the frames: send some, or nothing.     *)
LEMMA PlayerSends ==
    ASSUME PlayerStep, MaxSent \in Nat, Silence \in Nat, sent \in 0 .. MaxSent
    PROVE  SendsNothing \/ \E k \in Nat : sent + k <= MaxSent /\ Sends(k)
  <1>1. SendsSilence => \E k \in Nat : sent + k <= MaxSent /\ Sends(k)
    <2> SUFFICES ASSUME SendsSilence PROVE \E k \in Nat : sent + k <= MaxSent /\ Sends(k)
      OBVIOUS
    <2>1. CASE sent + Silence <= MaxSent
      BY <2>1 DEF SendsSilence, Sends
    <2>2. CASE ~(sent + Silence <= MaxSent)
      <3>1. MaxSent - sent \in Nat /\ sent + (MaxSent - sent) <= MaxSent
        OBVIOUS
      <3>2. SendsFrames(MaxSent - sent, {})
        BY <2>2 DEF SendsSilence
      <3> QED BY <3>1, <3>2 DEF Sends
    <2> QED BY <2>1, <2>2
  <1>2. SendsFrame => SendsNothing \/ (sent + 1 <= MaxSent /\ Sends(1))
    BY DEF SendsFrame, Sends
  <1> QED BY <1>1, <1>2 DEF PlayerStep, Starts, Reads, PausesPlayback, Hushes, Sleeps, Wakes, LeavesLoop,
      TrailsOff, Finishes

(* The player's task sends one frame, the silence, or nothing.             *)
LEMMA PlayerStepKeeps == ASSUME IInv, PlayerStep PROVE IInv'
  <1>1. UNCHANGED <<secret, receiving, used>>
    BY DEF PlayerStep, UnchangedByPlayer, dave_vars
  <1>2. SendsNothing \/ \E k \in Nat : sent + k <= MaxSent /\ Sends(k)
    BY PlayerSends, MediaConstants DEF IInv, Shape
  <1> QED BY <1>1, <1>2, SendsStep, StutterStep DEF SendsNothing

(* The inductive invariant of the key schedule.                            *)
LEMMA KeyInvariant == Spec => []IInv
  <1>1. Init => IInv
    BY MediaConstants
       DEF Init, IInv, Shape, IsRatchet, NoRatchet, RatchetsOfEpoch, KeysOnce, WindowKept
  <1>2. IInv /\ [Next]_vars => IInv'
    <2> SUFFICES ASSUME IInv, [Next]_vars PROVE IInv'
      OBVIOUS
    <2>1. CASE Opcode
      BY <2>1, OpcodeStep
    <2>2. CASE LinkChanges \/ play \/ pause \/ resume_playback \/ stop \/ UNCHANGED vars
      BY <2>2, StutterStep
         DEF LinkChanges, play, pause, resume_playback, stop, vars, SendsNothing,
             UnchangedByPlayer, dave_vars, ratchets, net_vars
    <2>3. CASE PlayerStep
      BY <2>3, PlayerStepKeeps
    <2>4. CASE \E f \in net : Arrives(f)
      BY <2>4, ArrivesStep
    <2> QED BY <2>1, <2>2, <2>3, <2>4 DEF Next
  <1> QED BY <1>1, <1>2, PTL DEF Spec

(* A frame is encrypted with the present secret, which changes only when   *)
(* the ratchets are thrown away.                                           *)
LEMMA StepFrames ==
    ASSUME IInv, FramesOfSeed, [Next]_vars
    PROVE  FramesOfSeed'
  <1> DEFINE Of(f) == \/ f.seed \in 0 .. reseeds /\ (f.seed = reseeds => f.base = secret)
                      \/ f.seed = None
  <1>0. reseeds \in Nat /\ \A f \in net : Of(f)
    BY DEF FramesOfSeed
  <1>1. ASSUME reseeds' = reseeds + 1, UNCHANGED net PROVE FramesOfSeed'
    <2>1. reseeds' \in Nat /\ \A f \in net : f.seed = None \/ (f.seed \in 0 .. reseeds' /\ f.seed # reseeds')
      BY <1>0, <1>1
    <2> QED BY <1>1, <2>1 DEF FramesOfSeed
  <1>2. ASSUME UNCHANGED <<secret, reseeds>>,
               \A f \in net' : Of(f)
        PROVE  FramesOfSeed'
    BY <1>0, <1>2 DEF FramesOfSeed
  <1>3. CASE Opcode
    <2>1. UNCHANGED net
      BY <1>3 DEF Opcode, handle_session_description, _prepare_transition, _execute_transition,
         _prepare_epoch, handle_proposals, handle_commit_welcome, handle_welcome,
         handle_invalid_commit_welcome, UnchangedByOps, net_vars
    <2>2. Reseed \/ UNCHANGED <<secret, reseeds>>
      BY <1>3 DEF Opcode, handle_session_description, _prepare_transition, _execute_transition,
         _prepare_epoch, handle_proposals, handle_commit_welcome, handle_welcome,
         handle_invalid_commit_welcome, ratchets
    <2> QED BY <1>0, <1>1, <1>2, <2>1, <2>2 DEF Reseed
  <1>4. CASE PlayerStep
    <2>1. UNCHANGED <<secret, reseeds>>
      BY <1>4 DEF PlayerStep, UnchangedByPlayer, dave_vars
    <2>2. SendsNothing \/ \E k \in Nat : sent + k <= MaxSent /\ Sends(k)
      BY <1>4, PlayerSends, MediaConstants DEF IInv, Shape
    <2>3. ASSUME NEW f \in net' PROVE Of(f)
      <3>1. f \in net \/ f = ClearFrame \/ \E i \in Nat : f = Frame(i)
        BY <2>2, SendsWhat DEF SendsNothing
      <3>2. Ratchet(sending).base = secret
        BY RatchetMade DEF IInv, Shape, RatchetsOfEpoch
      <3> QED BY <1>0, <3>1, <3>2 DEF Frame, ClearFrame
    <2> QED BY <1>2, <2>1, <2>3
  <1>5. ASSUME NEW f \in net, Arrives(f) PROVE FramesOfSeed'
    <2>1. UNCHANGED <<secret, reseeds>>
      BY <1>5 DEF Arrives, UnchangedByNet, dave_vars
    <2>2. ASSUME NEW h \in net' PROVE h \in net \/ h = [f EXCEPT !.copies = 1]
      BY <1>5, <2>2 DEF Arrives
    <2>3. [f EXCEPT !.copies = 1].seed = f.seed /\ [f EXCEPT !.copies = 1].base = f.base
      OBVIOUS
    <2> QED BY <1>0, <1>2, <2>1, <2>2, <2>3
  <1>6. CASE LinkChanges \/ play \/ pause \/ resume_playback \/ stop \/ UNCHANGED vars
    <2>1. UNCHANGED <<secret, reseeds, net>>
      BY <1>6 DEF LinkChanges, play, pause, resume_playback, stop, vars, SendsNothing,
         UnchangedByPlayer, dave_vars, ratchets, net_vars
    <2> QED BY <1>0, <1>2, <2>1
  <1> QED BY <1>3, <1>4, <1>5, <1>6 DEF Next

-----------------------------------------------------------------------------
(* A receive ratchet gives no key out twice as long as it is kept, the     *)
(* last max_skip generations before its newest one stay available until    *)
(* they are asked for, and after every change of epoch both ratchets stem  *)
(* from its secret, for any order, loss and repetition of frames and       *)
(* opcodes.                                                                *)
THEOREM KeySchedule == Spec => []KeysOfEpoch
  <1>1. Init => FramesOfSeed
    BY DEF Init, FramesOfSeed
  <1>2. IInv /\ FramesOfSeed /\ [Next]_vars => FramesOfSeed'
    BY StepFrames
  <1>3. IInv /\ FramesOfSeed => KeysOfEpoch
    BY DEF IInv, KeysOfEpoch
  <1> QED BY <1>1, <1>2, <1>3, KeyInvariant, PTL DEF Spec

(* Every frame of the present ratchets that comes within max_skip          *)
(* generations of the newest is heard, whatever was lost or reordered.     *)
THEOREM WindowIsHeard == Spec => InWindowHeard
  <1>1. ASSUME IInv, FramesOfSeed, NEW f \in net, InWindow(f) PROVE f.n \in heard'
    <2> DEFINE r == Ratchet(receiving)
    <2>1. /\ IsRatchet(r) /\ r.base = secret
          /\ r.generation = receiving.generation /\ r.skipped = receiving.skipped
      BY <1>1, RatchetMade DEF IInv, Shape, RatchetsOfEpoch
    <2>0. f.seed = reseeds /\ reseeds \in Nat /\ reseeds # None
      BY <1>1 DEF InWindow, FramesOfSeed, None
    <2>2. f.gen \in Nat /\ f.base = secret /\ receiving.generation \in Nat /\ MaxSkip \in Nat
      BY <1>1, <2>0, MediaConstants DEF IInv, Shape, Numbered, IsRatchet, FramesOfSeed
    <2>3. ~Refused(r, f.gen)
      <3>1. CASE f.gen < r.generation
        <4>1. f.gen \in 0 .. receiving.generation - 1 /\ f.gen + MaxSkip + 1 >= receiving.generation
          BY <1>1, <2>1, <2>2, <3>1 DEF InWindow
        <4>2. f.gen \in r.skipped
          BY <1>1, <2>1, <4>1 DEF IInv, WindowKept, InWindow
        <4> QED BY <3>1, <4>2 DEF Refused
      <3>2. CASE ~(f.gen < r.generation)
        BY <1>1, <2>1, <2>2, <3>2 DEF Refused, InWindow
      <3> QED BY <3>1, <3>2
    <2>4. heard' = heard \cup {f.n}
      <3>1. Generations(f) = {f.gen}
        BY <2>2 DEF Generations, None
      <3> QED BY <1>1, <2>1, <2>2, <2>3, <3>1 DEF Arrives, Hears, InWindow
    <2> QED BY <2>4
  <1>2. IInv /\ KeysOfEpoch /\ [Next]_vars => [\A f \in net : InWindow(f) => f.n \in heard']_vars
    BY <1>1 DEF KeysOfEpoch
  <1> QED BY <1>2, KeyInvariant, KeySchedule, PTL DEF Spec, InWindowHeard

-----------------------------------------------------------------------------
(* Types.                                                                  *)

(* No n integers have fewer than n of them above: the cache of skipped     *)
(* keys stays within its bound.                                            *)
LEMMA NewestBound ==
    ASSUME NEW n \in Nat, NEW g \in Nat, NEW S \in SUBSET (0 .. g - 1)
    PROVE  IsFiniteSet(Newest(S, n)) /\ Cardinality(Newest(S, n)) <= n
  <1> DEFINE above(x) == {y \in S : x < y}
             T == Newest(S, n)
             f == [x \in T |-> Cardinality(above(x))]
  <1>1. IsFiniteSet(S) /\ S \subseteq Int
    <2>1. IsFiniteSet(0 .. g - 1)
      <3>1. g - 1 \in Int
        OBVIOUS
      <3> QED BY <3>1, FS_Interval
    <2>2. IsFiniteSet(S)
      BY <2>1, FS_Subset
    <2>3. \A x \in S : x \in 0 .. g - 1
      OBVIOUS
    <2> QED BY <2>2, <2>3
  <1>2. IsFiniteSet(T) /\ Cardinality(T) \in Nat
    BY <1>1, FS_Subset, FS_CardinalityType DEF Newest
  <1>3. ASSUME NEW x \in S PROVE IsFiniteSet(above(x)) /\ Cardinality(above(x)) \in Nat
    BY <1>1, FS_Subset, FS_CardinalityType
  <1>4. ASSUME NEW x \in S, NEW y \in S, x < y PROVE Cardinality(above(y)) # Cardinality(above(x))
    <2>0. x \in Int /\ y \in Int /\ \A z \in S : z \in Int
      BY <1>1
    <2>1. above(y) \in SUBSET above(x) /\ y \in above(x) /\ y \notin above(y)
      <3>1. \A z \in S : y < z => x < z
        BY <1>4, <2>0
      <3>2. x < y /\ ~(y < y)
        BY <1>4, <2>0
      <3> QED BY <3>1, <3>2
    <2>2. IsFiniteSet(above(x))
      BY <1>3
    <2> HIDE DEF above
    <2> QED BY <2>1, <2>2, FS_Subset
  <1>5. ASSUME NEW x \in T PROVE x \in S /\ Cardinality(above(x)) \in 0 .. n - 1
    <2>1. x \in S /\ Cardinality(above(x)) < n
      BY DEF Newest
    <2>2. Cardinality(above(x)) \in Nat
      BY <1>3, <2>1
    <2> HIDE DEF above
    <2> QED BY <2>1, <2>2
  <1>6. f \in [T -> 0 .. n - 1]
    BY <1>5
  <1>7. ASSUME NEW x \in T, NEW y \in T, x # y PROVE f[x] # f[y]
    <2>0. x \in S /\ y \in S /\ x \in Int /\ y \in Int
      <3>1. x \in S /\ y \in S
        BY DEF Newest
      <3> QED BY <1>1, <3>1
    <2>1. x \in S /\ y \in S /\ (x < y \/ y < x)
      BY <1>7, <2>0
    <2>2. Cardinality(above(y)) # Cardinality(above(x))
      BY <1>4, <2>1
    <2> QED BY <2>2
  <1>8. IsFiniteSet(0 .. n - 1) /\ Cardinality(0 .. n - 1) = n
    BY FS_Interval
  <1> HIDE DEF f, T
  <1>9. ~(n < Cardinality(T))
    BY <1>2, <1>6, <1>7, <1>8, FS_PigeonHole
  <1>10. Cardinality(T) <= n
    BY <1>2, <1>9
  <1> QED BY <1>2, <1>10 DEF T

(* What the frames and the caches are, beside IInv.                        *)
Caches ==
    /\ sending.skipped = {}
    /\ IsFiniteSet(receiving.skipped) /\ Cardinality(receiving.skipped) <= MaxSkip
    /\ \A f \in net : f.n \in 0 .. sent - 1

LEMMA StepCaches ==
    ASSUME IInv, Caches, [Next]_vars
    PROVE  Caches'
  <1>0. MaxSkip \in Nat /\ MaxSent \in Nat /\ Silence \in Nat /\ sent \in 0 .. MaxSent
    BY MediaConstants DEF IInv, Shape
  <1>1. ASSUME UNCHANGED <<sending, receiving, net, sent>> PROVE Caches'
    BY <1>1 DEF Caches
  <1>2. ASSUME Reseed, UNCHANGED <<net, sent>> PROVE Caches'
    <2>1. NoRatchet.skipped = {} /\ sending' = NoRatchet /\ receiving' = NoRatchet
      BY <1>2 DEF NoRatchet, Reseed
    <2>2. IsFiniteSet({}) /\ Cardinality({}) <= MaxSkip
      BY <1>0, FS_EmptySet
    <2> QED BY <1>2, <2>1, <2>2 DEF Caches
  <1>3. CASE Opcode
    <2>1. UNCHANGED <<net, sent>>
      BY <1>3 DEF Opcode, handle_session_description, _prepare_transition, _execute_transition,
         _prepare_epoch, handle_proposals, handle_commit_welcome, handle_welcome,
         handle_invalid_commit_welcome, UnchangedByOps, net_vars
    <2>2. Reseed \/ UNCHANGED <<sending, receiving>>
      BY <1>3 DEF Opcode, handle_session_description, _prepare_transition, _execute_transition,
         _prepare_epoch, handle_proposals, handle_commit_welcome, handle_welcome,
         handle_invalid_commit_welcome, ratchets
    <2> QED BY <1>1, <1>2, <2>1, <2>2
  <1>4. ASSUME NEW k \in Nat, Sends(k), UNCHANGED receiving PROVE Caches'
    <2>1. sent' = sent + k
      BY <1>4, SendsWhat
    <2>2. ClearFrame.n = sent /\ \A i \in 0 .. k - 1 : Frame(i).n = sent + i
      BY DEF Frame, ClearFrame
    <2>3. \A f \in net' : f \in net \/ (k = 1 /\ f = ClearFrame) \/ \E i \in 0 .. k - 1 : f = Frame(i)
      BY <1>4, SendsWhat
    <2>4. \A f \in net' : f.n \in 0 .. sent' - 1
      BY <1>0, <2>1, <2>2, <2>3 DEF Caches
    <2>5. sending'.skipped = {}
      <3>1. Ratchet(sending).skipped = {} /\ IsRatchet(Ratchet(sending))
        BY RatchetMade DEF IInv, Shape, RatchetsOfEpoch, Caches
      <3>2. sending' = sending \/ sending' = [Ratchet(sending) EXCEPT !.generation = @ + k]
        BY <1>4, SendsWhat
      <3>3. [Ratchet(sending) EXCEPT !.generation = @ + k].skipped = Ratchet(sending).skipped
        OBVIOUS
      <3> QED BY <3>1, <3>2, <3>3 DEF Caches
    <2> QED BY <1>4, <2>4, <2>5 DEF Caches
  <1>5. CASE PlayerStep
    <2>1. UNCHANGED receiving
      BY <1>5 DEF PlayerStep, UnchangedByPlayer
    <2>2. SendsNothing \/ \E k \in Nat : sent + k <= MaxSent /\ Sends(k)
      BY <1>0, <1>5, PlayerSends
    <2> QED BY <1>1, <1>4, <2>1, <2>2 DEF SendsNothing
  <1>6. ASSUME NEW f \in net, Arrives(f) PROVE Caches'
    <2> DEFINE r == Ratchet(receiving)
    <2>1. /\ IsRatchet(r) /\ r.generation \in Nat /\ r.skipped = receiving.skipped
          /\ r.skipped \subseteq 0 .. r.generation - 1
      BY RatchetMade DEF IInv, Shape, RatchetsOfEpoch, IsRatchet
    <2>0. PICK g \in Generations(f) : receiving' = r \/ receiving' = derive_for(r, g)
      BY <1>6 DEF Arrives, Hears
    <2>2. g \in Nat /\ UNCHANGED <<sending, sent>>
      BY <1>6, <2>0, MediaConstants DEF IInv, Shape, Numbered, Generations, Trailers, Arrives, UnchangedByNet
    <2>3. \A h \in net' : h.n \in 0 .. sent - 1
      <3>1. ASSUME NEW h \in net' PROVE h \in net \/ h = [f EXCEPT !.copies = 1]
        BY <1>6, <3>1 DEF Arrives
      <3>2. [f EXCEPT !.copies = 1].n = f.n
        OBVIOUS
      <3> QED BY <3>1, <3>2 DEF Caches
    <2>4. receiving' = r \/ receiving' = derive_for(r, g)
      BY <2>0
    <2>5. IsFiniteSet(r.skipped) /\ Cardinality(r.skipped) <= MaxSkip
      BY <2>1 DEF Caches
    <2> HIDE DEF r
    <2>6. IsFiniteSet(receiving'.skipped) /\ Cardinality(receiving'.skipped) <= MaxSkip
      <3>1. CASE receiving' = r
        BY <2>5, <3>1
      <3>2. CASE receiving' = derive_for(r, g) /\ g < r.generation
        <4>1. receiving'.skipped = r.skipped \ {g}
          BY <2>1, <3>2 DEF derive_for, IsRatchet
        <4>2. IsFiniteSet(r.skipped \ {g}) /\ Cardinality(r.skipped \ {g}) <= Cardinality(r.skipped)
          BY <2>5, FS_Subset
        <4>3. Cardinality(r.skipped \ {g}) \in Nat /\ Cardinality(r.skipped) \in Nat
          BY <2>5, <4>2, FS_CardinalityType
        <4> QED BY <1>0, <2>5, <4>1, <4>2, <4>3
      <3>3. CASE receiving' = derive_for(r, g) /\ g = r.generation
        <4>1. receiving'.skipped = r.skipped
          BY <2>1, <2>2, <3>3 DEF derive_for
        <4> QED BY <2>5, <4>1
      <3>4. CASE receiving' = derive_for(r, g) /\ g > r.generation
        <4>1. receiving'.skipped = Newest(r.skipped \cup (r.generation .. g - 1), MaxSkip)
          BY <2>1, <2>2, <3>4 DEF derive_for
        <4>2. r.skipped \cup (r.generation .. g - 1) \in SUBSET (0 .. g - 1)
          BY <2>1, <2>2, <3>4
        <4> QED BY <1>0, <2>2, <4>1, <4>2, NewestBound
      <3> QED BY <2>1, <2>2, <2>4, <3>1, <3>2, <3>3, <3>4
    <2> QED BY <2>2, <2>3, <2>6 DEF Caches
  <1>7. CASE LinkChanges \/ play \/ pause \/ resume_playback \/ stop \/ UNCHANGED vars
    BY <1>1, <1>7 DEF LinkChanges, play, pause, resume_playback, stop, vars, SendsNothing,
       UnchangedByPlayer, ratchets, net_vars
  <1> QED BY <1>3, <1>5, <1>6, <1>7 DEF Next

-----------------------------------------------------------------------------
(* The payloads on the wire and those that wait for a flush.               *)

Ordered(q, n) == InOrder(q) /\ UpTo(q, n)

(* The answer to the n-th opcode goes behind the earlier ones.             *)
LEMMA OrderedAppend ==
    ASSUME NEW n \in Nat, NEW q \in Seq(Payloads), Ordered(q, n), NEW p \in Payloads,
           p.op = "ready" => p.id = n
    PROVE  Ordered(Append(q, p), n + 1)
  <1> DEFINE w == Append(q, p)
  <1>1. /\ Len(q) \in Nat /\ Len(w) = Len(q) + 1
        /\ \A i \in 1 .. Len(q) : w[i] = q[i]
        /\ w[Len(q) + 1] = p
    BY AppendProperties, LenProperties
  <1>2. \A i \in 1 .. Len(q) : q[i].id \in Int
    <2>1. \A i \in 1 .. Len(q) : q[i] \in Payloads
      BY ElementOfSeq
    <2> QED BY <2>1 DEF Payloads
  <1> HIDE DEF w
  <1>3. UpTo(w, n + 1)
    BY <1>1, <1>2 DEF Ordered, UpTo
  <1>4. InOrder(w)
    <2> SUFFICES ASSUME NEW i \in 1 .. Len(w), NEW j \in 1 .. Len(w), i < j,
                        w[i].op = "ready", w[j].op = "ready"
                 PROVE  w[i].id < w[j].id
      BY DEF InOrder
    <2>1. i \in 1 .. Len(q)
      BY <1>1
    <2>2. CASE j \in 1 .. Len(q)
      BY <1>1, <2>1, <2>2 DEF Ordered, InOrder
    <2>3. CASE j = Len(q) + 1
      <3>1. w[j].id = n /\ w[i].id < n
        BY <1>1, <2>1, <2>3 DEF Ordered, UpTo
      <3> QED BY <3>1
    <2> QED BY <1>1, <2>2, <2>3
  <1> QED BY <1>3, <1>4 DEF Ordered, w

LEMMA OrderedLater ==
    ASSUME NEW n \in Nat, NEW q \in Seq(Payloads), Ordered(q, n)
    PROVE  Ordered(q, n + 1)
  <1>1. \A i \in 1 .. Len(q) : q[i].id \in Int
    <2>1. \A i \in 1 .. Len(q) : q[i] \in Payloads
      BY ElementOfSeq
    <2> QED BY <2>1 DEF Payloads
  <1> QED BY <1>1 DEF Ordered, UpTo

(* The order survives when one element is cut out.                         *)
LEMMA OrderedCut ==
    ASSUME NEW n, NEW all, NEW w, NEW cut \in Nat, Len(all) \in Nat, Len(w) \in Nat, Ordered(all, n),
           \A i \in 1 .. Len(w) : i <= cut => i \in 1 .. Len(all) /\ w[i] = all[i],
           \A i \in 1 .. Len(w) : i > cut => i + 1 \in 1 .. Len(all) /\ w[i] = all[i + 1]
    PROVE  Ordered(w, n)
  <1>1. UpTo(w, n)
    BY DEF Ordered, UpTo
  <1>2. InOrder(w)
    <2> SUFFICES ASSUME NEW i \in 1 .. Len(w), NEW j \in 1 .. Len(w), i < j,
                        w[i].op = "ready", w[j].op = "ready"
                 PROVE  w[i].id < w[j].id
      BY DEF InOrder
    <2>1. CASE j <= cut
      BY <2>1 DEF Ordered, InOrder
    <2>2. CASE i <= cut /\ j > cut
      <3>1. i \in 1 .. Len(all) /\ j + 1 \in 1 .. Len(all) /\ i < j + 1
        BY <2>2
      <3>2. w[i] = all[i] /\ w[j] = all[j + 1]
        BY <2>2
      <3> QED BY <3>1, <3>2 DEF Ordered, InOrder
    <2>3. CASE i > cut
      <3>1. i + 1 \in 1 .. Len(all) /\ j + 1 \in 1 .. Len(all) /\ i + 1 < j + 1
        BY <2>3
      <3>2. w[i] = all[i + 1] /\ w[j] = all[j + 1]
        BY <2>3
      <3> QED BY <3>1, <3>2 DEF Ordered, InOrder
    <2> QED BY <2>1, <2>2, <2>3
  <1> QED BY <1>1, <1>2 DEF Ordered

(* A flush that breaks off loses one payload and keeps the order of the    *)
(* others.                                                                 *)
LEMMA OrderedFlush ==
    ASSUME NEW n, NEW a \in Seq(Payloads), NEW q \in Seq(Payloads), NEW k \in 0 .. Len(q),
           Ordered(a \o q, n)
    PROVE  /\ a \o SubSeq(q, 1, k) \in Seq(Payloads) /\ SubSeq(q, k + 2, Len(q)) \in Seq(Payloads)
           /\ Ordered((a \o SubSeq(q, 1, k)) \o SubSeq(q, k + 2, Len(q)), n)
           /\ Ordered(a \o SubSeq(q, 1, k), n)
  <1>0. Len(a) \in Nat /\ Len(q) \in Nat /\ \A i \in 1 .. Len(q) : q[i] \in Payloads
    BY LenProperties, ElementOfSeq
  <1>a. PICK u : u = SubSeq(q, 1, k)
    OBVIOUS
  <1>b. PICK v : v = SubSeq(q, k + 2, Len(q))
    OBVIOUS
  <1>c. PICK b : b = a \o u
    OBVIOUS
  <1>d. PICK w : w = b \o v
    OBVIOUS
  <1>e. PICK all : all = a \o q
    OBVIOUS
  <1>1. u \in Seq(Payloads) /\ Len(u) = k /\ \A i \in 1 .. k : u[i] = q[i]
    <2>1. \A i \in 1 .. k : q[i] \in Payloads
      BY <1>0
    <2>2. /\ u \in Seq(Payloads) /\ Len(u) = (IF 1 <= k THEN k - 1 + 1 ELSE 0)
          /\ \A i \in 1 .. k - 1 + 1 : u[i] = q[1 + i - 1]
      BY <1>0, <1>a, <2>1, SubSeqProperties
    <2> QED BY <1>0, <2>2
  <1>2. /\ v \in Seq(Payloads) /\ Len(v) = IF k < Len(q) THEN Len(q) - k - 1 ELSE 0
        /\ \A i \in 1 .. Len(v) : v[i] = q[k + 1 + i]
    <2>1. \A i \in k + 2 .. Len(q) : q[i] \in Payloads
      BY <1>0
    <2>2. /\ v \in Seq(Payloads)
          /\ Len(v) = (IF k + 2 <= Len(q) THEN Len(q) - (k + 2) + 1 ELSE 0)
          /\ \A i \in 1 .. Len(q) - (k + 2) + 1 : v[i] = q[(k + 2) + i - 1]
      BY <1>0, <1>b, <2>1, SubSeqProperties
    <2>3. k \in Nat /\ k <= Len(q) /\ Len(q) \in Nat
      BY <1>0
    <2>4. Len(v) = IF k < Len(q) THEN Len(q) - k - 1 ELSE 0
      BY <2>2, <2>3
    <2>5. ASSUME NEW i \in 1 .. Len(v)
          PROVE  v[i] = q[k + 1 + i]
      <3>1. i \in 1 .. Len(q) - (k + 2) + 1 /\ (k + 2) + i - 1 = k + 1 + i
        BY <2>3, <2>4
      <3> QED BY <2>2, <3>1
    <2> QED BY <2>2, <2>4, <2>5
  <1>3. /\ b \in Seq(Payloads) /\ Len(b) = Len(a) + k
        /\ \A i \in 1 .. Len(a) : b[i] = a[i]
        /\ \A i \in Len(a) + 1 .. Len(a) + k : b[i] = u[i - Len(a)]
    <2>1. /\ a \o u \in Seq(Payloads) /\ Len(a \o u) = Len(a) + Len(u)
          /\ \A i \in 1 .. Len(a) + Len(u) :
               (a \o u)[i] = IF i <= Len(a) THEN a[i] ELSE u[i - Len(a)]
      BY <1>1, ConcatProperties
    <2> QED BY <1>0, <1>1, <1>c, <2>1
  <1>4. /\ Len(all) = Len(a) + Len(q)
        /\ \A i \in 1 .. Len(a) : all[i] = a[i]
        /\ \A i \in Len(a) + 1 .. Len(a) + Len(q) : all[i] = q[i - Len(a)]
    <2>1. /\ Len(a \o q) = Len(a) + Len(q)
          /\ \A i \in 1 .. Len(a) + Len(q) :
               (a \o q)[i] = IF i <= Len(a) THEN a[i] ELSE q[i - Len(a)]
      BY ConcatProperties
    <2> QED BY <1>0, <1>e, <2>1
  <1>5. /\ Len(v) \in Nat /\ Len(w) = Len(a) + k + Len(v)
        /\ \A i \in 1 .. Len(a) + k : w[i] = b[i]
        /\ \A i \in Len(a) + k + 1 .. Len(a) + k + Len(v) : w[i] = v[i - (Len(a) + k)]
    <2>1. /\ Len(b \o v) = Len(b) + Len(v)
          /\ \A i \in 1 .. Len(b) + Len(v) :
               (b \o v)[i] = IF i <= Len(b) THEN b[i] ELSE v[i - Len(b)]
      BY <1>2, <1>3, ConcatProperties
    <2>2. Len(v) \in Nat
      BY <1>2, LenProperties
    <2> QED BY <1>0, <1>3, <1>d, <2>1, <2>2
  <1>6. /\ \A i \in 1 .. Len(b) : i \in 1 .. Len(all) /\ b[i] = all[i]
        /\ \A i \in 1 .. Len(w) : i <= Len(b) => i \in 1 .. Len(all) /\ w[i] = all[i]
        /\ \A i \in 1 .. Len(w) : i > Len(b) => i + 1 \in 1 .. Len(all) /\ w[i] = all[i + 1]
    <2>1. PICK la : la = Len(a)
      OBVIOUS
    <2>2. PICK lq : lq = Len(q)
      OBVIOUS
    <2>3. PICK lv : lv = Len(v)
      OBVIOUS
    <2>4. /\ la \in Nat /\ lq \in Nat /\ k \in 0 .. lq /\ lv \in Nat
          /\ (k < lq => lv = lq - k - 1) /\ (k = lq => lv = 0)
      BY <1>0, <1>2, <1>5, <2>1, <2>2, <2>3
    <2>5. /\ \A i \in 1 .. lv : v[i] = q[k + 1 + i]
          /\ \A i \in 1 .. la : b[i] = a[i]
          /\ \A i \in la + 1 .. la + k : b[i] = u[i - la]
          /\ \A i \in 1 .. la : all[i] = a[i]
          /\ \A i \in la + 1 .. la + lq : all[i] = q[i - la]
          /\ \A i \in 1 .. la + k : w[i] = b[i]
          /\ \A i \in la + k + 1 .. la + k + lv : w[i] = v[i - (la + k)]
      BY <1>2, <1>3, <1>4, <1>5, <2>1, <2>2, <2>3, Zenon
    <2>6. /\ \A i \in 1 .. la + k : i \in 1 .. la + lq /\ b[i] = all[i]
          /\ \A i \in 1 .. la + k + lv : i <= la + k => i \in 1 .. la + lq /\ w[i] = all[i]
          /\ \A i \in 1 .. la + k + lv : i > la + k => i + 1 \in 1 .. la + lq /\ w[i] = all[i + 1]
      <3> USE <2>4
      <3>2. ASSUME NEW i \in 1 .. la + k PROVE i \in 1 .. la + lq /\ b[i] = all[i]
        <4>1. i \in 1 .. la + lq
          OBVIOUS
        <4>2. CASE i \in 1 .. la
          BY <2>5, <4>1, <4>2
        <4>3. CASE i \in la + 1 .. la + k
          <5>1. i - la \in 1 .. k /\ i \in la + 1 .. la + lq
            BY <4>3
          <5>2. b[i] = u[i - la] /\ all[i] = q[i - la]
            BY <2>5, <4>3, <5>1
          <5> QED BY <1>1, <4>1, <5>1, <5>2
        <4> QED BY <4>2, <4>3
      <3>3. ASSUME NEW i \in 1 .. la + k + lv, i <= la + k PROVE i \in 1 .. la + lq /\ w[i] = all[i]
        <4>1. i \in 1 .. la + k
          BY <3>3
        <4>2. w[i] = b[i]
          BY <2>5, <4>1
        <4> QED BY <3>2, <4>1, <4>2
      <3>4. ASSUME NEW i \in 1 .. la + k + lv, i > la + k PROVE i + 1 \in 1 .. la + lq /\ w[i] = all[i + 1]
        <4>1. i - (la + k) \in 1 .. lv /\ i \in la + k + 1 .. la + k + lv
          BY <3>4
        <4>2. i + 1 \in la + 1 .. la + lq /\ i + 1 \in 1 .. la + lq
          BY <4>1
        <4>3. all[i + 1] = q[(i + 1) - la]
          BY <2>5, <4>2
        <4>4. w[i] = v[i - (la + k)]
          BY <2>5, <4>1
        <4>5. v[i - (la + k)] = q[k + 1 + (i - (la + k))]
          BY <2>5, <4>1
        <4>6. k + 1 + (i - (la + k)) = (i + 1) - la
          OBVIOUS
        <4> QED BY <4>2, <4>3, <4>4, <4>5, <4>6
      <3> QED BY <3>2, <3>3, <3>4
    <2>7. Len(b) = la + k /\ Len(all) = la + lq /\ Len(w) = la + k + lv
      BY <1>3, <1>4, <1>5, <2>1, <2>2, <2>3
    <2> QED BY <2>6, <2>7
  <1>7. Ordered(all, n)
    BY <1>e
  <1>h. Len(b) \in Nat /\ Len(all) \in Nat /\ Len(w) \in Nat
    BY <1>0, <1>3, <1>4, <1>5
  <1>8. Ordered(w, n)
    BY <1>6, <1>7, <1>h, OrderedCut
  <1>9. Ordered(b, n)
    <2>1. \A i \in 1 .. Len(b) : i > Len(b) => i + 1 \in 1 .. Len(all) /\ b[i] = all[i + 1]
      BY <1>h
    <2>2. \A i \in 1 .. Len(b) : i <= Len(b) => i \in 1 .. Len(all) /\ b[i] = all[i]
      BY <1>6
    <2> QED BY <1>7, <1>h, <2>1, <2>2, OrderedCut
  <1> QED BY <1>2, <1>3, <1>8, <1>9, <1>a, <1>b, <1>c, <1>d

Queues ==
    /\ answered \in Seq(Payloads) /\ outbound \in Seq(Payloads) /\ inputs \in 0 .. MaxInputs
    /\ Ordered(answered \o outbound, inputs)

LEMMA FlushKeeps ==
    ASSUME Queues, Input, NEW more \in Seq(Payloads),
           Ordered(answered \o (outbound \o more), inputs + 1), Flushes(more)
    PROVE  Queues'
  <1> DEFINE q == outbound \o more
  <1>1. q \in Seq(Payloads)
    BY ConcatProperties DEF Queues
  <1>2. PICK k \in 0 .. Len(q) : /\ answered' = answered \o SubSeq(q, 1, k)
                                 /\ outbound' = SubSeq(q, k + 2, Len(q))
    BY DEF Flushes
  <1>3. Ordered(answered \o q, inputs + 1)
    OBVIOUS
  <1> HIDE DEF q
  <1>4. /\ answered' \in Seq(Payloads) /\ outbound' \in Seq(Payloads)
        /\ Ordered(answered' \o outbound', inputs + 1)
    BY <1>1, <1>2, <1>3, OrderedFlush DEF Queues
  <1>5. inputs' = inputs + 1 /\ inputs' \in 0 .. MaxInputs
    BY MediaConstants DEF Input, Queues
  <1> QED BY <1>4, <1>5 DEF Queues

LEMMA StepQueues ==
    ASSUME Queues, [Next]_vars
    PROVE  Queues'
  <1> DEFINE w == answered \o outbound
  <1>0. /\ answered \in Seq(Payloads) /\ outbound \in Seq(Payloads) /\ inputs \in Nat
        /\ w \in Seq(Payloads) /\ Ordered(w, inputs)
    BY ConcatProperties, MediaConstants DEF Queues
  <1>1. ready(inputs) \in Payloads /\ key_package \in Payloads /\ commit_welcome \in Payloads
    BY <1>0 DEF ready, key_package, commit_welcome, Payloads, None
  <1>2. ready(inputs).id = inputs /\ key_package.op # "ready" /\ commit_welcome.op # "ready"
    BY DEF ready, key_package, commit_welcome
  <1>3. ASSUME NEW x \in Payloads
        PROVE  <<x>> \in Seq(Payloads) /\ answered \o (outbound \o <<x>>) = Append(w, x)
               /\ outbound \o <<x>> = Append(outbound, x)
    <2>1. <<x>> \in Seq(Payloads)
      OBVIOUS
    <2>2. answered \o (outbound \o <<x>>) = w \o <<x>>
      BY <1>0, <2>1, ConcatAssociative
    <2>3. Append(w, x) = w \o <<x>> /\ Append(outbound, x) = outbound \o <<x>>
      BY <1>0, AppendIsConcat
    <2> QED BY <2>1, <2>2, <2>3
  <1>4. ASSUME Input, UNCHANGED answer_vars PROVE Queues'
    <2>1. Ordered(w, inputs + 1)
      BY <1>0, OrderedLater
    <2>2. inputs' = inputs + 1 /\ inputs' \in 0 .. MaxInputs
      BY <1>4, MediaConstants DEF Input, Queues
    <2> QED BY <1>0, <1>4, <2>1, <2>2 DEF Queues, answer_vars
  <1>5. ASSUME Input, Flushes(<<>>) PROVE Queues'
    <2>1. <<>> \in Seq(Payloads) /\ outbound \o <<>> = outbound
      BY <1>0, ConcatEmptySeq
    <2>2. Ordered(answered \o (outbound \o <<>>), inputs + 1)
      BY <1>0, <2>1, OrderedLater
    <2> QED BY <1>5, <2>1, <2>2, FlushKeeps
  <1>6. ASSUME Input, Flushes(<<ready(inputs)>>) PROVE Queues'
    <2>1. Ordered(answered \o (outbound \o <<ready(inputs)>>), inputs + 1)
      BY <1>0, <1>1, <1>2, <1>3, OrderedAppend
    <2> QED BY <1>1, <1>3, <1>6, <2>1, FlushKeeps
  <1>7. ASSUME Input, Flushes(<<commit_welcome>>) PROVE Queues'
    <2>1. Ordered(answered \o (outbound \o <<commit_welcome>>), inputs + 1)
      BY <1>0, <1>1, <1>2, <1>3, OrderedAppend
    <2> QED BY <1>1, <1>3, <1>7, <2>1, FlushKeeps
  <1>8. ASSUME Input, outbound' = Append(outbound, commit_welcome), UNCHANGED answered PROVE Queues'
    <2>1. Ordered(answered \o Append(outbound, commit_welcome), inputs + 1)
      BY <1>0, <1>1, <1>2, <1>3, OrderedAppend
    <2>2. Append(outbound, commit_welcome) \in Seq(Payloads)
      BY <1>0, <1>1, AppendProperties
    <2>3. inputs' = inputs + 1 /\ inputs' \in 0 .. MaxInputs
      BY <1>8, MediaConstants DEF Input, Queues
    <2> QED BY <1>0, <1>8, <2>1, <2>2, <2>3 DEF Queues
  <1>9. ASSUME Input, Flushes(<<key_package, ready(inputs)>>) PROVE Queues'
    <2> DEFINE o == Append(outbound, key_package)
    <2>1. <<key_package, ready(inputs)>> = <<key_package>> \o <<ready(inputs)>>
      OBVIOUS
    <2>2. /\ <<key_package>> \in Seq(Payloads) /\ <<ready(inputs)>> \in Seq(Payloads)
          /\ <<key_package, ready(inputs)>> \in Seq(Payloads)
      BY <1>1
    <2>3. outbound \o <<key_package, ready(inputs)>> = (outbound \o <<key_package>>) \o <<ready(inputs)>>
      BY <1>0, <2>1, <2>2, ConcatAssociative
    <2>4. outbound \o <<key_package>> \in Seq(Payloads)
      BY <1>0, <2>2, ConcatProperties
    <2>5. answered \o (outbound \o <<key_package, ready(inputs)>>)
            = Append(Append(w, key_package), ready(inputs))
      <3>1. answered \o ((outbound \o <<key_package>>) \o <<ready(inputs)>>)
              = (answered \o (outbound \o <<key_package>>)) \o <<ready(inputs)>>
        BY <1>0, <2>2, <2>4, ConcatAssociative
      <3>2. answered \o (outbound \o <<key_package>>) = Append(w, key_package)
        BY <1>1, <1>3
      <3>3. Append(w, key_package) \in Seq(Payloads)
        BY <1>0, <1>1, AppendProperties
      <3>4. Append(w, key_package) \o <<ready(inputs)>> = Append(Append(w, key_package), ready(inputs))
        BY <1>1, <3>3, AppendIsConcat
      <3> QED BY <2>3, <3>1, <3>2, <3>4
    <2>6. Ordered(Append(w, key_package), inputs)
      <3>1. \A i \in 1 .. Len(w) : Append(w, key_package)[i] = w[i]
        BY <1>0, <1>1, AppendProperties
      <3>2. Len(Append(w, key_package)) = Len(w) + 1 /\ Append(w, key_package)[Len(w) + 1] = key_package
        BY <1>0, <1>1, AppendProperties
      <3>3. Len(w) \in Nat
        BY <1>0, LenProperties
      <3> HIDE DEF w
      <3>4. \A i \in 1 .. Len(w) + 1 : i \in 1 .. Len(w) \/ i = Len(w) + 1
        BY <3>3
      <3> QED BY <1>0, <1>2, <3>1, <3>2, <3>3, <3>4 DEF Ordered, InOrder, UpTo
    <2>7. Append(w, key_package) \in Seq(Payloads)
      BY <1>0, <1>1, AppendProperties
    <2>8. Ordered(answered \o (outbound \o <<key_package, ready(inputs)>>), inputs + 1)
      BY <1>0, <1>1, <1>2, <2>5, <2>6, <2>7, OrderedAppend
    <2> QED BY <1>9, <2>2, <2>8, FlushKeeps
  <1>10. CASE Opcode
    <2>1. ASSUME NEW binary \in BOOLEAN, handle_proposals(binary) PROVE Queues'
      BY <1>7, <1>8, <2>1 DEF handle_proposals, Gateway
    <2>2. ASSUME NEW v, handle_session_description(v) PROVE Queues'
      BY <1>4, <2>2 DEF handle_session_description, Gateway
    <2>3. ASSUME NEW v, _prepare_transition(v) PROVE Queues'
      BY <1>6, <2>3 DEF _prepare_transition, Gateway
    <2>4. ASSUME NEW v, _execute_transition(v) PROVE Queues'
      BY <1>5, <2>4 DEF _execute_transition, Gateway
    <2>5. ASSUME NEW v, _prepare_epoch(v) PROVE Queues'
      BY <1>9, <2>5 DEF _prepare_epoch, Gateway
    <2>6. ASSUME NEW e, handle_commit_welcome(e) \/ handle_welcome(e) PROVE Queues'
      BY <1>5, <2>6 DEF handle_commit_welcome, handle_welcome, Gateway
    <2>7. ASSUME handle_invalid_commit_welcome PROVE Queues'
      BY <1>5, <2>7 DEF handle_invalid_commit_welcome, Gateway
    <2> QED BY <1>10, <2>1, <2>2, <2>3, <2>4, <2>5, <2>6, <2>7 DEF Opcode
  <1>11. CASE LinkChanges \/ play \/ pause \/ resume_playback \/ stop
    BY <1>4, <1>11 DEF LinkChanges, play, pause, resume_playback, stop, UnchangedByPlayer
  <1>12. ASSUME UNCHANGED <<answer_vars, inputs>> PROVE Queues'
    BY <1>12 DEF Queues, answer_vars
  <1> QED BY <1>10, <1>11, <1>12 DEF Next, PlayerStep, UnchangedByPlayer, Arrives, UnchangedByNet, vars

-----------------------------------------------------------------------------
(* The player, the epochs and the rest of the state.                       *)

Places == {"off", "start", "loop", "read", "silent", "hushed", "paused", "woken", "ending", "closing", "done"}
Modes ==
    /\ version \in {None, 0, 1} /\ enabled \in BOOLEAN
    /\ player \in Places /\ {stopped, resumed, speaking, link} \subseteq BOOLEAN
Epochs == epoch \in Nat \cup {None} /\ secret \in Secrets /\ (epoch = None <=> secret = <<>>)

LEMMA StepModes ==
    ASSUME Modes, [Next]_vars
    PROVE  Modes'
  <1>0. link' \in BOOLEAN
    <2>1. link \in BOOLEAN
      BY DEF Modes
    <2>2. \A more : Flushes(more) => link' \in BOOLEAN
      BY DEF Flushes
    <2>3. Opcode => link' \in BOOLEAN
      BY <2>1, <2>2 DEF Opcode, handle_session_description, _prepare_transition, _execute_transition,
         _prepare_epoch, handle_proposals, handle_commit_welcome, handle_welcome,
         handle_invalid_commit_welcome
    <2>4. ~Opcode => link' = link \/ link' = ~link
      BY DEF Next, LinkChanges, play, pause, resume_playback, stop, PlayerStep, UnchangedByPlayer, Arrives, vars
    <2> QED BY <2>1, <2>3, <2>4
  <1>1. version' \in {None, 0, 1}
    BY DEF Modes, Next, Opcode, handle_session_description, _prepare_transition, _execute_transition,
       _prepare_epoch, handle_proposals, handle_commit_welcome, handle_welcome,
       handle_invalid_commit_welcome, LinkChanges, play, pause, resume_playback, stop, PlayerStep,
       UnchangedByPlayer, Arrives, UnchangedByNet, dave_vars, vars
  <1>2. enabled' \in BOOLEAN
    <2>1. enabled \in BOOLEAN
      BY DEF Modes
    <2>2. UNCHANGED enabled \/ enabled' = (version' \notin {None, 0})
      BY DEF Next, Opcode, handle_session_description, _prepare_transition, _execute_transition,
         _prepare_epoch, handle_proposals, handle_commit_welcome, handle_welcome,
         handle_invalid_commit_welcome, LinkChanges, play, pause, resume_playback, stop, PlayerStep,
         UnchangedByPlayer, Arrives, UnchangedByNet, dave_vars, vars
    <2> QED BY <2>1, <2>2
  <1>3. UNCHANGED play_vars \/ play \/ pause \/ resume_playback \/ stop \/ PlayerStep
    BY DEF Next, Opcode, handle_session_description, _prepare_transition, _execute_transition,
       _prepare_epoch, handle_proposals, handle_commit_welcome, handle_welcome,
       handle_invalid_commit_welcome, UnchangedByOps, LinkChanges, Arrives, UnchangedByNet, vars
  <1>4. player' \in Places
    BY <1>3 DEF Modes, play_vars, play, pause, resume_playback, stop, SetResumed, PlayerStep, Starts,
       Reads, PausesPlayback, Hushes, Sleeps, Wakes, SendsFrame, LeavesLoop, TrailsOff, Finishes, Places
  <1>5. stopped' \in BOOLEAN /\ resumed' \in BOOLEAN
    <2>1. stopped \in BOOLEAN /\ resumed \in BOOLEAN
      BY DEF Modes
    <2>2. stopped' \in {stopped, TRUE, FALSE} /\ resumed' \in {resumed, TRUE, FALSE}
      BY <1>3 DEF play_vars, play, pause, resume_playback, stop, SetResumed, PlayerStep
    <2> QED BY <2>1, <2>2, Zenon
  <1>6. speaking' \in BOOLEAN
    <2>1. speaking \in BOOLEAN /\ link \in BOOLEAN
      BY DEF Modes
    <2>2. speaking' \in {speaking, TRUE, FALSE, speaking /\ ~link}
      BY <1>3 DEF play_vars, play, pause, resume_playback, stop, PlayerStep, Starts,
         Reads, PausesPlayback, Hushes, Sleeps, Wakes, SendsFrame, LeavesLoop, TrailsOff, Finishes
    <2> QED BY <2>1, <2>2
  <1> QED BY <1>0, <1>1, <1>2, <1>4, <1>5, <1>6 DEF Modes

(* The present epoch has a secret, and nothing else has.                   *)
LEMMA StepEpochs ==
    ASSUME Epochs, inputs \in Nat, [Next]_vars
    PROVE  Epochs'
  <1>0. Initial \in Secrets /\ Initial # <<>> /\ None \notin Nat /\ None \in Int
    BY DEF Initial, Secrets, None
  <1>1. ASSUME NEW e \in Nat, apply_commit(e) PROVE Epochs'
    <2>1. epoch' = e /\ secret' \in Secrets /\ secret' # <<>>
      <3>1. CASE epoch = None
        BY <1>0, <1>1, <3>1 DEF apply_commit
      <3>2. CASE epoch # None
        <4>1. epoch' = e /\ secret' = Append(secret, e)
          BY <1>1, <3>2 DEF apply_commit, expand
        <4>2. secret \in Seq(Int) /\ e \in Int
          BY DEF Epochs, Secrets
        <4> QED BY <4>1, <4>2, AppendProperties DEF Secrets
      <3> QED BY <3>1, <3>2
    <2>2. epoch' # None
      BY <1>0, <2>1
    <2> QED BY <2>1, <2>2 DEF Epochs
  <1>2. ASSUME NEW e \in Nat, apply_welcome(e, <<None, inputs>>) PROVE Epochs'
    <2>1. <<None, inputs>> \in Secrets /\ <<None, inputs>> # <<>>
      BY <1>0 DEF Secrets
    <2> QED BY <1>0, <1>2, <2>1 DEF apply_welcome, Epochs
  <1>3. (IF epoch = None THEN 0 ELSE epoch + 1) \in Nat
    BY <1>0 DEF Epochs
  <1>4. ASSUME UNCHANGED <<epoch, secret>> PROVE Epochs'
    BY <1>4 DEF Epochs
  <1>5. CASE Opcode
    <2>1. ASSUME NEW v, _prepare_epoch(v) PROVE Epochs'
      BY <1>1, <1>3, <1>4, <2>1 DEF _prepare_epoch, propose_add
    <2>2. ASSUME NEW binary, handle_proposals(binary) PROVE Epochs'
      BY <1>1, <1>3, <2>2 DEF handle_proposals, propose_add
    <2>3. ASSUME handle_commit_welcome(IF epoch = None THEN 0 ELSE epoch + 1) PROVE Epochs'
      BY <1>1, <1>3, <2>3 DEF handle_commit_welcome
    <2>4. ASSUME handle_welcome(IF epoch = None THEN 0 ELSE epoch + 1) PROVE Epochs'
      BY <1>2, <1>3, <2>4 DEF handle_welcome
    <2> QED BY <1>4, <1>5, <2>1, <2>2, <2>3, <2>4
        DEF Opcode, handle_session_description, _prepare_transition, _execute_transition,
            handle_invalid_commit_welcome, dave_vars
  <1> QED BY <1>4, <1>5
      DEF Next, LinkChanges, play, pause, resume_playback, stop, PlayerStep, UnchangedByPlayer, Arrives,
          UnchangedByNet, dave_vars, vars

(* What the player has announced.                                          *)
Announced == PausedIsQuiet /\ LoopSpeaks

LEMMA StepAnnounced ==
    ASSUME Announced, [Next]_vars
    PROVE  Announced'
  <1>1. UNCHANGED play_vars \/ play \/ pause \/ resume_playback \/ stop \/ PlayerStep
    BY DEF Next, Opcode, handle_session_description, _prepare_transition, _execute_transition,
       _prepare_epoch, handle_proposals, handle_commit_welcome, handle_welcome,
       handle_invalid_commit_welcome, UnchangedByOps, LinkChanges, Arrives, UnchangedByNet, vars
  <1>2. CASE PlayerStep
    BY <1>2 DEF PlayerStep, Starts, Reads, PausesPlayback, Hushes, Sleeps, Wakes, SendsFrame, LeavesLoop, TrailsOff, Finishes,
       Announced, PausedIsQuiet, LoopSpeaks
  <1>3. CASE ~PlayerStep
    BY <1>1, <1>3 DEF play_vars, play, pause, resume_playback, stop, SetResumed,
       Announced, PausedIsQuiet, LoopSpeaks
  <1> QED BY <1>2, <1>3

(* What holds beside the key schedule, and that it does.                   *)
TellInv == Caches /\ Queues /\ Modes /\ Epochs /\ Announced

LEMMA TellInvariant == Spec => []TellInv
  <1>1. Init => TellInv
    <2> SUFFICES ASSUME Init PROVE TellInv
      OBVIOUS
    <2>1. Caches
      BY MediaConstants, FS_EmptySet DEF Init, Caches, NoRatchet
    <2>2. Queues
      <3>1. <<>> \in Seq(Payloads) /\ <<>> \o <<>> = <<>> /\ Len(<<>>) = 0
        BY ConcatEmptySeq
      <3>2. Ordered(<<>>, 0)
        BY <3>1 DEF Ordered, InOrder, UpTo
      <3> QED BY <3>1, <3>2, MediaConstants DEF Init, Queues
    <2>3. Modes
      BY DEF Init, Modes, Places
    <2>4. Epochs
      BY DEF Init, Epochs, Secrets
    <2>5. Announced
      BY DEF Init, Announced, PausedIsQuiet, LoopSpeaks
    <2> QED BY <2>1, <2>2, <2>3, <2>4, <2>5 DEF TellInv
  <1>2. IInv /\ TellInv /\ [Next]_vars => TellInv'
    <2>1. Queues => inputs \in Nat
      BY MediaConstants DEF Queues
    <2> QED BY <2>1, StepCaches, StepQueues, StepModes, StepEpochs, StepAnnounced DEF TellInv
  <1> QED BY <1>1, <1>2, KeyInvariant, PTL DEF Spec

(* The voice gateway is told of transitions in their order, each at most   *)
(* once, however flushes break off, and of speaking when it is so; the     *)
(* cache of skipped keys keeps its bound.                                  *)
THEOREM InStep == Spec => []AnnouncedInStep
  <1>1. ASSUME IInv, TellInv PROVE AnnouncedInStep
    <2>1. /\ version \in {None, 0, 1} /\ enabled \in BOOLEAN
          /\ player \in {"off", "start", "loop", "read", "silent", "hushed", "paused", "woken",
                         "ending", "closing", "done"}
          /\ {stopped, resumed, speaking, link} \subseteq BOOLEAN
      BY <1>1 DEF TellInv, Modes, Places
    <2>2. epoch \in Nat \cup {None} /\ secret \in Secrets /\ (epoch = None <=> secret = <<>>)
      BY <1>1 DEF TellInv, Epochs
    <2>3. RatchetType(sending) /\ RatchetType(receiving)
      <3>1. ASSUME NEW r \in {sending, receiving} PROVE RatchetType(r)
        <4>1. NoRatchet.base \in Secrets
          BY DEF NoRatchet, Secrets
        <4>2. r.base \in Secrets
          BY <1>1, <2>2, <4>1 DEF IInv, RatchetsOfEpoch
        <4>3. r.generation \in Nat /\ r.skipped \subseteq 0 .. r.generation - 1
          BY <1>1 DEF IInv, Shape, IsRatchet
        <4> QED BY <4>2, <4>3 DEF RatchetType
      <3> QED BY <3>1
    <2>4. /\ sending.skipped = {} /\ Cardinality(receiving.skipped) <= MaxSkip
          /\ sent \in 0 .. MaxSent /\ \A f \in net : Numbered(f) /\ f.n \in 0 .. sent - 1
      BY <1>1 DEF IInv, Shape, TellInv, Caches
    <2>5. /\ answered \in Seq(Payloads) /\ outbound \in Seq(Payloads) /\ inputs \in 0 .. MaxInputs
          /\ InOrder(answered \o outbound) /\ UpTo(answered \o outbound, inputs)
      BY <1>1 DEF TellInv, Queues, Ordered
    <2>6. InOrder(answered)
      <3>1. /\ Len(answered \o outbound) = Len(answered) + Len(outbound)
            /\ \A i \in 1 .. Len(answered) + Len(outbound) : (answered \o outbound)[i] =
                 IF i <= Len(answered) THEN answered[i] ELSE outbound[i - Len(answered)]
        BY <2>5, ConcatProperties
      <3>2. Len(answered) \in Nat /\ Len(outbound) \in Nat
        BY <2>5, LenProperties
      <3>3. \A i \in 1 .. Len(answered) :
              i \in 1 .. Len(answered \o outbound) /\ (answered \o outbound)[i] = answered[i]
        BY <3>1, <3>2
      <3> QED BY <2>5, <3>3 DEF InOrder
    <2>7. TypeOK
      BY <2>1, <2>2, <2>3, <2>4, <2>5 DEF TypeOK, Numbered
    <2> QED BY <1>1, <2>5, <2>6, <2>7
        DEF AnnouncedInStep, AnswersInOrder, WaitingInOrder, TellInv, Announced
  <1> QED BY <1>1, KeyInvariant, TellInvariant, PTL

(* After pause() or stop() at most the frame that is being read leaves,    *)
(* until resume(), in any order of the calls and between any two awaits.   *)
THEOREM OneMore == Spec => []OneMoreAtMost
  <1>1. Init => OneMoreAtMost
    BY DEF Init, OneMoreAtMost
  <1>2. ASSUME Modes, OneMoreAtMost, [Next]_vars PROVE OneMoreAtMost'
    <2>1. UNCHANGED play_vars \/ play \/ pause \/ resume_playback \/ stop \/ PlayerStep
      BY <1>2 DEF Next, Opcode, handle_session_description, _prepare_transition, _execute_transition,
         _prepare_epoch, handle_proposals, handle_commit_welcome, handle_welcome,
         handle_invalid_commit_welcome, UnchangedByOps, LinkChanges, Arrives, UnchangedByNet, vars
    <2>2. CASE UNCHANGED play_vars
      BY <1>2, <2>2 DEF OneMoreAtMost, play_vars
    <2>3. CASE play \/ pause
      BY <1>2, <2>3 DEF OneMoreAtMost, play, pause
    <2>4. CASE resume_playback \/ stop
      BY <1>2, <2>4 DEF OneMoreAtMost, resume_playback, stop, SetResumed
    <2>5. CASE PlayerStep
      <3>1. CASE SendsFrame
        BY <1>2, <2>5, <3>1 DEF OneMoreAtMost, PlayerStep, SendsFrame
      <3>2. CASE Reads \/ Wakes
        BY <1>2, <2>5, <3>2 DEF OneMoreAtMost, PlayerStep, Reads, Wakes
      <3>3. CASE Starts \/ PausesPlayback \/ Hushes \/ Sleeps \/ LeavesLoop \/ TrailsOff \/ Finishes
        BY <1>2, <2>5, <3>3 DEF OneMoreAtMost, PlayerStep, Starts, PausesPlayback, Hushes, Sleeps,
           LeavesLoop, TrailsOff, Finishes
      <3> QED BY <2>5, <3>1, <3>2, <3>3 DEF PlayerStep
    <2> QED BY <2>1, <2>2, <2>3, <2>4, <2>5
  <1> QED BY <1>1, <1>2, TellInvariant, PTL DEF Spec, TellInv
=============================================================================
