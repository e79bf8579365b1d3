------------------------------ MODULE MediaPy ------------------------------
(***************************************************************************)
(* The voice media path of vaidcord-py and the DAVE end-to-end encryption  *)
(* that runs under it: the AudioPlayer task that sends frames, the UDP     *)
(* network, the VoiceReceiver that hears them, and the                     *)
(* DaveProtocolController with the ReferenceDaveBackend, its in-process    *)
(* MLS provider and its two ratchets.  The opcodes of the voice gateway    *)
(* change epochs and ratchets while frames are in flight.                  *)
(*                                                                         *)
(* The reference backend "always plays both roles itself", so the frames a *)
(* connection hears are the ones it sent, as in the repository's tests.    *)
(* A secret is the list of the epochs it was derived with, which is all    *)
(* that HKDF is used for here: equal inputs, equal keys.  One SSRC stands  *)
(* for the dictionaries by SSRC.                                           *)
(***************************************************************************)
EXTENDS Integers, Sequences, FiniteSets

CONSTANTS
    MaxSkip,   \* DaveRatchet.max_skip (32 in the code)
    Silence,   \* frames of trailing silence (5 in the code)
    MaxSent,   \* bound: frames handed to the socket
    MaxInputs  \* bound: opcodes of the gateway, link changes and calls of the user

ASSUME MediaConstants ==
    /\ MaxSkip \in Nat \ {0}
    /\ {Silence, MaxSent, MaxInputs} \subseteq Nat

None == -1
NoRatchet == [base |-> <<>>, generation |-> 0, skipped |-> {}]

VARIABLES
    version,    \* DaveProtocolState.protocol_version: None, 0 or 1
    enabled,    \* DaveProtocolState.enabled
    epoch,      \* InProcessMLSProvider._epoch.epoch, None without a group
    secret,     \* InProcessMLSProvider._epoch.epoch_secret, <<>> without a group
    sending,    \* the send ratchet, NoRatchet while the dictionary is empty
    receiving,  \* the receive ratchet, likewise
    outbound,   \* VoiceConnection._dave_outbound
    answered,   \* the payloads of DAVE on the wire, in order (history)
    player,     \* where AudioPlayer._run is
    stopped,    \* AudioPlayer._stopped
    resumed,    \* AudioPlayer._resumed
    speaking,   \* the last speaking flag announced to the gateway
    late,       \* frames of the source sent since pause() or stop() (history)
    link,       \* the voice websocket is open
    net,        \* frames in flight that a receiver may try to decrypt
    sent,       \* frames handed to the socket
    reseeds,    \* how often the ratchets were thrown away (history)
    used,       \* generations the present receive ratchet gave out (history)
    heard,      \* numbers of the encrypted frames decrypted so far (history)
    inputs      \* opcodes, link changes and calls so far

dave_vars   == <<version, enabled, epoch, secret>>
ratchets    == <<sending, receiving, reseeds, used>>
answer_vars == <<outbound, answered>>
play_vars   == <<player, stopped, resumed, speaking, late>>
net_vars    == <<net, sent, heard>>
vars == <<dave_vars, ratchets, answer_vars, play_vars, link, net_vars, inputs>>

Init ==
    /\ version = None /\ enabled = FALSE
    /\ epoch = None /\ secret = <<>>
    /\ sending = NoRatchet /\ receiving = NoRatchet
    /\ reseeds = 0 /\ used = {}
    /\ outbound = <<>> /\ answered = <<>>
    /\ player = "off" /\ stopped = FALSE /\ resumed = TRUE /\ speaking = FALSE
    /\ late = 0
    /\ link = TRUE
    /\ net = {} /\ sent = 0  /\ heard = {}
    /\ inputs = 0

-----------------------------------------------------------------------------
(* DaveRatchet.                                                            *)

(* The n largest elements: what is left of the skip cache when the oldest  *)
(* key is deleted before each insertion into a full cache.                 *)
Newest(S, n) == {x \in S : Cardinality({y \in S : x < y}) < n}

(* When derive_for raises.                                                 *)
RefusedEarly(r, g) ==
    IF g < r.generation THEN g \notin r.skipped ELSE g - r.generation >= MaxSkip
Refused(r, g) ==
    IF g < r.generation THEN g \notin r.skipped ELSE g - r.generation > MaxSkip

(* derive_for, when it does not raise: a past key is popped from the       *)
(* cache; a future one steps the chain and caches the keys in between.     *)
derive_for(r, g) ==
    IF g < r.generation
    THEN [r EXCEPT !.skipped = @ \ {g}]
    ELSE [base |-> r.base, generation |-> g + 1,
          skipped |-> IF g = r.generation THEN r.skipped
                      ELSE Newest(r.skipped \cup (r.generation .. g - 1), MaxSkip)]

(* _get_ratchet and _make_ratchet: the ratchet is created from the epoch   *)
(* secret of the moment it is first used.                                  *)
Ratchet(r) == IF r = NoRatchet THEN [r EXCEPT !.base = secret] ELSE r

(* _reseed_ratchets, and handle_invalid_commit_welcome, which clears the   *)
(* same two dictionaries.  used speaks of the present receive ratchet: one *)
(* made of an unchanged secret gives the same keys again (KeysNeverRepeat).*)
ReseedSendOnly ==
    /\ sending' = NoRatchet /\ UNCHANGED <<receiving, used>>
    /\ reseeds' = reseeds + 1
Reseed ==
    /\ sending' = NoRatchet /\ receiving' = NoRatchet
    /\ reseeds' = reseeds + 1 /\ used' = {}

-----------------------------------------------------------------------------
(* InProcessMLSProvider.  hkdf_expand_label(secret, context = epoch) is    *)
(* Append; Initial is the provider's random initial secret.                *)

Initial == <<0>>
expand(s, e) == Append(s, e)

apply_commit(e) ==
    /\ epoch' = e
    /\ secret' = IF epoch = None THEN Initial ELSE expand(secret, e)

(* propose_add builds a commit for the next epoch and applies it.          *)
propose_add == apply_commit(IF epoch = None THEN 0 ELSE epoch + 1)

apply_welcome(e, s) == epoch' = e /\ secret' = s

-----------------------------------------------------------------------------
(* DaveProtocolController, driven by VoiceConnection._handle_ws_payload.   *)
(* The payload callback appends to _dave_outbound, and the handler of a    *)
(* text payload flushes the list when the opcode has been handled.         *)

ready(id) == [op |-> "ready", id |-> id]
key_package == [op |-> "key_package", id |-> None]
commit_welcome == [op |-> "commit", id |-> None]

(* _flush_dave_outbound after the payloads `more` were queued.  It may     *)
(* find the websocket closed: the payload it has popped is lost, and the   *)
(* ones behind it wait for the next flush.                                 *)
FlushesNewFirst(more) ==
    LET queue == more \o outbound
    IN  \E k \in 0 .. Len(queue) :
            /\ answered' = answered \o SubSeq(queue, 1, k)
            /\ outbound' = SubSeq(queue, k + 2, Len(queue))
            /\ link' = (k = Len(queue))
Flushes(more) ==
    LET queue == outbound \o more
    IN  \E k \in 0 .. Len(queue) :
            /\ answered' = answered \o SubSeq(queue, 1, k)
            /\ outbound' = SubSeq(queue, k + 2, Len(queue))
            /\ link' = (k = Len(queue))

Input == inputs < MaxInputs /\ inputs' = inputs + 1

Gateway == Input /\ link

UnchangedByOps == UNCHANGED <<play_vars, net_vars>>

handle_session_description(v) ==
    /\ Gateway
    /\ version' = v /\ enabled' = (v \notin {None, 0})
    /\ UNCHANGED <<epoch, secret, ratchets, answer_vars, link>> /\ UnchangedByOps

_prepare_transition(v) ==
    /\ Gateway
    /\ version' = v
    /\ Flushes(<<ready(inputs)>>)
    /\ UNCHANGED <<enabled, epoch, secret, ratchets>> /\ UnchangedByOps

_execute_transition(v) ==
    /\ Gateway
    /\ version' = IF v = None THEN version ELSE v
    /\ enabled' = (version' \notin {None, 0})
    /\ Flushes(<<>>)
    /\ UNCHANGED <<epoch, secret, ratchets>> /\ UnchangedByOps

_prepare_epoch(v) ==
    /\ Gateway
    /\ version' = v
    /\ IF epoch = None THEN propose_add ELSE UNCHANGED <<epoch, secret>>
    /\ Reseed
    /\ Flushes(<<key_package, ready(inputs)>>)
    /\ UNCHANGED enabled /\ UnchangedByOps

(* MLS_PROPOSALS re-commits.  A binary frame goes through                  *)
(* _handle_binary_payload, which does not flush.                           *)
handle_proposals(binary) ==
    /\ Gateway
    /\ propose_add /\ Reseed
    /\ IF binary
       THEN outbound' = Append(outbound, commit_welcome) /\ UNCHANGED <<answered, link>>
       ELSE Flushes(<<commit_welcome>>)
    /\ UNCHANGED <<version, enabled>> /\ UnchangedByOps

handle_commit_welcome(e) ==
    /\ Gateway
    /\ apply_commit(e) /\ Reseed /\ Flushes(<<>>)
    /\ UNCHANGED <<version, enabled>> /\ UnchangedByOps

(* The secret of a welcome is the peer's: it comes from no epoch of ours.  *)
handle_welcome(e) ==
    /\ Gateway
    /\ apply_welcome(e, <<None, inputs>>) /\ Reseed /\ Flushes(<<>>)
    /\ UNCHANGED <<version, enabled>> /\ UnchangedByOps

handle_invalid_commit_welcome ==
    /\ Gateway
    /\ Reseed /\ Flushes(<<>>)
    /\ UNCHANGED <<dave_vars>> /\ UnchangedByOps

-----------------------------------------------------------------------------
(* Sending.                                                                *)

(* send_audio_frame raises when DAVE is enabled without an epoch.          *)
CanEncrypt == enabled => secret # <<>>

(* encrypt_frame for the i-th of some frames sent in a row.  The network   *)
(* may bring one datagram twice, and late, or never.                       *)
Frame(i) ==
    [n |-> sent + i, base |-> Ratchet(sending).base, gen |-> sending.generation + i,
     seed |-> reseeds, copies |-> 2]

(* A frame of the source sent in the clear passes a receiver whose DAVE is *)
(* off; one whose DAVE is on takes its last bytes for a trailer.           *)
ClearFrame == [n |-> sent, base |-> <<>>, gen |-> None, seed |-> None, copies |-> 1]

(* Of silence in the clear only the number counts: decrypt_frame refuses   *)
(* frames as short as that.                                                *)
SendsFrames(k, clear) ==
    /\ sent' = sent + k
    /\ IF enabled /\ k > 0
       THEN /\ net' = net \cup {Frame(i) : i \in 0 .. k - 1}
            /\ sending' = [Ratchet(sending) EXCEPT !.generation = @ + k]
       ELSE net' = net \cup clear /\ UNCHANGED sending

(* send_silence_frames; the bound on the frames cuts it short.             *)
SendsSilence ==
    SendsFrames(IF sent + Silence <= MaxSent THEN Silence ELSE MaxSent - sent, {})

SendsNothing == UNCHANGED <<sent, net, sending>>

UnchangedByPlayer ==
    UNCHANGED <<dave_vars, receiving, reseeds, used, answer_vars, link, heard>>

(* resume() and stop() set the event; a waiting task is woken for good,    *)
(* whatever happens to the event before it runs.                           *)
SetResumedAsleep == resumed' = TRUE /\ UNCHANGED player
SetResumed ==
    /\ resumed' = TRUE
    /\ player' = IF player = "paused" THEN "woken" ELSE player

play ==
    /\ Input /\ player \in {"off", "done"}
    /\ player' = "start" /\ stopped' = FALSE /\ resumed' = TRUE /\ late' = 0
    /\ SendsNothing /\ UNCHANGED speaking /\ UnchangedByPlayer

pause ==
    /\ Input /\ player # "off" /\ resumed' = FALSE
    /\ SendsNothing /\ UNCHANGED <<player, stopped, speaking, late>> /\ UnchangedByPlayer

resume_playback ==
    /\ Input /\ player # "off" /\ SetResumed
    /\ late' = IF stopped THEN late ELSE 0
    /\ SendsNothing /\ UNCHANGED <<stopped, speaking>> /\ UnchangedByPlayer

stop ==
    /\ Input /\ player # "off" /\ stopped' = TRUE /\ SetResumed
    /\ SendsNothing /\ UNCHANGED <<speaking, late>> /\ UnchangedByPlayer

(* _run, from one await to the next: "loop" is the head of the loop after  *)
(* an await, "read" the await of source.read.  set_speaking raises when    *)
(* the websocket is closed; an exception leads to the finally block.       *)
Starts ==
    /\ player = "start" /\ SendsNothing /\ UNCHANGED late
    /\ IF link THEN player' = "loop" /\ speaking' = TRUE
               ELSE player' = "done" /\ UNCHANGED speaking

ReadsPaused ==
    /\ player = "loop" /\ ~stopped
    /\ player' = "read" /\ SendsNothing /\ UNCHANGED <<speaking, late>>

Reads ==
    /\ player = "loop" /\ ~stopped /\ resumed
    /\ player' = "read" /\ SendsNothing /\ UNCHANGED <<speaking, late>>

(* The three awaits of a pause: the silence, the flag, and the event.      *)
PausesPlayback ==
    /\ player = "loop" /\ ~stopped /\ ~resumed /\ UNCHANGED <<speaking, late>>
    /\ IF CanEncrypt THEN player' = "silent" /\ SendsSilence
                     ELSE player' = "ending" /\ SendsNothing

Hushes ==
    /\ player = "silent" /\ SendsNothing /\ UNCHANGED late
    /\ IF link THEN player' = "hushed" /\ speaking' = FALSE
               ELSE player' = "ending" /\ UNCHANGED speaking

Sleeps ==
    /\ player = "hushed" /\ ~resumed
    /\ player' = "paused" /\ SendsNothing /\ UNCHANGED <<speaking, late>>

Wakes ==
    /\ player = "woken" \/ (player = "hushed" /\ resumed)
    /\ SendsNothing /\ UNCHANGED late
    /\ IF stopped \/ ~link THEN player' = "ending" /\ UNCHANGED speaking
                           ELSE player' = "read" /\ speaking' = TRUE

(* source.read returns a frame, which is sent whatever was asked meanwhile.*)
SendsFrame ==
    /\ player = "read" /\ sent < MaxSent /\ UNCHANGED speaking
    /\ IF CanEncrypt
       THEN /\ SendsFrames(1, {ClearFrame}) /\ player' = "loop"
            /\ late' = IF stopped \/ ~resumed THEN late + 1 ELSE late
       ELSE SendsNothing /\ player' = "ending" /\ UNCHANGED late

LeavesLoop ==
    /\ \/ player = "loop" /\ stopped
       \/ player = "read"             \* the source is exhausted, or raises
    /\ player' = "ending" /\ SendsNothing /\ UNCHANGED <<speaking, late>>

(* The finally block: the silence and the speaking flag are in one try.    *)
TrailsOff ==
    /\ player = "ending" /\ UNCHANGED <<speaking, late>>
    /\ IF CanEncrypt THEN player' = "closing" /\ SendsSilence
                     ELSE player' = "done" /\ SendsNothing

Finishes ==
    /\ player = "closing" /\ player' = "done"
    /\ speaking' = (speaking /\ ~link)
    /\ SendsNothing /\ UNCHANGED late

PlayerStep ==
    /\ \/ Starts \/ Reads \/ SendsFrame \/ LeavesLoop \/ TrailsOff \/ Finishes
       \/ PausesPlayback \/ Hushes \/ Sleeps \/ Wakes
    /\ UNCHANGED <<stopped, resumed, inputs>> /\ UnchangedByPlayer

-----------------------------------------------------------------------------
(* The network and the receiver.                                           *)

UnchangedByNet == UNCHANGED <<dave_vars, answer_vars, play_vars, sending, reseeds, sent, inputs>>

(* The generation decrypt_frame reads in a frame; in one sent in the clear *)
(* it is whatever the bytes say.  Trailers bounds that: larger ones are    *)
(* refused, like frames too short to have one.                             *)
Trailers == 0 .. MaxSent
Generations(f) == IF f.gen = None THEN Trailers ELSE {f.gen}

(* VoiceReceiver._handle_datagram and ReferenceDaveBackend.decrypt_frame.  *)
(* A frame of another secret, or of none, fails authentication after its   *)
(* key was derived.  A frame that arrives while DAVE is off is passed on   *)
(* as it is and changes no state here, like one that is lost.              *)
Hears(f) ==
    \E g \in Generations(f) :
        LET r == Ratchet(receiving)
        IN  /\ enabled /\ secret # <<>>
            /\ IF Refused(r, g)
               THEN receiving' = r /\ UNCHANGED <<used, heard>>
               ELSE /\ receiving' = derive_for(r, g)
                    /\ used' = used \cup {g}
                    /\ heard' = IF r.base = f.base THEN heard \cup {f.n} ELSE heard

Arrives(f) ==
    /\ Hears(f)
    /\ net' = (net \ {f}) \cup (IF f.copies = 2 THEN {[f EXCEPT !.copies = 1]} ELSE {})
    /\ UNCHANGED link /\ UnchangedByNet

LinkChanges ==
    /\ Input /\ link' = ~link
    /\ UNCHANGED <<dave_vars, ratchets, answer_vars, play_vars, net_vars>>

-----------------------------------------------------------------------------
Opcode ==
    \/ \E v \in {0, 1} : handle_session_description(v) \/ _prepare_transition(v)
    \/ \E v \in {None, 0, 1} : _execute_transition(v)
    \/ _prepare_epoch(1)
    \/ \E binary \in BOOLEAN : handle_proposals(binary)
    \/ handle_commit_welcome(IF epoch = None THEN 0 ELSE epoch + 1)
    \/ handle_welcome(IF epoch = None THEN 0 ELSE epoch + 1)
    \/ handle_invalid_commit_welcome

Next ==
    \/ Opcode \/ LinkChanges
    \/ play \/ pause \/ resume_playback \/ stop \/ PlayerStep
    \/ \E f \in net : Arrives(f)

Spec == Init /\ [][Next]_vars

(* The event loop runs the player's task; nothing else is assumed.         *)
FairSpec == Spec /\ WF_vars(PlayerStep)

-----------------------------------------------------------------------------
(* Properties.                                                             *)

Secrets == Seq(Int)
Payloads == [op : {"ready", "key_package", "commit"}, id : Int]
RatchetType(r) ==
    /\ r.base \in Secrets /\ r.generation \in Nat
    /\ r.skipped \subseteq 0 .. r.generation - 1

(* The state keeps its shape, and the skip cache of a ratchet never holds  *)
(* more than max_skip keys, all of generations it has passed.              *)
TypeOK ==
    /\ version \in {None, 0, 1} /\ enabled \in BOOLEAN
    /\ epoch \in Nat \cup {None} /\ secret \in Secrets /\ (epoch = None <=> secret = <<>>)
    /\ answered \in Seq(Payloads) /\ outbound \in Seq(Payloads)
    /\ RatchetType(sending) /\ sending.skipped = {} /\ RatchetType(receiving)
    /\ Cardinality(receiving.skipped) <= MaxSkip
    /\ player \in {"off", "start", "loop", "read", "silent", "hushed", "paused", "woken",
                   "ending", "closing", "done"}
    /\ {stopped, resumed, speaking, link} \subseteq BOOLEAN
    /\ sent \in 0 .. MaxSent /\ inputs \in 0 .. MaxInputs
    /\ \A f \in net : /\ f.gen \in Nat \/ (f.gen = None /\ f.seed = None)
                      /\ f.n \in 0 .. sent - 1

(* Whatever opcode changed the epoch, both ratchets in use stem from its   *)
(* present secret: the sender and the receiver change keys together.       *)
RatchetsOfEpoch ==
    \A r \in {sending, receiving} : r = NoRatchet \/ r.base = secret

(* A DaveRatchet gives a key out once: one that was used is not in its     *)
(* cache of skipped ones.                                                  *)
KeysOnce == used \cap receiving.skipped = {}

(* And it keeps the keys of the last max_skip generations until they are   *)
(* asked for.                                                              *)
WindowKept ==
    \A g \in 0 .. receiving.generation - 1 :
        g + MaxSkip + 1 >= receiving.generation => g \in used \/ g \in receiving.skipped

(* A frame in flight was encrypted with the secret the ratchets have as    *)
(* long as they are not thrown away.                                       *)
FramesOfSeed ==
    /\ reseeds \in Nat
    /\ \A f \in net : \/ f.seed \in 0 .. reseeds /\ (f.seed = reseeds => f.base = secret)
                      \/ f.seed = None

(* The key schedule: no opcode and no frame, late, early, doubled, lost or *)
(* in the clear, breaks any of the four.  It speaks of the ratchets in use *)
(* until they are thrown away.                                             *)
KeysOfEpoch == RatchetsOfEpoch /\ KeysOnce /\ WindowKept /\ FramesOfSeed

(* A frame of the present ratchet whose key is unused comes at most        *)
(* max_skip generations late or early.                                     *)
InWindow(f) ==
    /\ Arrives(f) /\ enabled /\ f.seed = reseeds
    /\ f.gen \notin used
    /\ f.gen + MaxSkip + 1 >= receiving.generation
    /\ f.gen <= receiving.generation + MaxSkip

(* A frame of the present ratchet that comes at most max_skip generations  *)
(* late or early is heard, unless another datagram has already had its     *)
(* key: loss and reordering among the others cost it nothing.              *)
InWindowHeard == [][\A f \in net : InWindow(f) => f.n \in heard']_vars

(* No two frames are encrypted with one key.  The code derives the same    *)
(* keys again when PREPARE_EPOCH finds a group (reference.py:118-121), and *)
(* after an invalid commit (reference.py:155-156, whose comment speaks of  *)
(* "a fresh ratchet"); no run checks it.                                   *)
KeysNeverRepeat ==
    \A f, h \in net : f.seed # None /\ f.base = h.base /\ f.gen = h.gen => f.n = h.n

(* TRANSITION_READYs go out in the order of the prepare opcodes and none   *)
(* goes out twice, also when a flush breaks off half way; the one it broke *)
(* off at is lost.                                                         *)
InOrder(q) ==
    \A i, j \in 1 .. Len(q) : i < j /\ q[i].op = "ready" /\ q[j].op = "ready" => q[i].id < q[j].id
AnswersInOrder == InOrder(answered)

(* The inductive form: with those that wait for a flush, and none is ahead *)
(* of the opcodes handled so far.                                          *)
UpTo(q, n) == \A i \in 1 .. Len(q) : q[i].op = "ready" => q[i].id < n
WaitingInOrder == InOrder(answered \o outbound) /\ UpTo(answered \o outbound, inputs)

(* A paused player has announced that it does not speak.                   *)
PausedIsQuiet == player \in {"hushed", "paused"} => ~speaking

(* And one that sends frames that it does.                                 *)
LoopSpeaks == player \in {"loop", "read", "silent"} => speaking

(* What the voice gateway is told, of transitions and of speaking, is in   *)
(* step with the state it is told about.                                   *)
AnnouncedInStep == TypeOK /\ AnswersInOrder /\ WaitingInOrder /\ PausedIsQuiet /\ LoopSpeaks

(* After pause() or stop() at most one more frame of the source leaves,    *)
(* the one being read, until resume() (tests/test_voice_protocol.py:328),  *)
(* whichever of the two comes first and wherever the player is between two *)
(* awaits.  The other parts: it is then past every place that reads.       *)
OneMoreAtMost ==
    /\ late \in 0 .. 1
    /\ resumed /\ ~stopped => late = 0
    /\ player = "read" \/ (player = "woken" /\ ~stopped) => late = 0

(* stop() ends the playback, also of a player that is paused at that       *)
(* moment or is paused and resumed around the call.  The exception: it is  *)
(* overtaken by pause() while the player is between the awaits of an       *)
(* earlier pause and has passed the test of _stopped.                      *)
StopEndsPlayback ==
    stopped /\ player # "off"
        ~> player = "done" \/ ~stopped \/ (player = "paused" /\ ~resumed)

(* Without the exception, which is a player that waits at player.py:108    *)
(* for ever; no run checks this.                                           *)
StopAlwaysEnds == stopped /\ player # "off" ~> player = "done" \/ ~stopped
=============================================================================
