-------------------------- MODULE ClickEngine_proofs --------------------------
(***************************************************************************)
(* Proofs about ClickEngine, for any number of voices, any sample rates,   *)
(* block sizes and pulses.                                                 *)
(***************************************************************************)
EXTENDS ClickEngine, FiniteSetTheorems, TLAPS

----------------------------------------------------------------------------
(* The sounds *)

Fall(sound) == 126000 \div parametersFor[sound].decay

\* The table of parametersFor against maximumTailSeconds: every audible sound
\* falls by more than its amplitude in ten times 10 ms.
LEMMA SoundFacts ==
    \A s \in Audible :
       /\ s # "mute" /\ s \in Sounds
       /\ parametersFor[s].amplitude \in Nat
       /\ Fall(s) \in Nat \ {0}
       /\ parametersFor[s].amplitude < 10 * Fall(s)
  <1>1. Audible = {"accent", "normal", "high", "low", "wood", "triplet"}
    BY DEF Audible, Sounds, parametersFor, tripletParameters
  <1>2. \A s \in Audible : s # "mute" /\ s \in Sounds
    BY <1>1 DEF Audible
  <1>3. /\ parametersFor["accent"] = [amplitude |-> 20593, decay |-> 30]
        /\ parametersFor["normal"] = [amplitude |-> 19909, decay |-> 25]
        /\ parametersFor["high"] = [amplitude |-> 19736, decay |-> 18]
        /\ parametersFor["low"] = [amplitude |-> 20068, decay |-> 35]
        /\ parametersFor["wood"] = [amplitude |-> 20214, decay |-> 12]
        /\ parametersFor["triplet"] = [amplitude |-> 18238, decay |-> 8]
    BY DEF parametersFor, tripletParameters
  <1>4. \A s \in Audible : /\ parametersFor[s].amplitude \in Nat
                           /\ Fall(s) \in Nat \ {0}
                           /\ parametersFor[s].amplitude < 10 * Fall(s)
    BY <1>1, <1>3 DEF Fall
  <1> QED  BY <1>2, <1>4

\* A product grows with its first factor.
LEMMA ProductMonotone ==
    ASSUME NEW f \in Nat, NEW m \in Nat, NEW n \in Nat, m <= n
    PROVE  m * f \in Nat /\ n * f \in Nat /\ m * f <= n * f
  <1>1. PICK k \in Nat : n = m + k
    BY n - m \in Nat, n = m + (n - m)
  <1>2. n * f = m * f + k * f /\ k * f \in Nat /\ m * f \in Nat
    BY <1>1
  <1> QED  BY <1>2

\* The level of a sound never rises again.
LEMMA LevelFalls ==
    ASSUME NEW s \in Audible, NEW r \in Nat, NEW m \in Nat, NEW n \in Nat, m <= n
    PROVE  /\ Level(s, m, r) \in Int /\ Level(s, n, r) \in Int
           /\ Level(s, n, r) <= Level(s, m, r)
  <1> DEFINE a == parametersFor[s].amplitude
             f == Fall(s)
  <1>1. a \in Nat /\ f \in Nat  BY SoundFacts
  <1>2. m * f \in Nat /\ n * f \in Nat /\ m * f <= n * f  BY <1>1, ProductMonotone
  <1>3. a * r \in Int  BY <1>1
  <1>4. Level(s, m, r) = a * r - m * f /\ Level(s, n, r) = a * r - n * f
    BY DEF Level, Fall
  <1> HIDE DEF a, f
  <1> QED  BY <1>2, <1>3, <1>4

\* No sound lasts as long as the tail that is announced to the host.
LEMMA TailIsLongEnough ==
    ASSUME NEW s \in Audible, NEW r \in Nat \ {0}, NEW n \in Nat, Level(s, n, r) >= 0
    PROVE  n < TailSamples(r)
  <1> DEFINE a == parametersFor[s].amplitude
             f == Fall(s)
  <1>1. a \in Nat /\ f \in Nat /\ a < 10 * f  BY SoundFacts
  <1>2. Level(s, n, r) = a * r - n * f  BY DEF Level, Fall
  <1> HIDE DEF a, f
  <1> SUFFICES ASSUME n >= 10 * r PROVE a * r < n * f
    BY <1>1, <1>2 DEF TailSamples
  <1>3. (10 * r) * f <= n * f  BY <1>1, ProductMonotone
  <1>4. (a + 1) * r <= (10 * f) * r  BY <1>1, ProductMonotone
  <1>5. (10 * r) * f = (10 * f) * r  BY <1>1
  <1>6. (a + 1) * r = a * r + r  BY <1>1
  <1>7. a * r \in Nat /\ n * f \in Nat /\ (10 * f) * r \in Nat  BY <1>1
  <1> DEFINE x == a * r
             y == n * f
             z == (10 * f) * r
  <1>8. x \in Nat /\ y \in Nat /\ z \in Nat /\ z <= y /\ x + r <= z
    BY <1>3, <1>4, <1>5, <1>6, <1>7
  <1> HIDE DEF x, y, z
  <1>9. x < y  BY <1>8
  <1> QED  BY <1>9 DEF x, y

----------------------------------------------------------------------------
(* The voices *)

\* What the invariant says of the voices, at some time and next seed.
Playable(playing, time, seed) ==
    /\ playing \in [Voices -> Clicks \union {Free}]
    /\ \A i, j \in Voices : playing[i] # Free /\ playing[i].seed = playing[j].seed => i = j
    /\ \A i \in Voices : playing[i] # Free => /\ playing[i].seed < seed
                                             /\ playing[i].rendered <= time
                                             /\ LevelOf(playing[i]) >= 0

LEMMA InvPlayable ==
    ASSUME EngineInv
    PROVE  /\ Playable(voices, position, nextNoiseSeed)
           /\ position \in Nat /\ currentSampleRate \in Nat
  <1>1. Playable(voices, position, nextNoiseSeed)
    BY DEF EngineInv, TypeOK, VoicesApart, Playable, IsActive
  <1>2. numSamples \in Nat  BY BlockSizesAssumption DEF EngineInv, TypeOK
  <1>3. position \in Nat  BY <1>2 DEF EngineInv, TypeOK, position
  <1>4. currentSampleRate \in Nat  BY SampleRatesAssumption DEF EngineInv, TypeOK
  <1> QED  BY <1>1, <1>3, <1>4

LEMMA FreeIsNoClick == Free \notin Clicks
  BY SoundFacts DEF Free, Clicks

\* Rendering some samples leaves the voices playable.
LEMMA RenderedPlayable ==
    ASSUME NEW time \in Nat, NEW n \in Nat, currentSampleRate \in Nat,
           NEW seed \in Nat, Playable(voices, time, seed)
    PROVE  Playable(Rendered(n), time + n, seed)
  <1> DEFINE p == Rendered(n)
  <1>1. ASSUME NEW i \in Voices
        PROVE  \/ p[i] = Free
               \/ /\ voices[i] # Free /\ voices[i] \in Clicks
                  /\ p[i] = [voices[i] EXCEPT !.rendered = @ + n]
                  /\ p[i] \in Clicks /\ p[i].seed = voices[i].seed
                  /\ p[i].rendered = voices[i].rendered + n
                  /\ p[i].sound = voices[i].sound
                  /\ Level(p[i].sound, p[i].rendered, currentSampleRate) >= 0
    BY DEF Rendered, IsActive, Playable, Clicks
  <1>2. p \in [Voices -> Clicks \union {Free}]
    BY <1>1 DEF Rendered
  <1>3. ASSUME NEW i \in Voices, NEW j \in Voices, p[i] # Free, p[i].seed = p[j].seed
        PROVE  i = j
    <2>1. p[i].seed \in Nat \ {0}  BY <1>1, <1>3 DEF Clicks
    <2>2. p[j] # Free  BY <2>1, <1>3 DEF Free
    <2>3. voices[i] # Free /\ voices[i].seed = voices[j].seed  BY <1>1, <1>3, <2>2
    <2> QED  BY <2>3 DEF Playable
  <1>4. ASSUME NEW i \in Voices, p[i] # Free
        PROVE  p[i].seed < seed /\ p[i].rendered <= time + n /\ LevelOf(p[i]) >= 0
    <2>1. voices[i].seed < seed /\ voices[i].rendered <= time
      BY <1>1, <1>4 DEF Playable
    <2>2. voices[i].rendered \in Nat  BY <1>1, <1>4 DEF Clicks
    <2>3. /\ p[i].seed = voices[i].seed /\ p[i].rendered = voices[i].rendered + n
          /\ Level(p[i].sound, p[i].rendered, currentSampleRate) >= 0
      BY <1>1, <1>4
    <2>4. LevelOf(p[i]) >= 0  BY <2>3 DEF LevelOf
    <2>5. time + n >= voices[i].rendered + n  BY <2>1, <2>2
    <2> HIDE DEF p
    <2> QED  BY <2>1, <2>3, <2>4, <2>5
  <1> QED  BY <1>2, <1>3, <1>4 DEF Playable

\* A new click may take any voice.
LEMMA StruckPlayable ==
    ASSUME NEW p, NEW time \in Nat, NEW seed \in Nat \ {0}, currentSampleRate \in Nat,
           Playable(p, time, seed), NEW i \in Voices, NEW sound \in Audible
    PROVE  Playable([p EXCEPT ![i] = [sound |-> sound, rendered |-> 0, seed |-> seed]],
                    time, seed + 1)
  <1> DEFINE new == [sound |-> sound, rendered |-> 0, seed |-> seed]
             q == [p EXCEPT ![i] = new]
  <1>1. new \in Clicks  BY DEF Clicks
  <1>2. q \in [Voices -> Clicks \union {Free}] /\ q[i] = new
    BY <1>1 DEF Playable
  <1>3. \A j \in Voices \ {i} : q[j] = p[j]  BY DEF Playable
  <1>4. \A j \in Voices : p[j].seed \in Nat /\ p[j].seed < seed
    BY DEF Playable, Clicks, Free
  <1>5. LevelOf(new) >= 0
    <2>1. parametersFor[sound].amplitude \in Nat /\ Fall(sound) \in Nat  BY SoundFacts
    <2>2. LevelOf(new) = parametersFor[sound].amplitude * currentSampleRate - 0 * Fall(sound)
      BY DEF LevelOf, Level, Fall
    <2> QED  BY <2>1, <2>2
  <1>6. ASSUME NEW j \in Voices, NEW k \in Voices, q[j] # Free, q[j].seed = q[k].seed
        PROVE  j = k
    BY <1>2, <1>3, <1>4, <1>6 DEF Playable
  <1>7. ASSUME NEW j \in Voices, q[j] # Free
        PROVE  q[j].seed < seed + 1 /\ q[j].rendered <= time /\ LevelOf(q[j]) >= 0
    <2>1. CASE j = i
      <3>1. q[j] = new  BY <2>1, <1>2
      <3>2. new.seed = seed /\ new.rendered = 0  OBVIOUS
      <3> HIDE DEF new
      <3> QED  BY <3>1, <3>2, <1>5
    <2>2. CASE j # i
      <3>1. q[j] = p[j]  BY <2>2, <1>3
      <3> QED  BY <3>1, <1>7, <1>4 DEF Playable
    <2> QED  BY <2>1, <2>2
  <1> QED  BY <1>2, <1>6, <1>7 DEF Playable

----------------------------------------------------------------------------
(* The inductive invariant *)

LEMMA InitInv == Init => EngineInv
  <1> SUFFICES ASSUME Init PROVE EngineInv
    OBVIOUS
  <1>1. TypeOK
    BY SampleRatesAssumption DEF Init, TypeOK
  <1>2. VoicesApart
    BY DEF Init, VoicesApart, IsActive
  <1> QED  BY <1>1, <1>2 DEF EngineInv

\* The voices after a reset.
LEMMA ResetInv ==
    ASSUME reset, currentSampleRate' \in SampleRates,
           numSamples' \in BlockSizes \union {0}, renderedSamples' = 0,
           numSamples' > 0 => currentSampleRate' > 0
    PROVE  EngineInv'
  <1>1. \A i \in Voices : voices'[i] = Free  BY DEF reset
  <1>2. TypeOK'
    BY BlockSizesAssumption DEF TypeOK, reset
  <1>3. VoicesApart'
    BY <1>1 DEF VoicesApart, IsActive
  <1> QED  BY <1>2, <1>3 DEF EngineInv

\* The voices after others were rendered or triggered, at a later time.
LEMMA PlayingInv ==
    ASSUME Playable(voices', position', nextNoiseSeed'),
           currentSampleRate' = currentSampleRate,
           currentSampleRate \in SampleRates, currentSampleRate > 0,
           nextNoiseSeed' \in Nat \ {0}, blockStart' \in Nat,
           numSamples' \in BlockSizes \union {0}, renderedSamples' \in 0 .. numSamples'
    PROVE  EngineInv'
  <1>1. TypeOK'  BY DEF TypeOK, Playable
  <1>2. VoicesApart'
    BY DEF VoicesApart, IsActive, Playable, LevelOf
  <1> QED  BY <1>1, <1>2 DEF EngineInv

\* The voices rendered up to a pulse.
LEMMA PulseRendered ==
    ASSUME EngineInv, NEW sampleOffset \in Nat, NEW sound \in Sounds,
           PlayPulse(sampleOffset, sound)
    PROVE  /\ currentSampleRate \in Nat /\ currentSampleRate > 0
           /\ sampleOffset - renderedSamples \in Nat /\ sampleOffset \in 0 .. numSamples
           /\ position \in Nat /\ position' \in Nat
           /\ position' = position + (sampleOffset - renderedSamples)
           /\ Playable(Rendered(sampleOffset - renderedSamples), position', nextNoiseSeed)
  <1> DEFINE n == sampleOffset - renderedSamples
  <1>1. /\ numSamples > 0 /\ sampleOffset \in renderedSamples .. numSamples - 1
        /\ renderedSamples' = sampleOffset /\ blockStart' = blockStart
    BY DEF PlayPulse, PulseDue
  <1>2. numSamples \in Nat /\ renderedSamples \in 0 .. numSamples /\ blockStart \in Nat
    BY BlockSizesAssumption DEF EngineInv, TypeOK
  <1>3. n \in Nat /\ sampleOffset \in 0 .. numSamples  BY <1>1, <1>2
  <1>4. position \in Nat /\ position' \in Nat /\ position' = position + n
    BY <1>1, <1>2, <1>3 DEF position
  <1>5. /\ Playable(voices, position, nextNoiseSeed) /\ currentSampleRate \in Nat
        /\ nextNoiseSeed \in Nat
    BY InvPlayable DEF EngineInv, TypeOK
  <1>6. Playable(Rendered(n), position + n, nextNoiseSeed)
    BY <1>3, <1>4, <1>5, RenderedPlayable
  <1>7. currentSampleRate > 0  BY <1>1 DEF EngineInv, VoicesApart
  <1> QED  BY <1>3, <1>4, <1>5, <1>6, <1>7

\* And those rendered to the end of a block.
LEMMA BlockRendered ==
    ASSUME EngineInv, FinishBlock
    PROVE  /\ currentSampleRate \in Nat /\ currentSampleRate > 0
           /\ numSamples - renderedSamples \in Nat
           /\ position \in Nat /\ position' \in Nat
           /\ position' = position + (numSamples - renderedSamples)
           /\ Playable(voices', position', nextNoiseSeed)
  <1> DEFINE n == numSamples - renderedSamples
  <1>1. /\ numSamples > 0 /\ blockStart' = blockStart + numSamples
        /\ renderedSamples' = 0 /\ voices' = Rendered(n)
    BY DEF FinishBlock
  <1>2. numSamples \in Nat /\ renderedSamples \in 0 .. numSamples /\ blockStart \in Nat
    BY BlockSizesAssumption DEF EngineInv, TypeOK
  <1>3. n \in Nat  BY <1>2
  <1>4. position \in Nat /\ position' \in Nat /\ position' = position + n
    BY <1>1, <1>2, <1>3 DEF position
  <1>5. /\ Playable(voices, position, nextNoiseSeed) /\ currentSampleRate \in Nat
        /\ nextNoiseSeed \in Nat
    BY InvPlayable DEF EngineInv, TypeOK
  <1>6. Playable(Rendered(n), position + n, nextNoiseSeed)
    BY <1>3, <1>4, <1>5, RenderedPlayable
  <1>7. currentSampleRate > 0  BY <1>1 DEF EngineInv, VoicesApart
  <1> QED  BY <1>1, <1>3, <1>4, <1>5, <1>6, <1>7

LEMMA StepInv == EngineInv /\ [Next]_vars => EngineInv'
  <1> SUFFICES ASSUME EngineInv, [Next]_vars PROVE EngineInv'
    OBVIOUS
  <1>0. TypeOK  BY DEF EngineInv
  <1>1. ASSUME NEW samples \in BlockSizes, NEW discontinuity \in BOOLEAN,
               BeginBlock(samples, discontinuity)
        PROVE  EngineInv'
    <2>1. /\ numSamples = 0 /\ currentSampleRate > 0 /\ currentSampleRate' = currentSampleRate
          /\ numSamples' = samples /\ renderedSamples' = 0
      BY <1>1 DEF BeginBlock
    <2>2. CASE discontinuity
      <3>1. reset  BY <1>1, <2>2 DEF BeginBlock
      <3> QED  BY <3>1, <2>1, <1>0, ResetInv DEF TypeOK
    <2>3. CASE ~discontinuity
      <3>1. UNCHANGED <<voices, nextNoiseSeed, blockStart>>
        BY <1>1, <2>3 DEF BeginBlock
      <3>2. position' = position
        BY <3>1, <2>1, <1>0 DEF position, TypeOK
      <3>3. Playable(voices', position', nextNoiseSeed')
        BY <3>1, <3>2, <2>1, InvPlayable
      <3> QED
        BY <3>1, <3>3, <2>1, <1>0, PlayingInv, BlockSizesAssumption DEF TypeOK
    <2> QED  BY <2>2, <2>3
  <1>2. ASSUME NEW sound \in Sounds, NEW sampleOffset \in 0 .. numSamples - 1,
               PlayPulse(sampleOffset, sound)
        PROVE  EngineInv'
    <2> DEFINE playing == Rendered(sampleOffset - renderedSamples)
    <2>1. /\ currentSampleRate' = currentSampleRate /\ renderedSamples' = sampleOffset
          /\ numSamples' = numSamples /\ blockStart' = blockStart
          /\ trigger(sound, playing)
      BY <1>2 DEF PlayPulse
    <2>2. sampleOffset \in Nat  BY <1>2
    <2>3. /\ Playable(playing, position', nextNoiseSeed) /\ currentSampleRate > 0
          /\ position' \in Nat /\ currentSampleRate \in Nat /\ sampleOffset \in 0 .. numSamples
      BY <1>2, <2>2, PulseRendered
    <2> HIDE DEF playing
    <2>4. nextNoiseSeed' \in Nat \ {0} /\ Playable(voices', position', nextNoiseSeed')
      <3>1. CASE Triggers(sound)
        <4>1. PICK i \in Voices :
                 voices' = [playing EXCEPT ![i] =
                              [sound |-> sound, rendered |-> 0, seed |-> nextNoiseSeed]]
          BY <2>1, <3>1 DEF trigger
        <4>2. nextNoiseSeed' = nextNoiseSeed + 1  BY <2>1, <3>1 DEF trigger
        <4>3. sound \in Audible  BY <3>1 DEF Triggers
        <4>4. nextNoiseSeed \in Nat \ {0}  BY <1>0 DEF TypeOK
        <4>5. Playable(voices', position', nextNoiseSeed + 1)
          BY <4>1, <4>3, <4>4, <2>3, StruckPlayable
        <4> QED  BY <4>2, <4>4, <4>5
      <3>2. CASE ~Triggers(sound)
        BY <3>2, <2>1, <2>3, <1>0 DEF trigger, TypeOK
      <3> QED  BY <3>1, <3>2
    <2> QED
      BY <2>1, <2>3, <2>4, <1>0, PlayingInv DEF TypeOK
  <1>3. CASE FinishBlock
    <2>1. /\ UNCHANGED <<currentSampleRate, nextNoiseSeed>> /\ numSamples' = 0
          /\ renderedSamples' = 0 /\ blockStart' = blockStart + numSamples
      BY <1>3 DEF FinishBlock
    <2>2. Playable(voices', position', nextNoiseSeed) /\ currentSampleRate > 0
      BY <1>3, BlockRendered
    <2>3. blockStart' \in Nat  BY <2>1, <1>0, BlockSizesAssumption DEF TypeOK
    <2>4. Playable(voices', position', nextNoiseSeed')  BY <2>1, <2>2
    <2> QED  BY <2>1, <2>2, <2>3, <2>4, <1>0, PlayingInv DEF TypeOK
  <1>4. CASE Silence
    BY <1>4, <1>0, ResetInv DEF Silence, TypeOK
  <1>5. ASSUME NEW sampleRate \in SampleRates, prepare(sampleRate)
        PROVE  EngineInv'
    BY <1>5, <1>0, ResetInv DEF prepare, TypeOK
  <1>6. CASE UNCHANGED vars
    BY <1>6 DEF vars, EngineInv, TypeOK, VoicesApart, IsActive, LevelOf, position
  <1> QED  BY <1>1, <1>2, <1>3, <1>4, <1>5, <1>6 DEF Next

\* The voices of the pool never hold one click twice, nor one that has
\* decayed, nor one from before the last reset.
THEOREM EngineInvariant == Spec => []EngineInv
  <1> QED  BY InitInv, StepInv, PTL DEF Spec

\* Type correctness of the engine and of processBlock's loop.
THEOREM EngineTypeCorrect == Spec => []TypeOK
  <1>1. EngineInv => TypeOK  BY DEF EngineInv
  <1> QED  BY EngineInvariant, <1>1, PTL

\* At any sample rate, every click ends within the tail that
\* getTailLengthSeconds announces to the host.
THEOREM TailsBounded == Spec => []TailsEnd
  <1>1. EngineInv => TailsEnd
    <2> SUFFICES ASSUME EngineInv, NEW i \in Voices, IsActive(i)
                 PROVE  voices[i].rendered < TailSamples(currentSampleRate)
      BY DEF TailsEnd
    <2>1. voices[i] \in Clicks  BY DEF EngineInv, TypeOK, IsActive
    <2>2. currentSampleRate \in Nat \ {0}
      BY SampleRatesAssumption DEF EngineInv, TypeOK, VoicesApart
    <2>3. Level(voices[i].sound, voices[i].rendered, currentSampleRate) >= 0
      BY DEF EngineInv, VoicesApart, LevelOf
    <2>4. voices[i].sound \in Audible /\ voices[i].rendered \in Nat
      BY <2>1 DEF Clicks
    <2> QED  BY <2>2, <2>3, <2>4, TailIsLongEnough
  <1> QED  BY EngineInvariant, <1>1, PTL

----------------------------------------------------------------------------
(* The engine implements ClickMix *)

LEMMA SameSounds ==
    /\ Mix!Audible = Audible
    /\ \A s, n, r : Mix!Level(s, n, r) = Level(s, n, r)
  BY DEF Mix!Audible, Audible, Mix!Sounds, Sounds, Mix!parametersFor, parametersFor,
         Mix!tripletParameters, tripletParameters,
         Mix!Level, Level

\* Rendering leaves the clicks that have not decayed, as they were due.
LEMMA SoundingRemains ==
    ASSUME NEW time \in Nat, NEW n \in Nat, NEW seed \in Nat,
           Playable(voices, time, seed)
    PROVE  SoundingOf(Rendered(n), time + n)
              = {click \in SoundingOf(voices, time) :
                    Level(click.sound, (time + n) - click.due, currentSampleRate) >= 0}
  <1> DEFINE p == Rendered(n)
             Stays(i) == Level(voices[i].sound, voices[i].rendered + n, currentSampleRate) >= 0
  <1>1. ASSUME NEW i \in Voices, voices[i] # Free
        PROVE  /\ voices[i].rendered \in Nat
               /\ (time + n) - ClickOf(voices[i], time).due = voices[i].rendered + n
               /\ ClickOf(voices[i], time).sound = voices[i].sound
    BY <1>1 DEF Playable, Clicks, ClickOf
  <1>2. ASSUME NEW i \in Voices
        PROVE  /\ p[i] # Free <=> voices[i] # Free /\ Stays(i)
               /\ p[i] # Free => ClickOf(p[i], time + n) = ClickOf(voices[i], time)
    <2>1. CASE voices[i] # Free /\ Stays(i)
      <3>1. p[i] = [voices[i] EXCEPT !.rendered = @ + n]
        BY <2>1 DEF Rendered, IsActive
      <3>2. voices[i] \in Clicks  BY <2>1 DEF Playable
      <3>3. /\ p[i] \in Clicks /\ p[i].seed = voices[i].seed /\ p[i].sound = voices[i].sound
            /\ p[i].rendered = voices[i].rendered + n
        BY <3>1, <3>2 DEF Clicks
      <3>4. p[i] # Free  BY <3>3, FreeIsNoClick
      <3>5. (time + n) - p[i].rendered = time - voices[i].rendered
        BY <3>2, <3>3 DEF Clicks
      <3> QED  BY <2>1, <3>3, <3>4, <3>5 DEF ClickOf
    <2>2. CASE ~(voices[i] # Free /\ Stays(i))
      BY <2>2 DEF Rendered, IsActive
    <2> QED  BY <2>1, <2>2
  <1>3. \A i \in Voices : voices[i] # Free =>
           (Stays(i) <=> Level(ClickOf(voices[i], time).sound,
                               (time + n) - ClickOf(voices[i], time).due,
                               currentSampleRate) >= 0)
    BY <1>1
  <1> HIDE DEF p, Stays
  <1>4. SoundingOf(p, time + n) = {click \in SoundingOf(voices, time) :
                    Level(click.sound, (time + n) - click.due, currentSampleRate) >= 0}
    BY <1>2, <1>3 DEF SoundingOf
  <1> QED  BY <1>4 DEF p

\* When no voice is free, as many clicks sound as there are voices.
LEMMA AllVoicesSound ==
    ASSUME NEW p, NEW time \in Nat, NEW seed \in Nat, Playable(p, time, seed),
           \A i \in Voices : p[i] # Free
    PROVE  Cardinality(SoundingOf(p, time)) = VoiceCount
  <1> DEFINE f == [i \in Voices |-> ClickOf(p[i], time)]
  <1>1. SoundingOf(p, time) = {ClickOf(p[i], time) : i \in Voices}
    BY DEF SoundingOf
  <1>2. f \in Surjection(Voices, SoundingOf(p, time))
    BY <1>1 DEF Surjection
  <1>3. \A i, j \in Voices : f[i] = f[j] => i = j
    <2> SUFFICES ASSUME NEW i \in Voices, NEW j \in Voices, f[i] = f[j] PROVE i = j
      OBVIOUS
    <2>1. p[i].seed = p[j].seed  BY DEF ClickOf
    <2> QED  BY <2>1 DEF Playable
  <1>4. f \in Bijection(Voices, SoundingOf(p, time))
    BY <1>2, <1>3 DEF Bijection, Injection, IsInjective, Surjection
  <1>5. IsFiniteSet(Voices) /\ Cardinality(Voices) = VoiceCount
    BY VoiceCountAssumption, FS_Interval DEF Voices
  <1> QED  BY <1>4, <1>5, FS_Bijection DEF ExistsBijection

\* What sounds after a voice was given a new click.
LEMMA SoundingStruck ==
    ASSUME NEW p, NEW time \in Nat, NEW seed \in Nat, Playable(p, time, seed),
           NEW i \in Voices, NEW new \in Clicks
    PROVE  SoundingOf([p EXCEPT ![i] = new], time)
              = (IF p[i] = Free THEN SoundingOf(p, time)
                                ELSE SoundingOf(p, time) \ {ClickOf(p[i], time)})
                    \union {ClickOf(new, time)}
  <1> DEFINE q == [p EXCEPT ![i] = new]
  <1>1. q[i] = new /\ \A j \in Voices \ {i} : q[j] = p[j]
    BY DEF Playable
  <1>2. new # Free  BY FreeIsNoClick
  <1>3. \A j, k \in Voices : p[j] # Free /\ ClickOf(p[j], time) = ClickOf(p[k], time) => j = k
    <2> SUFFICES ASSUME NEW j \in Voices, NEW k \in Voices, p[j] # Free,
                        ClickOf(p[j], time) = ClickOf(p[k], time)
                 PROVE  j = k
      OBVIOUS
    <2>1. p[j].seed = p[k].seed  BY DEF ClickOf
    <2> QED  BY <2>1 DEF Playable
  <1> HIDE DEF q
  <1>4. SoundingOf(q, time) = {ClickOf(p[j], time) : j \in {k \in Voices \ {i} : p[k] # Free}}
                                \union {ClickOf(new, time)}
    BY <1>1, <1>2 DEF SoundingOf
  <1>5. {ClickOf(p[j], time) : j \in {k \in Voices \ {i} : p[k] # Free}}
           = IF p[i] = Free THEN SoundingOf(p, time)
             ELSE SoundingOf(p, time) \ {ClickOf(p[i], time)}
    <2>1. CASE p[i] = Free  BY <2>1 DEF SoundingOf
    <2>2. CASE p[i] # Free  BY <2>2, <1>3 DEF SoundingOf
    <2> QED  BY <2>1, <2>2
  <1> QED  BY <1>4, <1>5 DEF q

\* The clicks that remain of the abstract mix are those of the rendered voices.
LEMMA RemainingRendered ==
    ASSUME EngineInv, NEW n \in Nat
    PROVE  Mix!Remaining(position + n) = SoundingOf(Rendered(n), position + n)
  <1>1. /\ Playable(voices, position, nextNoiseSeed) /\ position \in Nat
        /\ nextNoiseSeed \in Nat
    BY InvPlayable DEF EngineInv, TypeOK
  <1>2. Mix!Remaining(position + n)
           = {click \in Sounding :
                 Level(click.sound, (position + n) - click.due, currentSampleRate) >= 0}
    BY SameSounds DEF Mix!Remaining, Mix!LevelAt
  <1> QED  BY <1>1, <1>2, SoundingRemains DEF Sounding

LEMMA InitMix == Init => Mix!MixInit
  <1> SUFFICES ASSUME Init PROVE Mix!MixInit
    OBVIOUS
  <1>1. \A i \in Voices : voices[i] = Free  BY DEF Init
  <1>2. Sounding = {}  BY <1>1 DEF Sounding, SoundingOf
  <1>3. position = 0 /\ currentSampleRate = 0  BY DEF Init, position
  <1> QED  BY <1>2, <1>3 DEF Mix!MixInit

LEMMA ResetSilences ==
    ASSUME reset, renderedSamples' = 0, currentSampleRate' \in SampleRates
    PROVE  Mix!Silence
  <1>1. \A i \in Voices : voices'[i] = Free  BY DEF reset
  <1>2. Sounding' = {}  BY <1>1 DEF Sounding, SoundingOf
  <1>3. position' = 0  BY DEF reset, position
  <1> QED  BY <1>2, <1>3 DEF Mix!Silence

LEMMA PulseMix ==
    ASSUME EngineInv, NEW sampleOffset \in Nat, NEW sound \in Sounds,
           PlayPulse(sampleOffset, sound)
    PROVE  Mix!Elapse \/ Mix!Strike
  <1> DEFINE n == sampleOffset - renderedSamples
             playing == Rendered(n)
             time == position'
  <1>1. /\ currentSampleRate \in Nat /\ n \in Nat /\ position \in Nat /\ time \in Nat
        /\ time = position + n /\ Playable(playing, time, nextNoiseSeed)
    BY PulseRendered
  <1>2. trigger(sound, playing) /\ currentSampleRate' = currentSampleRate
    BY DEF PlayPulse
  <1>3. Mix!Remaining(time) = SoundingOf(playing, time)  BY <1>1, RemainingRendered
  <1>4. nextNoiseSeed \in Nat \ {0}  BY DEF EngineInv, TypeOK
  <1>5. time >= position  BY <1>1
  <1> HIDE DEF playing, n
  <1>6. CASE ~Triggers(sound)
    <2>1. Sounding' = SoundingOf(playing, time)
      BY <1>2, <1>6 DEF trigger, Sounding, SoundingOf, ClickOf
    <2> QED  BY <2>1, <1>1, <1>2, <1>3, <1>5 DEF Mix!Elapse
  <1>7. CASE Triggers(sound)
    <2> DEFINE struck == [sound |-> sound, rendered |-> 0, seed |-> nextNoiseSeed]
               new == ClickOf(struck, time)
    <2>1. PICK i \in Voices : /\ voiceForTrigger(i, playing)
                              /\ voices' = [playing EXCEPT ![i] = struck]
      BY <1>2, <1>7 DEF trigger
    <2>2. struck \in Clicks /\ sound \in Audible
      BY <1>4, <1>7 DEF Clicks, Triggers
    <2>3. new.sound = sound /\ new.due = time /\ new.seed = nextNoiseSeed
      BY <1>1 DEF ClickOf
    <2>4. \A click \in Sounding : click.seed # new.seed
      <3>1. Playable(voices, position, nextNoiseSeed)  BY InvPlayable
      <3>2. \A j \in Voices : voices[j] # Free => voices[j].seed \in Nat /\ voices[j].seed < nextNoiseSeed
        BY <3>1 DEF Playable, Clicks
      <3> QED  BY <3>2, <2>3, <1>4 DEF Sounding, SoundingOf, ClickOf
    <2> HIDE DEF struck, new
    <2>5. Sounding' = SoundingOf([playing EXCEPT ![i] = struck], time)
      BY <2>1 DEF Sounding, SoundingOf, ClickOf
    <2>6. Sounding' = (IF playing[i] = Free THEN Mix!Remaining(time)
                       ELSE Mix!Remaining(time) \ {ClickOf(playing[i], time)}) \union {new}
      BY <2>5, <2>2, <1>1, <1>3, <1>4, SoundingStruck DEF new
    <2>7. new \in Sounding'  BY <2>6
    <2>8. CASE playing[i] = Free
      <3>1. Sounding' = Mix!Remaining(time) \union {new}  BY <2>6, <2>8
      <3> QED
        BY <3>1, <2>2, <2>3, <2>4, <2>7, <1>1, <1>2, <1>5, SameSounds DEF Mix!Strike
    <2>9. CASE playing[i] # Free
      <3>1. FreeVoices(playing) = {}
        BY <2>1, <2>9 DEF voiceForTrigger, IsFirstOf, FreeVoices
      <3>2. \A j \in Voices : playing[j] # Free  BY <3>1 DEF FreeVoices
      <3>3. Cardinality(Mix!Remaining(time)) = VoiceCount
        BY <3>2, <1>1, <1>3, <1>4, AllVoicesSound
      <3>4. Mix!Cardinality(Mix!Remaining(time)) >= VoiceCount
        <4>1. Mix!Cardinality(Mix!Remaining(time)) = Cardinality(Mix!Remaining(time))
          BY Zenon DEF Mix!Cardinality, Cardinality
        <4> QED  BY <4>1, <3>3, VoiceCountAssumption
      <3>5. \A j \in Voices : LevelOf(playing[i]) <= LevelOf(playing[j])
        BY <2>1, <3>1 DEF voiceForTrigger, IsFirstOf, QuietestOf
      <3>6. \A j \in Voices :
               Mix!LevelAt(ClickOf(playing[j], time), time) = LevelOf(playing[j])
        <4> SUFFICES ASSUME NEW j \in Voices
                     PROVE  Mix!LevelAt(ClickOf(playing[j], time), time) = LevelOf(playing[j])
          OBVIOUS
        <4>1. playing[j].rendered \in Nat  BY <3>2, <1>1 DEF Playable, Clicks
        <4>2. time - ClickOf(playing[j], time).due = playing[j].rendered
          BY <4>1, <1>1 DEF ClickOf
        <4>3. ClickOf(playing[j], time).sound = playing[j].sound  BY DEF ClickOf
        <4> QED  BY <4>2, <4>3, SameSounds DEF Mix!LevelAt, LevelOf
      <3>7. Mix!Remaining(time) = {ClickOf(playing[j], time) : j \in Voices}
        BY <1>3, <3>2 DEF SoundingOf
      <3>8. /\ ClickOf(playing[i], time) \in Mix!Remaining(time)
            /\ Mix!IsQuietest(ClickOf(playing[i], time), time)
        BY <3>5, <3>6, <3>7 DEF Mix!IsQuietest
      <3>9. Sounding' = (Mix!Remaining(time) \ {ClickOf(playing[i], time)}) \union {new}
        BY <2>6, <2>9
      <3> QED
        BY <3>4, <3>8, <3>9, <2>2, <2>3, <2>4, <2>7, <1>1, <1>2, <1>5, SameSounds
        DEF Mix!Strike
    <2> QED  BY <2>8, <2>9
  <1> QED  BY <1>6, <1>7

LEMMA StepMix == EngineInv /\ [Next]_vars => [Mix!MixNext]_(Mix!mixVars)
  <1> SUFFICES ASSUME EngineInv, [Next]_vars
               PROVE  Mix!MixNext \/ UNCHANGED Mix!mixVars
    OBVIOUS
  <1>0. TypeOK  BY DEF EngineInv
  <1>1. ASSUME NEW samples \in BlockSizes, NEW discontinuity \in BOOLEAN,
               BeginBlock(samples, discontinuity)
        PROVE  Mix!Silence \/ UNCHANGED Mix!mixVars
    <2>1. /\ numSamples = 0 /\ currentSampleRate' = currentSampleRate
          /\ renderedSamples' = 0
      BY <1>1 DEF BeginBlock
    <2>2. CASE discontinuity
      <3>1. reset  BY <1>1, <2>2 DEF BeginBlock
      <3> QED  BY <3>1, <2>1, <1>0, ResetSilences DEF TypeOK
    <2>3. CASE ~discontinuity
      <3>1. UNCHANGED <<voices, nextNoiseSeed, blockStart>>
        BY <1>1, <2>3 DEF BeginBlock
      <3>2. position' = position
        BY <3>1, <2>1, <1>0 DEF position, TypeOK
      <3>3. Sounding' = Sounding
        BY <3>1, <3>2 DEF Sounding, SoundingOf, ClickOf
      <3> QED  BY <3>2, <3>3, <2>1 DEF Mix!mixVars
    <2> QED  BY <2>2, <2>3
  <1>2. ASSUME NEW sound \in Sounds, NEW sampleOffset \in 0 .. numSamples - 1,
               PlayPulse(sampleOffset, sound)
        PROVE  Mix!Elapse \/ Mix!Strike
    <2>1. sampleOffset \in Nat  BY <1>2
    <2> QED  BY <2>1, <1>2, PulseMix
  <1>3. CASE FinishBlock
    <2>1. currentSampleRate' = currentSampleRate  BY <1>3 DEF FinishBlock
    <2>2. voices' = Rendered(numSamples - renderedSamples)  BY <1>3 DEF FinishBlock
    <2>3. /\ numSamples - renderedSamples \in Nat /\ position \in Nat /\ position' \in Nat
          /\ position' = position + (numSamples - renderedSamples)
      BY <1>3, BlockRendered
    <2>4. Sounding' = SoundingOf(Rendered(numSamples - renderedSamples), position')
      BY <2>2 DEF Sounding, SoundingOf, ClickOf
    <2>5. Sounding' = Mix!Remaining(position')  BY <2>3, <2>4, RemainingRendered
    <2>6. position' >= position  BY <2>3
    <2> QED  BY <2>1, <2>3, <2>5, <2>6 DEF Mix!MixNext, Mix!Elapse
  <1>4. CASE Silence
    BY <1>4, <1>0, ResetSilences DEF Silence, TypeOK, Mix!MixNext
  <1>5. ASSUME NEW sampleRate \in SampleRates, prepare(sampleRate)
        PROVE  Mix!Silence
    BY <1>5, <1>0, ResetSilences DEF prepare, TypeOK
  <1>6. CASE UNCHANGED vars
    BY <1>6 DEF vars, Mix!mixVars, Sounding, SoundingOf, ClickOf, position
  <1> QED  BY <1>1, <1>2, <1>3, <1>4, <1>5, <1>6 DEF Next, Mix!MixNext

\* Voices, blocks and the order of free voices do not show: the engine plays
\* every pulse's click from its sample on until it has decayed, and cuts one
\* off only when all voices are taken, the quietest.
THEOREM EngineImplementsMix == Spec => ImplementsMix
  <1> QED
    BY InitMix, StepMix, EngineInvariant, PTL DEF Spec, ImplementsMix, Mix!MixSpec
=============================================================================
