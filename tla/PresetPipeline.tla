---------------------------- MODULE PresetPipeline ----------------------------
(***************************************************************************)
(* The way of a preset to the sound of a pulse: validatePresetJson scans    *)
(* and parses the text and collects the errors of the document,            *)
(* parsePresetJson builds the runtime model, makeRealtimePresetState       *)
(* converts it to the fixed-size realtime state, clickForBeat and          *)
(* processBlock choose what each pulse of the host sounds like.            *)
(* applyPresetJson publishes the converted state without a look at         *)
(* isValid(): it relies on the stages agreeing on what a preset is.        *)
(*                                                                         *)
(* A document is what the JSON parser returns, reduced to what the stages  *)
(* tell apart: a record of its sections.  Bad stands for what is absent or *)
(* not of the required type, Absent for an optional property that is not   *)
(* there, Empty for a text without characters.  Other texts are reduced to *)
(* the distinctions the validator or the format makes, and the volume is   *)
(* in percent.                                                             *)
(* Which document a text spells is left open.                              *)
(***************************************************************************)
EXTENDS JsonText, SequencesExt

CONSTANTS
    Bad, Absent, Empty,
    Families,           \* sets of the documents that are applied
    MaxInteger,         \* the largest juce::int64
    HostNumerators, HostDenominators   \* of the meters the host plays

ClickTypes   == {"accent", "normal", "high", "low", "wood", "mute"}
Denominators == {2, 4, 8, 16}

\* An identifier of a version: a number, a word, or a number with a leading
\* zero; what is empty or of other characters is none.
Numbers == {"0", "1", "10"}
Words   == {"rc", "0rc"}
Identifiers == Numbers \union Words \union {"01", "empty", "foreign"}

Text   == STRING \union {Bad}
Names  == {"named", "whiteSpace", Empty, Bad}
Number == Int \union {Bad}
Digits == Nat \union {Bad}

Versions  == [core : Seq(Identifiers), prerelease : Seq(Identifiers), build : Seq(Identifiers)]
Timestamps == [punctuated : BOOLEAN, year : Digits, month : Digits, day : Digits,
              hour : Digits, minute : Digits, second : Digits, fraction : STRING,
              zone : STRING, offsetHour : Digits, offsetMinute : Digits]
Times     == Timestamps \union {Absent, Empty, Bad}
Beats     == [beat : Number, click : Text]

\* Whatever values the sections have, as far as the stages look at them.
Documents ==
    [schema        : Text,
     schemaVersion : Versions \union {Bad},
     metadata      : [name : Names, description : Text \union {Absent},
                      category : Text \union {Absent}, author : Text \union {Absent},
                      createdAt : Times, updatedAt : Times,
                      tags : Seq(Text) \union {Absent, Bad}] \union {Bad},
     tempo         : Number,
     meter         : [numerator : Number, denominator : Number,
                      grouping : Seq(Number) \union {Bad}] \union {Bad},
     subdivision   : [mode : Text, partsPerBeat : Number] \union {Bad},
     pattern       : Seq(Beats \union {Bad}) \union {Bad},
     sound         : [soundSet : Names, volume : Number] \union {Bad},
     playback      : Text]

ASSUME PresetAssumption ==
    /\ Bad \notin Int
    /\ \A family \in Families : family \subseteq Documents
    /\ MaxInteger \in Nat /\ MaxArrayElements <= MaxInteger
    /\ HostNumerators \subseteq Int

VARIABLES       \* beside those of the text, in JsonText
    stage,      \* of applyPresetJson
    document,
    errors,     \* the rules that validatePresetJson found violated
    preset,     \* the RuntimePreset
    state,      \* the RealtimePresetState
    pulse       \* the pulse processBlock played last, and its sound

vars == <<stage, textVars, document, errors, preset, state, pulse>>

None == [kind |-> "none"]

----------------------------------------------------------------------------
(* validatePresetJson *)

require(condition, rule) == IF condition THEN {} ELSE {rule}

\* What the scan of the text sees of the document that it spells: the limit on
\* the length of an array is the one that concerns what follows.
validateJsonComplexity(d) ==
    require(/\ d.meter # Bad /\ d.meter.grouping # Bad =>
                  Len(d.meter.grouping) <= MaxArrayElements
            /\ d.pattern # Bad => Len(d.pattern) <= MaxArrayElements
            /\ d.metadata # Bad /\ d.metadata.tags \notin {Absent, Bad} =>
                  Len(d.metadata.tags) <= MaxArrayElements,
            "arrayElements")

\* Of the parts after - and +, where there is such a part.
isSupportedSchemaVersion(version) ==
    /\ Len(version.core) = 3 /\ version.core[1] = "1"
    /\ ToSet(version.core) \subseteq Numbers
    /\ ToSet(version.prerelease) \subseteq Numbers \union Words
    /\ ToSet(version.build) \subseteq Numbers \union Words \union {"01"}

\* A plausible bug: the century is forgotten.
isLeapYearJulian(year) == year % 4 = 0

isLeapYear(year) == year % 4 = 0 /\ (year % 100 # 0 \/ year % 400 = 0)

daysPerMonth == <<31, 28, 31, 30, 31, 30, 31, 31, 30, 31, 30, 31>>

maximumDay(year, month) ==
    IF month = 2 /\ isLeapYear(year) THEN 29 ELSE daysPerMonth[month]

\* A field that is not of digits is Bad; zone says how the text ends.
isValidDateTime(t) ==
    /\ t.punctuated
    /\ Bad \notin {t.year, t.month, t.day, t.hour, t.minute, t.second}
    /\ 1 <= t.month /\ t.month <= 12
    /\ t.hour <= 23 /\ t.minute <= 59 /\ t.second <= 60
    /\ 1 <= t.day /\ t.day <= maximumDay(t.year, t.month)
    /\ t.fraction # "empty"
    /\ \/ t.zone = "Z"
       \/ /\ t.zone \in {"+", "-"} /\ Bad \notin {t.offsetHour, t.offsetMinute}
          /\ t.offsetHour <= 23 /\ t.offsetMinute <= 59

validateOptionalString(value, name) == require(value # Bad, name)

validateOptionalTimestamp(value, name) ==
    require(value # Bad /\ value \notin {Absent, Empty} => isValidDateTime(value), name)
    \union require(value # Bad, name)

\* What is left of a text without the white space around it.
trim(text) == IF text = "whiteSpace" THEN Empty ELSE text

validateMetadata(metadata) ==
    require(trim(metadata.name) \notin {Empty, Bad}, "metadataName")
    \union validateOptionalString(metadata.description, "metadataDescription")
    \union validateOptionalString(metadata.category, "metadataCategory")
    \union validateOptionalString(metadata.author, "metadataAuthor")
    \union validateOptionalTimestamp(metadata.createdAt, "metadataCreatedAt")
    \union validateOptionalTimestamp(metadata.updatedAt, "metadataUpdatedAt")
    \union require(metadata.tags # Bad, "metadataTags")
    \union require(metadata.tags \notin {Absent, Bad} => Bad \notin ToSet(metadata.tags),
                   "tags")

validateTempo(bpm)      == require(bpm # Bad /\ bpm \in 20 .. 300, "tempoBpm")
validatePlayback(mode)  == require(mode \in {"internal", "host"}, "playbackMode")

NoGroups == [sum |-> 0, errors |-> {}]

\* A plausible bug: the sum is computed without a look at its range, and wraps.
AddGroupWrapping(total, group) ==
    IF group = Bad \/ group < 1
    THEN [total EXCEPT !.errors = @ \union {"groupingValues"}]
    ELSE [total EXCEPT !.sum = ((@ + group + MaxInteger + 1) % (2 * MaxInteger + 2))
                                   - MaxInteger - 1]

\* A group that is refused, or would leave the range, is left out of the sum.
AddGroup(total, group) ==
    IF group = Bad \/ group < 1
    THEN [total EXCEPT !.errors = @ \union {"groupingValues"}]
    ELSE IF total.sum > MaxInteger - group
    THEN [total EXCEPT !.errors = @ \union {"groupingRange"}]
    ELSE [total EXCEPT !.sum = @ + group]

TotalsOf(grouping) ==
    LET total[n \in 0 .. Len(grouping)] ==
            IF n = 0 THEN NoGroups ELSE AddGroup(total[n - 1], grouping[n])
    IN  total

\* getInteger leaves the result at 0 when it fails.
IntegerOf(value) == IF value = Bad THEN 0 ELSE value

validateMeter(meter) ==
    LET total == TotalsOf(meter.grouping)[Len(meter.grouping)]
    IN  require(IntegerOf(meter.numerator) >= 1, "meterNumerator")
        \union require(meter.denominator # Bad /\ meter.denominator \in Denominators,
                       "meterDenominator")
        \union IF meter.grouping \in {Bad, <<>>} THEN {"meterGrouping"}
               ELSE total.errors
                    \union require(total.sum = IntegerOf(meter.numerator),
                                   "groupingSum")

validateSubdivision(subdivision) ==
    require(/\ subdivision.partsPerBeat # Bad
            /\ <<subdivision.mode, subdivision.partsPerBeat>>
                   \in {<<"none", 1>>, <<"triplet", 3>>},
            "subdivision")

\* The entries that are objects, and of these the ones with a position.
ObjectsIn(beats) == {i \in DOMAIN beats : beats[i] # Bad}
PlacedIn(beats)  == {i \in ObjectsIn(beats) : beats[i].beat # Bad}

validatePattern(beats, numerator) ==
    LET positions == {beats[i].beat : i \in PlacedIn(beats)}
    IN  require(Len(beats) = numerator, "beatCount")
        \union require(ObjectsIn(beats) = DOMAIN beats, "beatObject")
        \union require(PlacedIn(beats) = ObjectsIn(beats), "beatPosition")
        \union require(positions \subseteq 1 .. numerator, "positionRange")
        \union require(\A i, j \in PlacedIn(beats) : beats[i].beat = beats[j].beat => i = j,
                       "positionRepeated")
        \union require(Cardinality(positions) = numerator, "positionsMissing")
        \union require(\A i \in ObjectsIn(beats) : beats[i].click \in ClickTypes,
                       "clickType")

validateSound(sound) ==
    require(trim(sound.soundSet) \notin {Empty, Bad}, "soundSet")
    \union require(sound.volume # Bad /\ 0 <= sound.volume /\ sound.volume <= 100,
                   "soundVolume")

\* A section that is missing is an error, and is not looked into.
Section(name, section, violations) == IF section = Bad THEN {name} ELSE violations

validateSections(d) ==
    LET numerator == IF d.meter = Bad THEN 0 ELSE IntegerOf(d.meter.numerator)
    IN  require(d.schema = "tempoflow-preset", "schema")
        \union require(d.schemaVersion # Bad /\ isSupportedSchemaVersion(d.schemaVersion),
                       "schemaVersion")
        \union Section("metadata", d.metadata, validateMetadata(d.metadata))
        \union Section("tempo", d.tempo, validateTempo(d.tempo))
        \union Section("meter", d.meter, validateMeter(d.meter))
        \union Section("subdivision", d.subdivision, validateSubdivision(d.subdivision))
        \union Section("pattern", d.pattern, validatePattern(d.pattern, numerator))
        \union Section("sound", d.sound, validateSound(d.sound))
        \union Section("playback", d.playback, validatePlayback(d.playback))

validatePresetJson(d) ==
    IF validateJsonComplexity(d) # {} THEN validateJsonComplexity(d)
    ELSE validateSections(d)

----------------------------------------------------------------------------
(* parsePresetJson, on a document without errors *)

\* std::sort by position.
SortedBeats(beats) ==
    LET order == CHOOSE p \in Injection(DOMAIN beats, DOMAIN beats) :
                    \A i, j \in DOMAIN beats :
                        i < j => beats[p[i]].beat <= beats[p[j]].beat
    IN  [i \in DOMAIN beats |-> beats[order[i]]]

\* A text that is not known leaves the member at its default, unnoticed.
parseEnum(value, values, default) == IF value \in values THEN value ELSE default

RuntimePreset(d) ==
    [schemaVersion |-> d.schemaVersion,
     name          |-> d.metadata.name,
     bpm           |-> d.tempo,
     meter         |-> d.meter,
     subdivision   |-> [d.subdivision EXCEPT
                          !.mode = parseEnum(@, {"none", "triplet"}, "none")],
     beats         |-> SortedBeats([i \in DOMAIN d.pattern |->
                          [d.pattern[i] EXCEPT !.click = parseEnum(@, ClickTypes, "mute")]]),
     sound         |-> d.sound,
     playbackMode  |-> parseEnum(d.playback, {"internal", "host"}, "host")]

----------------------------------------------------------------------------
(* makeRealtimePresetState *)

\* The default-constructed RealtimePresetState, which is returned for a model
\* that cannot be converted.
NotReady == [ready |-> FALSE]

SubdivisionsPerBeat == {<<"none", 1>>, <<"triplet", 3>>}

\* The group that follows starts after this one, if a beat is left for it.
PlaceGroup(beatCount, allSingleton, placed, group) ==
    IF group <= 0 \/ group > beatCount - placed.consumed
    THEN [placed EXCEPT !.fits = FALSE]
    ELSE LET consumed == placed.consumed + group
         IN  [fits |-> placed.fits, consumed |-> consumed,
              starts |-> IF allSingleton \/ consumed = beatCount THEN placed.starts
                         ELSE placed.starts \union {consumed + 1}]

AllSingleton(grouping) == \A i \in DOMAIN grouping : grouping[i] = 1

PlacementsOf(beatCount, grouping) ==
    LET placed[n \in 0 .. Len(grouping)] ==
            IF n = 0 THEN [fits |-> TRUE, consumed |-> 0, starts |-> {1}]
            ELSE PlaceGroup(beatCount, AllSingleton(grouping), placed[n - 1], grouping[n])
    IN  placed

makeRealtimePresetState(p) ==
    LET beatCount == Len(p.beats)
        grouping  == p.meter.grouping
        groups    == PlacementsOf(beatCount, grouping)[Len(grouping)]
    IN  IF /\ beatCount \in 1 .. MaxArrayElements
           /\ p.meter.numerator = beatCount
           /\ p.meter.denominator \in Denominators
           /\ 0 <= p.sound.volume /\ p.sound.volume <= 100
           /\ <<p.subdivision.mode, p.subdivision.partsPerBeat>>
                  \in SubdivisionsPerBeat
           /\ \A i \in 1 .. beatCount : p.beats[i].beat = i
           /\ grouping # <<>> /\ groups.fits /\ groups.consumed = beatCount
        THEN [ready               |-> TRUE,
              clicks              |-> [i \in 1 .. beatCount |-> p.beats[i].click],
              groupStarts         |-> groups.starts,
              meterNumerator      |-> p.meter.numerator,
              meterDenominator    |-> p.meter.denominator,
              subdivisionsPerBeat |-> p.subdivision.partsPerBeat,
              volume              |-> p.sound.volume]
        ELSE NotReady

beatCountOf(s) == Len(s.clicks)

isValid(s) ==
    /\ s.ready
    /\ beatCountOf(s) \in 1 .. MaxArrayElements
    /\ s.meterNumerator = beatCountOf(s)
    /\ s.meterDenominator \in Denominators
    /\ s.subdivisionsPerBeat \in {1, 3}
    /\ 0 <= s.volume /\ s.volume <= 100
    /\ 1 \in s.groupStarts

----------------------------------------------------------------------------
(* clickForBeat, and the sound of a pulse in processBlock *)

\* A plausible bug: the accents of the grouping are kept in a foreign meter.
clickForBeatOfAnyMeter(s, beatNumber, hostNumerator, hostDenominator) ==
    LET beat  == ((beatNumber - 1) % beatCountOf(s)) + 1
        click == s.clicks[beat]
    IN  IF beat \in s.groupStarts /\ click = "normal" THEN "accent" ELSE click

\* Beat numbers beyond the pattern begin it again.
clickForBeat(s, beatNumber, hostNumerator, hostDenominator) ==
    LET beat  == ((beatNumber - 1) % beatCountOf(s)) + 1
        click == s.clicks[beat]
        meterMatches == /\ hostNumerator = s.meterNumerator
                        /\ hostDenominator = s.meterDenominator
    IN  IF meterMatches /\ beat \in s.groupStarts /\ click = "normal"
        THEN "accent" ELSE click

\* Nothing is triggered for a muted beat, nor for its subdivisions.
SoundOf(click, subdivisionIndex) ==
    IF subdivisionIndex > 0 /\ click # "mute" THEN "subdivision" ELSE click

\* A plausible bug: one subdivision too many.
SubdivisionIndicesAndOne(subdivisionsPerBeat) == 0 .. subdivisionsPerBeat

\* The ordinal of a pulse modulo the subdivisions, in BeatScheduler.
SubdivisionIndices(subdivisionsPerBeat) == 0 .. subdivisionsPerBeat - 1

----------------------------------------------------------------------------
(* applyPresetJson, and a host that plays what was published *)

Init ==
    /\ TextInit
    /\ stage = "text" /\ document = None
    /\ errors = {}
    /\ preset = None /\ state = NotReady /\ pulse = None

ScanText ==
    /\ stage = "text"
    /\ TextNext
    /\ UNCHANGED <<stage, document, errors, preset, state, pulse>>

\* The scan refuses the text, or juce::JSON::parse does, or it is no object.
RefuseText ==
    /\ stage = "text"
    /\ \/ outcome = "refused"  /\ errors' = {scan.result}
       \/ outcome = "accepted" /\ ~Complete    /\ errors' = {"invalidJson"}
       \/ outcome = "accepted" /\ Complete /\ ~IsObject /\ errors' = {"root"}
    /\ stage' = "refused"
    /\ UNCHANGED <<textVars, document, preset, state, pulse>>

\* The text is not looked at again: that it is forgotten keeps the state small.
ParseText ==
    /\ stage = "text" /\ outcome = "accepted" /\ Complete /\ IsObject
    /\ stage' = "received"
    /\ scan' = StartOfScan /\ grammar' = StartOfText
    /\ length' = 0 /\ outcome' = "none"
    /\ UNCHANGED <<document, errors, preset, state, pulse>>

ValidatePreset ==
    /\ stage = "received"
    /\ \E family \in Families : document' \in family
    /\ errors' = validatePresetJson(document')
    /\ stage' = IF errors' = {} THEN "validated" ELSE "refused"
    /\ UNCHANGED <<textVars, preset, state, pulse>>

ParsePreset ==
    /\ stage = "validated"
    /\ preset' = RuntimePreset(document)
    /\ stage' = "parsed"
    /\ UNCHANGED <<textVars, document, errors, state, pulse>>

PublishPreset ==
    /\ stage = "parsed"
    /\ state' = makeRealtimePresetState(preset)
    /\ stage' = "published"
    /\ UNCHANGED <<textVars, document, errors, preset, pulse>>

\* A pulse of a bar of the host's meter (a state that is not valid is silent).
PlayPulse ==
    /\ stage = "published" /\ isValid(state)
    /\ \E hostNumerator \in HostNumerators, hostDenominator \in HostDenominators :
       \E beatNumber \in 1 .. hostNumerator,
          subdivisionIndex \in SubdivisionIndices(state.subdivisionsPerBeat) :
          LET click == clickForBeat(state, beatNumber, hostNumerator, hostDenominator)
          IN  pulse' = [kind |-> "pulse", numerator |-> hostNumerator,
                        denominator |-> hostDenominator, beat |-> beatNumber,
                        subdivision |-> subdivisionIndex,
                        sound |-> SoundOf(click, subdivisionIndex)]
    /\ UNCHANGED <<stage, textVars, document, errors, preset, state>>

Next ==
    \/ ScanText \/ RefuseText \/ ParseText
    \/ ValidatePreset \/ ParsePreset \/ PublishPreset \/ PlayPulse

Spec == Init /\ [][Next]_vars
----------------------------------------------------------------------------
(* Properties *)

Accepted == stage \in {"validated", "parsed", "published"}

\* What the Preset Format (section 27) and its schema say of a V1 preset,
\* independently of the order in which the validator finds it out.
SumsOf(groups) ==
    LET sum[n \in 0 .. Len(groups)] == IF n = 0 THEN 0 ELSE sum[n - 1] + groups[n]
    IN  sum
SumOf(groups) == SumsOf(groups)[Len(groups)]

\* The Gregorian calendar, from the number of its leap years.
LeapYearsThrough(year) == year \div 4 - year \div 100 + year \div 400

DaysIn(year, month) ==
    IF month = 2 THEN 28 + LeapYearsThrough(year) - LeapYearsThrough(year - 1)
    ELSE 30 + ((month + month \div 8) % 2)

\* A date-time of RFC 3339, but for the rule that tells when a second is the 60th.
IsDateTime(t) ==
    /\ t.punctuated /\ t.fraction # "empty" /\ t.zone \in {"Z", "+", "-"}
    /\ t.year # Bad /\ t.month # Bad /\ t.day # Bad
    /\ \E month \in 1 .. 12 :
          t.month = month /\ \E day \in 1 .. DaysIn(t.year, month) : t.day = day
    /\ \E hour \in 0 .. 23, minute \in 0 .. 59, second \in 0 .. 60 :
          <<t.hour, t.minute, t.second>> = <<hour, minute, second>>
    /\ t.zone # "Z" =>
          \E hour \in 0 .. 23, minute \in 0 .. 59 :
              <<t.offsetHour, t.offsetMinute>> = <<hour, minute>>

\* The minute in UTC, counted from the start of the local day.
UtcMinute(t) ==
    60 * t.hour + t.minute
        - (CASE t.zone = "Z" -> 0
             [] t.zone = "+" -> 60 * t.offsetHour + t.offsetMinute
             [] t.zone = "-" -> - (60 * t.offsetHour + t.offsetMinute))

\* That rule: a leap second ends a month, at 23:59:60 in UTC, which in another
\* zone may be the first day of the next month, or the last but one of its own.
IsLeapSecond(t) ==
    LET last == DaysIn(t.year, t.month)
    IN  <<UtcMinute(t), t.day>> \in {<<1439, last>>, <<-1, 1>>, <<2879, last - 1>>}

HasText(name) == name \notin {Empty, Bad}

ConformsButForLeapSeconds(d) ==
    /\ d.schema = "tempoflow-preset"
    /\ d.schemaVersion # Bad
    /\ d.schemaVersion.core \in {<<"1", minor, patch>> : minor, patch \in Numbers}
    /\ {"empty", "foreign"} \intersect ToSet(d.schemaVersion.prerelease \o d.schemaVersion.build) = {}
    /\ "01" \notin ToSet(d.schemaVersion.prerelease)
    /\ d.metadata # Bad /\ HasText(d.metadata.name)
    /\ Bad \notin {d.metadata.description, d.metadata.category, d.metadata.author}
    /\ \A t \in {d.metadata.createdAt, d.metadata.updatedAt} :
          t # Bad /\ (t \in {Absent, Empty} \/ IsDateTime(t))
    /\ d.metadata.tags # Bad
    /\ \/ d.metadata.tags = Absent
       \/ /\ Bad \notin ToSet(d.metadata.tags)
          /\ Len(d.metadata.tags) <= MaxArrayElements
    /\ d.tempo # Bad /\ d.tempo \in 20 .. 300
    /\ d.playback # Bad /\ d.playback \in {"internal", "host"}
    /\ d.sound # Bad /\ HasText(d.sound.soundSet)
    /\ d.sound.volume # Bad /\ d.sound.volume \in 0 .. 100
    /\ d.subdivision # Bad
    /\ d.subdivision.partsPerBeat # Bad
    /\ <<d.subdivision.mode, d.subdivision.partsPerBeat>> \in SubdivisionsPerBeat
    /\ d.meter # Bad /\ d.pattern # Bad
    /\ d.meter.numerator # Bad /\ d.meter.denominator # Bad
    /\ d.meter.denominator \in Denominators
    /\ d.meter.grouping # Bad /\ Bad \notin ToSet(d.meter.grouping)
    /\ \A g \in ToSet(d.meter.grouping) : g > 0
    /\ d.meter.numerator > 0
    /\ d.meter.numerator = SumOf(d.meter.grouping)
    /\ d.meter.numerator = Len(d.pattern)
    /\ Len(d.pattern) <= MaxArrayElements
    /\ \A n \in 1 .. d.meter.numerator :
          \E b \in ToSet(d.pattern) \ {Bad} :
              b.beat # Bad /\ b.beat = n /\ b.click \in ClickTypes

\* A name of white space, which the schema lets through.
IsUnnamed(d) == \/ d.metadata # Bad /\ d.metadata.name = "whiteSpace"
                \/ d.sound # Bad /\ d.sound.soundSet = "whiteSpace"

\* What is typed as it should be, and the pulses are of beats the host has.
TypeOK ==
    /\ stage \in {"text", "received", "validated", "refused", "parsed", "published"}
    /\ TextTypeOK
    /\ stage = "refused" <=> errors # {}
    /\ stage = "published" => state = NotReady \/ isValid(state)
    /\ pulse # None => /\ pulse.beat \in 1 .. pulse.numerator
                       /\ pulse.subdivision \in 0 .. 2
                       /\ pulse.sound \in ClickTypes \union {"subdivision"}

\* validatePresetJson tells the presets of the format from other documents,
\* whatever is missing, repeated, out of order or out of range.  Two things are
\* left open here, because the code departs from the format in them: when a
\* second 60 is one, and whether a name of white space is refused (see
\* ReportsFieldsOfTheFormat).
AcceptsTheFormat ==
    /\ Accepted => ConformsButForLeapSeconds(document)
    /\ stage = "refused" /\ document # None =>
          ~ConformsButForLeapSeconds(document) \/ IsUnnamed(document)

\* What the validator accepts can be converted.  applyPresetJson does not look:
\* if the conversion refused, it would keep the document and fall silent.
AcceptedConverts == stage = "published" => isValid(state)

\* The Preset Format, section 40, on the document as it was written.
RoleOf(n) == (CHOOSE b \in ToSet(document.pattern) : b.beat = n).click

StartsGroup(n) ==
    LET grouping == document.meter.grouping
    IN  \/ n = 1
        \/ /\ \E g \in ToSet(grouping) : g # 1
           /\ \E k \in 1 .. Len(grouping) - 1 : n = SumsOf(grouping)[k] + 1

EffectiveRole(n, numerator, denominator) ==
    IF /\ RoleOf(n) = "normal" /\ StartsGroup(n)
       /\ numerator = document.meter.numerator
       /\ denominator = document.meter.denominator
    THEN "accent" ELSE RoleOf(n)

\* Every pulse of a beat that the pattern has sounds as the Preset Format says,
\* in whatever order the document lists its beats: the role of the pattern,
\* accented at an eligible group start of a matching meter and nowhere else,
\* and silence on all the pulses of a muted beat.
PulsesFollowTheFormat ==
    pulse # None /\ pulse.beat <= document.meter.numerator =>
        LET role == EffectiveRole(pulse.beat, pulse.numerator, pulse.denominator)
        IN  pulse.sound = IF role # "mute" /\ pulse.subdivision > 0
                          THEN "subdivision" ELSE role

(* The inductive invariant: what each stage has is what the stages before it *)
(* make of the document, and the pulse is one of the state that was published. *)

StageInv ==
    /\ stage \in {"text", "received"} => document = None
    /\ stage = "refused" => \/ document = None
                            \/ document \in Documents /\ validatePresetJson(document) # {}
    /\ Accepted => document \in Documents /\ validatePresetJson(document) = {}
    /\ stage \in {"parsed", "published"} => preset = RuntimePreset(document)
    /\ stage = "published" => state = makeRealtimePresetState(preset)

IsPulse(p) ==
    \E hostNumerator \in HostNumerators, hostDenominator \in HostDenominators :
    \E beatNumber \in 1 .. hostNumerator,
       subdivisionIndex \in SubdivisionIndices(state.subdivisionsPerBeat) :
        p = [kind |-> "pulse", numerator |-> hostNumerator,
             denominator |-> hostDenominator, beat |-> beatNumber,
             subdivision |-> subdivisionIndex,
             sound |-> SoundOf(clickForBeat(state, beatNumber, hostNumerator, hostDenominator),
                               subdivisionIndex)]

PipelineInv ==
    /\ TextInv
    /\ stage \in {"text", "received", "validated", "refused", "parsed", "published"}
    /\ stage = "refused" <=> errors # {}
    /\ StageInv
    /\ pulse # None => stage = "published" /\ isValid(state) /\ IsPulse(pulse)

\* docs/plugin-state.md: "A host beat outside the loaded preset's pattern range
\* produces silence."  Not so: the code begins the pattern again.
OutsidePatternSilent ==
    pulse # None /\ pulse.beat > document.meter.numerator => pulse.sound = "mute"

\* What the format says of the fields that are texts: tempoflow-preset.schema.json
\* asks for "minLength": 1 of metadata.name and sound.soundSet, and the Preset
\* Format (section 7) for "the RFC 3339 date-time format" in the timestamps.
IsTimestamp(t) ==
    \/ t \in {Absent, Empty}
    \/ t # Bad /\ IsDateTime(t) /\ (t.second = 60 => IsLeapSecond(t))

FieldsAgainstTheFormat(d) ==
    require(HasText(d.metadata.name), "metadataName")
    \union require(HasText(d.sound.soundSet), "soundSet")
    \union require(IsTimestamp(d.metadata.createdAt), "metadataCreatedAt")
    \union require(IsTimestamp(d.metadata.updatedAt), "metadataUpdatedAt")

\* What is reported of these fields is what the format says against them.  Not
\* so: the code trims the names first, and accepts a second 60 at any time.
ReportsFieldsOfTheFormat ==
    document # None /\ document.metadata # Bad /\ document.sound # Bad
    /\ validateJsonComplexity(document) = {} =>
        FieldsAgainstTheFormat(document)
            = errors \intersect {"metadataName", "soundSet",
                                 "metadataCreatedAt", "metadataUpdatedAt"}
============================================================================
