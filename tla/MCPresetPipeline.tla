--------------------------- MODULE MCPresetPipeline ---------------------------
(* Instances of PresetPipeline for TLC. *)
EXTENDS PresetPipeline, FiniteSetsExt

PresetOf(meter, subdivision, pattern) ==
    [schema |-> "tempoflow-preset",
     schemaVersion |-> [core |-> <<"1", "0", "0">>, prerelease |-> <<>>, build |-> <<>>],
     metadata |-> [name |-> "named", description |-> Absent, category |-> Absent,
                   author |-> Absent, createdAt |-> Absent, updatedAt |-> Absent,
                   tags |-> Absent],
     tempo |-> 120, meter |-> meter, subdivision |-> subdivision, pattern |-> pattern,
     sound |-> [soundSet |-> "named", volume |-> 25], playback |-> "host"]

Meter(n, d, grouping) == [numerator |-> n, denominator |-> d, grouping |-> grouping]
Beat(n, click) == [beat |-> n, click |-> click]

Straight == [mode |-> "none", partsPerBeat |-> 1]
Triplets == [mode |-> "triplet", partsPerBeat |-> 3]

\* Every role on every beat of a pattern of three, in every order.
Orders == {order \in [1 .. 3 -> 1 .. 3] : IsInjective(order)}
RoleDocuments(grouping) ==
    {PresetOf(Meter(3, 4, grouping), subdivision,
              [i \in 1 .. 3 |-> Beat(order[i], clicks[order[i]])]) :
        subdivision \in {Straight, Triplets},
        order \in Orders,
        clicks \in [1 .. 3 -> {"normal", "accent", "wood", "mute"}]}

\* Every combination of a numerator, a grouping and up to three beats, right
\* or wrong, with sums beyond the range of the integers.
ShapeDocuments(n) ==
    {PresetOf(Meter(n, 4, grouping), Straight,
              [i \in DOMAIN positions |-> Beat(positions[i], "normal")]) :
        grouping \in BoundedSeq({0, 1, 3, 7, Bad}, 3),
        positions \in BoundedSeq(0 .. 3, 3)}

\* Arrays longer than the limit.
LongDocuments ==
    {PresetOf(Meter(4, 4, grouping), Straight, [i \in 1 .. 4 |-> Beat(i, "normal")]) :
        grouping \in {<<4>>, <<2, 2>>, <<1, 1, 1, 1>>}}

\* One thing wrong at a time, or unusual and right.
Good == PresetOf(Meter(2, 8, <<2>>), Triplets, <<Beat(1, "normal"), Beat(2, "low")>>)
VariedDocuments ==
    {Good} \union {[Good EXCEPT !.schema = "other"], [Good EXCEPT !.metadata = Bad]}
    \union {[Good EXCEPT !.metadata.name = x, !.sound.soundSet = y] : x, y \in Names}
    \union {[Good EXCEPT !.metadata.description = x, !.metadata.author = y,
                         !.metadata.category = z] : x, y, z \in {"text", Bad}}
    \union {[Good EXCEPT !.metadata.tags = x] : x \in BoundedSeq({"tag", Bad}, MaxArrayElements + 1) \union {Bad}}
    \union {[Good EXCEPT !.tempo = x] : x \in {19, 20, 300, 301, Bad}}
    \union {[Good EXCEPT !.sound.volume = x] : x \in {-1, 0, 100, 101, Bad}}
    \union {[Good EXCEPT !.sound = Bad]}
    \union {[Good EXCEPT !.playback = x] : x \in {"internal", "other", Bad}}
    \union {[Good EXCEPT !.meter = Bad], [Good EXCEPT !.pattern = Bad],
            [Good EXCEPT !.subdivision = Bad], [Good EXCEPT !.meter.grouping = Bad]}
    \union {[Good EXCEPT !.meter.denominator = x] : x \in {2, 3, 16, 0, Bad}}
    \union {[Good EXCEPT !.subdivision = [mode |-> m, partsPerBeat |-> parts]] :
               m \in {"none", "triplet", "eighth", Bad}, parts \in {0, 1, 2, 3, Bad}}
    \union {[Good EXCEPT !.pattern[i] = x] : i \in {1, 2},
               x \in {Bad, Beat(1, "high"), Beat(2, "laser"), Beat(1, Bad), Beat(Bad, "low")}}

\* Versions of the schema.
VersionDocuments ==
    {[Good EXCEPT !.schemaVersion = [core |-> core, prerelease |-> prerelease, build |-> build]] :
        core \in {<<"1", "0">>, <<"1", "0", "0", "0">>}
                    \union {<<x, y, "10">> : x \in {"0", "1", "01"}, y \in Identifiers},
        prerelease \in BoundedSeq(Identifiers \ {"1"}, 1) \union {<<"rc", "01">>},
        build \in BoundedSeq(Identifiers \ {"1"}, 1) \union {<<"01", "empty">>}}
    \union {[Good EXCEPT !.schemaVersion = Bad]}

\* Dates of common and leap years and of centuries, and one thing wrong or
\* unusual at a time.
Noon == [punctuated |-> TRUE, year |-> 2024, month |-> 2, day |-> 29, hour |-> 12,
         minute |-> 0, second |-> 0, fraction |-> "none", zone |-> "Z",
         offsetHour |-> 0, offsetMinute |-> 0]
DateTimes ==
    {[Noon EXCEPT !.year = y, !.month = m, !.day = d] :
        y \in {0, 1900, 2000, 2023, 2024}, m \in 0 .. 13, d \in {0, 1} \union 28 .. 32}
    \union {[Noon EXCEPT !.punctuated = FALSE], [Noon EXCEPT !.year = Bad],
            [Noon EXCEPT !.month = Bad], [Noon EXCEPT !.day = Bad]}
    \union {[Noon EXCEPT !.hour = x] : x \in {23, 24, Bad}}
    \union {[Noon EXCEPT !.minute = x] : x \in {59, 60, Bad}}
    \union {[Noon EXCEPT !.second = x] : x \in {60, 61, Bad}}
    \union {[Noon EXCEPT !.fraction = f, !.zone = z, !.offsetHour = h, !.offsetMinute = m] :
               f \in {"none", "digits", "empty"}, z \in {"Z", "+", "missing", "trailing"},
               h \in {23, 24, Bad}, m \in {59, 60, Bad}}
DateDocuments ==
    {[Good EXCEPT !.metadata.createdAt = t] : t \in DateTimes \union {Empty, Bad}}
    \union {[Good EXCEPT !.metadata.updatedAt = t] : t \in {Noon, Empty, Bad}}

\* In families, so that TLC sorts no set of all of them.
RoleFamilies == {RoleDocuments(grouping) : grouping \in {<<3>>, <<1, 2>>, <<2, 1>>, <<1, 1, 1>>}}
MCFamilies == RoleFamilies \union {ShapeDocuments(n) : n \in {-1, 0, 1, 2, 3, Bad}}
              \union {LongDocuments, VariedDocuments, VersionDocuments, DateDocuments}

\* A preset, and one in which the code and the format differ twice.
DepartingFamilies ==
    {{Good, [Good EXCEPT !.metadata.name = "whiteSpace",
                         !.metadata.createdAt = [Noon EXCEPT !.second = 60]]}}
============================================================================
