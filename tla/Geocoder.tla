------------------------------- MODULE Geocoder -------------------------------
(***************************************************************************)
(* services/ingest.py, _lookup_address_geolocation: an address is looked   *)
(* up in the catalogue of INEGI, first its state, then the municipality in *)
(* the state, then the locality in the municipality, by likeness of names. *)
(***************************************************************************)
EXTENDS Naturals, Sequences, FiniteSets

CONSTANTS
    States,      \* the catalogue: a sequence of [name, code]
    Municipalities, Localities,   \* by code of the level above; a locality
                 \* also has a place, NoPlace where the coordinates are no numbers
    Alike        \* pairs of names of which one is part of the other

\* The catalogue lists the entries of each code it gives, if only as <<>>.
ASSUME CatalogueAssumption ==
    /\ States \in Seq([name : STRING, code : STRING])
    /\ \A i \in DOMAIN States :
        /\ States[i].code \in DOMAIN Municipalities
        /\ Municipalities[States[i].code] \in Seq([name : STRING, code : STRING])
        /\ \A j \in DOMAIN Municipalities[States[i].code] :
            LET code == Municipalities[States[i].code][j].code
            IN  /\ code \in DOMAIN Localities
                /\ Localities[code] \in Seq([name : STRING, code : STRING, place : STRING])

NoPlace == "no_place"
NoGeo == [place |-> NoPlace]
Nowhere == [name |-> "", code |-> "", place |-> NoPlace]
Seat == "0001"   \* the code of the seat of a municipality

\* Scores are in hundredths.  An empty name is like nothing.
Score(name, target, alike) ==
    CASE name = target -> 100
      [] name # target /\ {<<name, target>>, <<target, name>>} \cap Alike # {} -> alike
      [] OTHER -> 0

\* The first of the entries with the highest score, 0 if none is like the target.
Best(entries, target, alike) ==
    LET score(i) == Score(entries[i].name, target, alike)
        best == {i \in DOMAIN entries :
                    /\ score(i) > 0
                    /\ \A j \in DOMAIN entries :
                        score(j) < score(i) \/ (score(j) = score(i) /\ i <= j)}
    IN  IF best = {} THEN [score |-> 0, entry |-> Nowhere]
        ELSE LET i == CHOOSE i \in best : TRUE
             IN  [score |-> score(i), entry |-> entries[i]]

\* Without a locality that is alike, the seat, or else the first one.
SeatOf(entries) ==
    LET seats == {i \in DOMAIN entries : entries[i].code = Seat}
    IN  IF seats = {} THEN entries[1]
        ELSE entries[CHOOSE i \in seats : \A j \in seats : i <= j]

\* Confidence in ten-thousandths: 0.40 and the weights 0.15, 0.30 and 0.15.
Confidence(state, municipality, locality) ==
    LET c == 4000 + 15 * state + 30 * municipality + 15 * locality
    IN  IF c > 9800 THEN 9800 ELSE c

\* What the answers to the three requests make of an address.
Geocode(address) ==
    LET state == Best(States, address.state, 80)
        town  == IF state.score = 0 THEN state
                 ELSE Best(Municipalities[state.entry.code], address.municipality, 80)
        found == Localities[town.entry.code]
        named == Best(found, IF address.locality # "" THEN address.locality
                                                      ELSE address.municipality, 70)
        place == IF named.score > 0 THEN named
                 ELSE [score |-> 50, entry |-> SeatOf(found)]
    IN  IF town.score = 0 \/ found = <<>> \/ place.entry.place = NoPlace
        THEN NoGeo
        ELSE [place |-> place.entry.place,
              confidence |-> Confidence(state.score, town.score, place.score)]
===============================================================================
