-------------------------- MODULE Extraction_proofs --------------------------
(* The caches of the extraction for every set of threads, documents and     *)
(* services.  What the services suggest is opaque here.                     *)
EXTENDS Extraction, WellFoundedInduction, TLAPS

\* A record of work has the fields of one; nothing is said of the suggestions.
Whole(w) ==
    w \in [step : {w.step}, doc : {w.doc}, online : {w.online}, parsed : {w.parsed},
           geo : {w.geo}, suggested : {w.suggested}, text : {w.text}, left : {w.left}]

PlaceOf(d) == Geocode(AddressOf(Pdf[d].pairs))

\* What a call holds: a place of its own document, a text if it asks SAT.
WorkOK(w) ==
    /\ Whole(w)
    /\ w.step \in {"locate", "suggest", "attempt"}
    /\ w.step # "attempt" => w.doc \in Docs
    /\ w.parsed["qr_url"] \in QrTexts \cup {Empty}
    /\ w.geo # NoGeo => w.doc \in Docs /\ w.geo = PlaceOf(w.doc)
    /\ w.step = "locate" => AddressOf(Pdf[w.doc].pairs) \in Addresses
    /\ w.step = "attempt" => w.text \in QrTexts

Domains ==
    /\ sess = [t \in Threads |-> sess[t]]
    /\ qrCache \in [QrTexts -> Verdicts \cup {Absent}]
    /\ geoCache = [a \in Addresses |-> geoCache[a]]
    /\ said \in [QrTexts -> SUBSET Verdicts]
    /\ \A t \in Threads : sess[t] = Idle \/ WorkOK(sess[t])

\* The caches hold what a service has said, or a failure.
Told(q, verdict) ==
    /\ verdict \in {"true", "false"} => verdict \in said[q]
    /\ verdict = Null => q \in failed

CachesOK ==
    /\ \A q \in QrTexts : Told(q, qrCache[q])
    /\ \A a \in Addresses : geoCache[a] \in {Unlocated, NoGeo, Geocode(a)}

IInv == Domains /\ CachesOK /\ LookupsAreGrounded

---------------------------------------------------------------------------
(* Data.                                                                   *)

LEMMA Words ==
    /\ Empty # Null /\ Absent \notin Verdicts /\ NotAsked \notin Verdicts
    /\ Unlocated # NoGeo /\ Empty \notin QrTexts
BY FieldsAssumption, PdfAssumption
   DEF Empty, Null, Absent, Verdicts, NotAsked, Unlocated, NoGeo, NoPlace

\* The address of a document is in its pairs of label and value.
LEMMA AddressInPairs ==
    ASSUME NEW d \in Docs, NEW parsed
    PROVE  AddressOf(CrmOf(d, parsed)) = AddressOf(Pdf[d].pairs)
<1>1. {"municipality", "state", "locality"} \subseteq Fields
  BY PdfAssumption
<1>2. {"municipality", "state", "locality"} \cap Main = {}
  BY DEF Main, Parsed
<1>3. \A f \in {"municipality", "state", "locality"} : CrmOf(d, parsed)[f] = Pdf[d].pairs[f]
  BY <1>1, <1>2 DEF CrmOf, Crm
<1> QED BY <1>3 DEF AddressOf

LEMMA ParsedQr ==
    ASSUME NEW d \in Docs, NEW reply \in GroqReads \cup {Nobody}
    PROVE  ParsedFields(Pdf[d].read, reply)["qr_url"] \in QrTexts \cup {Empty}
<1>1. "qr_url" \in Main
  BY PdfAssumption DEF Main, Parsed
<1>2. Pdf[d].read["qr_url"] \in QrTexts \cup {Empty}
  BY PdfAssumption
<1>3. reply["qr_url"] \in QrTexts \cup {Empty}
  BY <1>1, PdfAssumption DEF Nobody
<1> QED BY <1>1, <1>2, <1>3 DEF ParsedFields, Or, Default

LEMMA AnswerIsVerdict ==
    ASSUME NEW head \in Statuses, NEW get \in Statuses
    PROVE  Answer(head, get) \in {"true", "false"}
BY DEF Answer

LEMMA Answers405 ==
    ASSUME NEW get \in Statuses PROVE Answer(405, get) \in {"true", "false"}
BY DEF Answer

---------------------------------------------------------------------------
(* The end of a call.                                                      *)

LEMMA FinishedGrounded ==
    ASSUME NEW t \in Threads, NEW w, NEW verdict,
           w.geo # NoGeo => w.doc \in Docs /\ w.geo = PlaceOf(w.doc),
           Finished(t, w, verdict),
           verdict \in {"true", "false"} => verdict \in said'[w.text],
           verdict = Null /\ w.text # Empty => w.text \in failed'
    PROVE  LookupsAreGrounded'
<1>1. /\ result'.doc = w.doc /\ result'.parsed = w.parsed /\ result'.geo = w.geo
      /\ result'.text = w.text /\ result'.online = verdict
  BY DEF Finished
<1>2. result'.geo # NoGeo => result'.geo = Geocode(AddressOf(CrmOf(result'.doc, result'.parsed)))
  BY <1>1, AddressInPairs DEF PlaceOf
<1> QED BY <1>1, <1>2 DEF LookupsAreGrounded

\* validate_qr_status: it ends, with what the cache holds, or begins to ask.
LEMMA ChecksQrKeeps ==
    ASSUME IInv, NEW t \in Threads, NEW w, WorkOK(w), w.text \in QrTexts \cup {Empty},
           ChecksQr(t, w), UNCHANGED <<qrCache, geoCache, said, failed>>
    PROVE  IInv'
<1> USE DEF IInv
<1>1. CASE \E verdict : Finished(t, w, verdict)
                        /\ (verdict \in {"true", "false"} => verdict \in said[w.text])
                        /\ (verdict = Null /\ w.text # Empty => w.text \in failed)
  <2> PICK verdict : /\ Finished(t, w, verdict)
                     /\ verdict \in {"true", "false"} => verdict \in said[w.text]
                     /\ verdict = Null /\ w.text # Empty => w.text \in failed
    BY <1>1
  <2>1. LookupsAreGrounded'
    BY FinishedGrounded DEF WorkOK
  <2>2. sess' = [sess EXCEPT ![t] = Idle]
    BY DEF Finished
  <2>3. \A u \in Threads : sess'[u] = IF u = t THEN Idle ELSE sess[u]
    BY <2>2 DEF Domains
  <2>4. Domains'
    BY <2>2, <2>3 DEF Domains, WorkOK, Whole
  <2> QED BY <2>1, <2>4 DEF CachesOK, Told
<1>2. CASE /\ w.text # Empty /\ ~Remembered(w.text)
           /\ sess' = [sess EXCEPT ![t] = [w EXCEPT !.step = "attempt", !.left = Retries]]
           /\ UNCHANGED result
  <2> DEFINE v == [w EXCEPT !.step = "attempt", !.left = Retries]
  <2>1. /\ v.step = "attempt" /\ v.text = w.text /\ v.parsed = w.parsed /\ v.geo = w.geo
        /\ v.doc = w.doc /\ Whole(v)
    BY DEF WorkOK, Whole
  <2>2. WorkOK(v)
    BY <1>2, <2>1 DEF WorkOK
  <2>3. \A u \in Threads : sess'[u] = IF u = t THEN v ELSE sess[u]
    BY <1>2 DEF Domains
  <2>4. Domains'
    <3>1. sess' = [u \in Threads |-> sess'[u]]
      BY <1>2 DEF Domains
    <3>2. \A u \in Threads : sess'[u] = Idle \/ WorkOK(sess'[u])
      BY <2>2, <2>3 DEF Domains
    <3> QED BY <3>1, <3>2 DEF Domains, WorkOK, Whole
  <2> QED BY <1>2, <2>4 DEF CachesOK, Told, LookupsAreGrounded
<1> QED
  <2>1. CASE ~w.online
    <3>1. Finished(t, w, NotAsked)
      BY <2>1 DEF ChecksQr
    <3> QED BY <1>1, <3>1, Words DEF Verdicts
  <2>2. CASE w.online /\ w.text = Empty
    <3>1. Finished(t, w, Null)
      BY <2>2 DEF ChecksQr
    <3> QED BY <1>1, <2>2, <3>1 DEF Null
  <2>3. CASE w.online /\ w.text # Empty /\ Remembered(w.text)
    <3>1. Finished(t, w, qrCache[w.text])
      BY <2>3 DEF ChecksQr
    <3>2. Told(w.text, qrCache[w.text])
      BY <2>3 DEF CachesOK
    <3> QED BY <1>1, <3>1, <3>2 DEF Told
  <2>4. CASE w.online /\ w.text # Empty /\ ~Remembered(w.text)
    BY <1>2, <2>4 DEF ChecksQr
  <2> QED BY <2>1, <2>2, <2>3, <2>4

---------------------------------------------------------------------------
(* The actions.                                                            *)

LEMMA InitIInv == Init => IInv
<1> SUFFICES ASSUME Init PROVE IInv
  OBVIOUS
<1>1. Domains
  BY DEF Init, Domains, NoVerdicts
<1>2. CachesOK
  BY Words DEF Init, CachesOK, Told, NoVerdicts, Verdicts, Absent, Null
<1>3. LookupsAreGrounded
  BY DEF Init, LookupsAreGrounded
<1> QED BY <1>1, <1>2, <1>3 DEF IInv

\* A verdict, or the failure, ends the check and is remembered.
LEMMA StoresKeeps ==
    ASSUME IInv, NEW t \in Threads, Attempting(t), NEW verdict \in Verdicts,
           Stores(t, verdict),
           said' \in [QrTexts -> SUBSET Verdicts],
           \A q \in QrTexts : said[q] \subseteq said'[q],
           failed \subseteq failed',
           verdict \in {"true", "false"} => verdict \in said'[sess[t].text],
           verdict = Null => sess[t].text \in failed'
    PROVE  IInv'
<1> USE DEF IInv
<1> DEFINE w == sess[t]
<1>1. /\ WorkOK(w) /\ w.text \in QrTexts
  BY DEF Domains, Attempting, WorkOK
<1>2. /\ qrCache' = [qrCache EXCEPT ![w.text] = verdict]
      /\ Finished(t, w, verdict)
      /\ UNCHANGED <<geoCache>>
      /\ sess' = [sess EXCEPT ![t] = Idle]
  BY DEF Stores, Finished
<1>3. LookupsAreGrounded'
  <2> PICK x : x = sess[t]
    OBVIOUS
  <2>1. /\ Finished(t, x, verdict)
        /\ x.geo # NoGeo => x.doc \in Docs /\ x.geo = PlaceOf(x.doc)
    BY <1>1, <1>2 DEF WorkOK
  <2>2. /\ verdict \in {"true", "false"} => verdict \in said'[x.text]
        /\ verdict = Null => x.text \in failed'
    OBVIOUS
  <2> QED BY <2>1, <2>2, FinishedGrounded
<1>4. \A u \in Threads : sess'[u] = IF u = t THEN Idle ELSE sess[u]
  BY <1>2 DEF Domains
<1>5. Domains'
  <2>1. sess' = [u \in Threads |-> sess'[u]]
    BY <1>2 DEF Domains
  <2>2. qrCache' \in [QrTexts -> Verdicts \cup {Absent}]
    BY <1>2 DEF Domains
  <2>3. \A u \in Threads : sess'[u] = Idle \/ WorkOK(sess'[u])
    BY <1>4 DEF Domains
  <2>4. geoCache' = [a \in Addresses |-> geoCache'[a]]
    BY <1>2 DEF Domains
  <2> QED BY <2>1, <2>2, <2>3, <2>4 DEF Domains, WorkOK, Whole
<1>6. CachesOK'
  <2>1. ASSUME NEW q \in QrTexts PROVE Told(q, qrCache[q])'
    <3>1. CASE q = w.text
      <4>1. qrCache'[q] = verdict
        BY <1>1, <1>2, <3>1 DEF Domains
      <4> QED BY <3>1, <4>1 DEF Told
    <3>2. CASE q # w.text
      <4>1. qrCache'[q] = qrCache[q]
        BY <1>2, <3>2 DEF Domains
      <4> QED BY <4>1 DEF CachesOK, Told
    <3> QED BY <3>1, <3>2
  <2> QED BY <1>2, <2>1 DEF CachesOK
<1> QED BY <1>3, <1>5, <1>6

LEMMA AnsweredKeeps == ASSUME IInv, NEW t \in Threads, Answered(t) PROVE IInv'
<1>1. PICK verdict \in Answers :
        /\ said' = [said EXCEPT ![sess[t].text] = @ \cup {verdict}]
        /\ Stores(t, verdict)
  BY DEF Answered
<1>2. verdict \in {"true", "false"}
  BY AnswerIsVerdict DEF Answers
<1>3. Attempting(t) /\ UNCHANGED failed
  BY DEF Answered
<1>4. sess[t].text \in QrTexts
  BY <1>3 DEF IInv, Domains, WorkOK, Attempting
<1>5. /\ said' \in [QrTexts -> SUBSET Verdicts]
      /\ \A q \in QrTexts : said[q] \subseteq said'[q]
      /\ verdict \in said'[sess[t].text]
  BY <1>1, <1>2, <1>4 DEF IInv, Domains, Verdicts
<1> QED BY <1>1, <1>2, <1>3, <1>5, StoresKeeps DEF Verdicts, Null

LEMMA AttemptFailsKeeps == ASSUME IInv, NEW t \in Threads, AttemptFails(t) PROVE IInv'
<1>1. /\ Attempting(t) /\ failed' = failed \cup {sess[t].text} /\ UNCHANGED said
  BY DEF AttemptFails
<1>2. CASE sess[t].left > 1
  <2> DEFINE w == sess[t]
             v == [w EXCEPT !.left = @ - 1]
  <2>1. sess' = [sess EXCEPT ![t] = v] /\ UNCHANGED <<result, qrCache, geoCache>>
    BY <1>2 DEF AttemptFails
  <2>2. WorkOK(w)
    BY <1>1 DEF IInv, Domains, Attempting
  <2>3. /\ v.step = w.step /\ v.text = w.text /\ v.parsed = w.parsed /\ v.geo = w.geo
        /\ v.doc = w.doc /\ Whole(v)
    BY <2>2 DEF WorkOK, Whole
  <2>4. WorkOK(v)
    BY <2>2, <2>3 DEF WorkOK
  <2>5. \A u \in Threads : sess'[u] = IF u = t THEN v ELSE sess[u]
    BY <2>1 DEF IInv, Domains
  <2>6. Domains'
    <3>1. sess' = [u \in Threads |-> sess'[u]]
      BY <2>1 DEF IInv, Domains
    <3>2. \A u \in Threads : sess'[u] = Idle \/ WorkOK(sess'[u])
      BY <2>4, <2>5 DEF IInv, Domains
    <3> QED BY <1>1, <2>1, <3>1, <3>2 DEF IInv, Domains, WorkOK, Whole
  <2>7. CachesOK' /\ LookupsAreGrounded'
    BY <1>1, <2>1 DEF IInv, CachesOK, Told, LookupsAreGrounded
  <2> QED BY <2>6, <2>7 DEF IInv
<1>3. CASE ~(sess[t].left > 1)
  <2>1. Stores(t, Null) /\ sess[t].text \in failed' /\ failed \subseteq failed'
    BY <1>1, <1>3 DEF AttemptFails, Undecided
  <2>2. Null \in Verdicts /\ Null \notin {"true", "false"}
    BY DEF Null, Verdicts
  <2>3. said' \in [QrTexts -> SUBSET Verdicts] /\ \A q \in QrTexts : said[q] \subseteq said'[q]
    BY <1>1 DEF IInv, Domains
  <2> QED BY <1>1, <2>1, <2>2, <2>3, StoresKeeps
<1> QED BY <1>2, <1>3

LEMMA LegacyAttemptKeeps == ASSUME IInv, NEW t \in Threads, LegacyAttempt(t) PROVE IInv'
<1>1. Attempting(t)
  BY DEF LegacyAttempt
<1>2. sess[t].text \in QrTexts
  BY <1>1 DEF IInv, Domains, WorkOK, Attempting
<1>3. CASE \E verdict \in {Answer(405, get) : get \in Statuses} :
            /\ said' = [said EXCEPT ![sess[t].text] = @ \cup {verdict}]
            /\ Stores(t, verdict)
            /\ UNCHANGED failed
  <2>1. PICK verdict \in {Answer(405, get) : get \in Statuses} :
            /\ said' = [said EXCEPT ![sess[t].text] = @ \cup {verdict}]
            /\ Stores(t, verdict)
            /\ UNCHANGED failed
    BY <1>3
  <2>2. verdict \in {"true", "false"}
    BY Answers405
  <2>3. /\ said' \in [QrTexts -> SUBSET Verdicts]
        /\ \A q \in QrTexts : said[q] \subseteq said'[q]
        /\ verdict \in said'[sess[t].text]
    BY <1>2, <2>1, <2>2 DEF IInv, Domains, Verdicts
  <2> QED BY <1>1, <2>1, <2>2, <2>3, StoresKeeps DEF Verdicts, Null
<1>4. CASE /\ failed' = failed \cup {sess[t].text} /\ Stores(t, Null) /\ UNCHANGED said
  <2>1. sess[t].text \in failed' /\ failed \subseteq failed'
    BY <1>4
  <2>2. Null \in Verdicts /\ Null \notin {"true", "false"}
    BY DEF Null, Verdicts
  <2>3. said' \in [QrTexts -> SUBSET Verdicts] /\ \A q \in QrTexts : said[q] \subseteq said'[q]
    BY <1>4 DEF IInv, Domains
  <2> QED BY <1>1, <1>4, <2>1, <2>2, <2>3, StoresKeeps
<1> QED BY <1>3, <1>4 DEF LegacyAttempt, Undecided

---------------------------------------------------------------------------

LEMMA RefuseKeeps == ASSUME IInv, NEW t \in Threads, NEW d \in Docs, Refuse(t, d) PROVE IInv'
<1>1. LookupsAreGrounded'
  BY DEF Refuse, LookupsAreGrounded
<1> QED BY <1>1 DEF Refuse, IInv, Domains, CachesOK, Told, WorkOK, Whole

\* A call that does not ask SAT yet takes its place.
LEMMA TakesPlace ==
    ASSUME IInv, NEW t \in Threads, NEW w, WorkOK(w), w.step # "attempt",
           sess' = [sess EXCEPT ![t] = w],
           UNCHANGED <<result, qrCache, said, failed>>,
           geoCache' = [a \in Addresses |-> geoCache'[a]],
           \A a \in Addresses : geoCache'[a] \in {Unlocated, NoGeo, Geocode(a)}
    PROVE  IInv'
<1>1. \A u \in Threads : sess'[u] = IF u = t THEN w ELSE sess[u]
  BY DEF IInv, Domains
<1>2. Domains'
  <2>1. sess' = [u \in Threads |-> sess'[u]]
    BY DEF IInv, Domains
  <2>2. \A u \in Threads : sess'[u] = Idle \/ WorkOK(sess'[u])
    BY <1>1 DEF IInv, Domains
  <2> QED BY <2>1, <2>2 DEF IInv, Domains, WorkOK, Whole
<1>3. CachesOK' /\ LookupsAreGrounded'
  BY DEF IInv, CachesOK, Told, LookupsAreGrounded
<1> QED BY <1>2, <1>3 DEF IInv

LEMMA ProcessKeeps == ASSUME IInv, NEW t \in Threads, NEW d \in Docs, Process(t, d) PROVE IInv'
<1>1. PICK reply \in GroqReads \cup {Nobody}, online \in BOOLEAN :
        LET parsed  == ParsedFields(Pdf[d].read, reply)
            address == AddressOf(CrmOf(d, parsed))
            known   == address = NoAddress \/ geoCache[address] # Unlocated
        IN  sess' = [sess EXCEPT ![t] =
                [step |-> IF known THEN "suggest" ELSE "locate",
                 doc |-> d, online |-> online, parsed |-> parsed,
                 geo |-> IF address # NoAddress /\ known THEN geoCache[address] ELSE NoGeo,
                 suggested |-> NoAdvice, text |-> Empty, left |-> 0]]
  BY DEF Process
<1> DEFINE parsed  == ParsedFields(Pdf[d].read, reply)
           address == AddressOf(Pdf[d].pairs)
           known   == address = NoAddress \/ geoCache[address] # Unlocated
           geo     == IF address # NoAddress /\ known THEN geoCache[address] ELSE NoGeo
           w == [step |-> IF known THEN "suggest" ELSE "locate",
                 doc |-> d, online |-> online, parsed |-> parsed, geo |-> geo,
                 suggested |-> NoAdvice, text |-> Empty, left |-> 0]
<1>2. AddressOf(CrmOf(d, parsed)) = address
  BY AddressInPairs
<1>3. sess' = [sess EXCEPT ![t] = w]
  <2> HIDE DEF parsed, address
  <2> QED BY <1>1, <1>2 DEF parsed
<1>4. parsed["qr_url"] \in QrTexts \cup {Empty}
  BY ParsedQr
<1>5. address \in Addresses \cup {NoAddress}
  BY PdfAssumption
<1>6. geo # NoGeo => geo = Geocode(address)
  <2> HIDE DEF address
  <2> QED BY <1>5 DEF IInv, CachesOK
<1>7. WorkOK(w)
  <2> HIDE DEF parsed, address, geo
  <2>1. w.step = "locate" => address \in Addresses
    BY <1>5
  <2>2. Whole(w)
    BY DEF Whole
  <2> QED BY <1>4, <1>6, <2>1, <2>2 DEF WorkOK, PlaceOf, address
<1>8. w.step # "attempt"
  OBVIOUS
<1>9. UNCHANGED <<result, qrCache, geoCache, said, failed>>
  BY DEF Process
<1> HIDE DEF w
<1> PICK x : x = w
  OBVIOUS
<1> QED BY <1>3, <1>7, <1>8, <1>9, TakesPlace DEF IInv, Domains, CachesOK

LEMMA LocateKeeps == ASSUME IInv, NEW t \in Threads, Locate(t) PROVE IInv'
<1> DEFINE w == sess[t]
           address == AddressOf(Pdf[w.doc].pairs)
<1>1. WorkOK(w) /\ w.step = "locate" /\ w.doc \in Docs /\ address \in Addresses
  BY DEF IInv, Domains, Locate, WorkOK
<1>2. AddressOf(CrmOf(w.doc, w.parsed)) = address
  BY <1>1, AddressInPairs
<1>3. PICK geo \in {Geocode(address), NoGeo} :
        /\ geoCache' = [geoCache EXCEPT ![address] = geo]
        /\ sess' = [sess EXCEPT ![t].geo = geo, ![t].step = "suggest"]
  BY <1>2 DEF Locate
<1> DEFINE v == [w EXCEPT !.geo = geo, !.step = "suggest"]
<1>4. /\ v.step = "suggest" /\ v.text = w.text /\ v.parsed = w.parsed /\ v.geo = geo
      /\ v.doc = w.doc /\ Whole(v)
  BY <1>1 DEF WorkOK, Whole
<1>5. sess' = [sess EXCEPT ![t] = v]
  BY <1>3 DEF IInv, Domains
<1>6. WorkOK(v)
  BY <1>1, <1>3, <1>4 DEF WorkOK, PlaceOf
<1>7. /\ geoCache' = [a \in Addresses |-> geoCache'[a]]
      /\ \A a \in Addresses : geoCache'[a] \in {Unlocated, NoGeo, Geocode(a)}
  BY <1>1, <1>3 DEF IInv, Domains, CachesOK
<1>8. UNCHANGED <<result, qrCache, said, failed>>
  BY DEF Locate
<1>9. v.step # "attempt"
  BY <1>4
<1> HIDE DEF v
<1> QED BY <1>5, <1>6, <1>7, <1>8, <1>9, TakesPlace

LEMMA SuggestKeeps == ASSUME IInv, NEW t \in Threads, Suggest(t) PROVE IInv'
<1> DEFINE w == sess[t]
<1>1. WorkOK(w) /\ w.step = "suggest" /\ w.doc \in Docs
  BY DEF IInv, Domains, Suggest, WorkOK
<1>2. PICK suggested \in Advice :
        ChecksQr(t, [w EXCEPT !.suggested = suggested,
                              !.text = Or(w.parsed["qr_url"], Pdf[w.doc].image)])
  BY DEF Suggest
<1> DEFINE v == [w EXCEPT !.suggested = suggested,
                          !.text = Or(w.parsed["qr_url"], Pdf[w.doc].image)]
<1>3. /\ v.step = "suggest" /\ v.parsed = w.parsed /\ v.geo = w.geo /\ v.doc = w.doc
      /\ v.text = Or(w.parsed["qr_url"], Pdf[w.doc].image) /\ Whole(v)
  BY <1>1 DEF WorkOK, Whole
<1>4. v.text \in QrTexts \cup {Empty}
  <2>1. Pdf[w.doc].image \in QrTexts \cup {Empty}
    BY <1>1, PdfAssumption
  <2> QED BY <1>1, <1>3, <2>1 DEF WorkOK, Or
<1>5. WorkOK(v)
  BY <1>1, <1>3 DEF WorkOK
<1>6. UNCHANGED <<qrCache, geoCache, said, failed>>
  BY DEF Suggest
<1>7. ChecksQr(t, v)
  BY <1>2
<1> HIDE DEF v
<1> QED BY <1>4, <1>5, <1>6, <1>7, ChecksQrKeeps

LEMMA RevalidateKeeps ==
    ASSUME IInv, NEW t \in Threads, NEW q \in QrTexts, Revalidate(t, q) PROVE IInv'
<1>1. PICK online \in BOOLEAN :
        ChecksQr(t, [step |-> "attempt", doc |-> NoDoc, online |-> online,
                     parsed |-> Nobody, geo |-> NoGeo, suggested |-> NoAdvice,
                     text |-> q, left |-> 0])
  BY DEF Revalidate
<1> DEFINE v == [step |-> "attempt", doc |-> NoDoc, online |-> online, parsed |-> Nobody,
                 geo |-> NoGeo, suggested |-> NoAdvice, text |-> q, left |-> 0]
<1>2. "qr_url" \in Main
  BY PdfAssumption DEF Main, Parsed
<1>3. Nobody["qr_url"] = Empty
  BY <1>2 DEF Nobody
<1>4. WorkOK(v) /\ v.text \in QrTexts
  BY <1>3 DEF WorkOK, Whole
<1>5. ChecksQr(t, v)
  BY <1>1
<1>6. UNCHANGED <<qrCache, geoCache, said, failed>>
  BY DEF Revalidate
<1> HIDE DEF v
<1> QED BY <1>4, <1>5, <1>6, ChecksQrKeeps

LEMMA StopKeeps == ASSUME IInv, Stop PROVE IInv'
<1>1. Domains'
  BY DEF Stop, Domains, NoVerdicts
<1>2. CachesOK'
  BY Words DEF Stop, CachesOK, Told, NoVerdicts, Verdicts, Absent, Null
<1>3. LookupsAreGrounded'
  BY DEF Stop, LookupsAreGrounded
<1> QED BY <1>1, <1>2, <1>3 DEF IInv

THEOREM IInvHolds == Spec => []IInv
<1>1. IInv /\ [Next]_vars => IInv'
  <2> SUFFICES ASSUME IInv, [Next]_vars PROVE IInv'
    OBVIOUS
  <2>1. CASE UNCHANGED vars
    BY <2>1 DEF vars, IInv, Domains, CachesOK, Told, WorkOK, Whole,
                LookupsAreGrounded
  <2>2. ASSUME NEW t \in Threads, NEW d \in Docs, Refuse(t, d) \/ Process(t, d) PROVE IInv'
    BY <2>2, RefuseKeeps, ProcessKeeps
  <2>3. ASSUME NEW t \in Threads, NEW q \in QrTexts, Revalidate(t, q) PROVE IInv'
    BY <2>3, RevalidateKeeps
  <2>4. ASSUME NEW t \in Threads, Locate(t) \/ Suggest(t) PROVE IInv'
    BY <2>4, LocateKeeps, SuggestKeeps
  <2>5. ASSUME NEW t \in Threads, Answered(t) \/ AttemptFails(t) \/ LegacyAttempt(t) PROVE IInv'
    BY <2>5, AnsweredKeeps, AttemptFailsKeeps, LegacyAttemptKeeps
  <2>6. CASE Stop
    BY <2>6, StopKeeps
  <2> QED BY <2>1, <2>2, <2>3, <2>4, <2>5, <2>6 DEF Next
<1> QED BY InitIInv, <1>1, PTL DEF Spec

(***************************************************************************)
(* For any number of threads that look into the caches and write to them   *)
(* with calls in between, what a call tells of a QR text or an address     *)
(* comes from the services, for this text or address.                      *)
(***************************************************************************)
THEOREM LookupsAreGroundedThm == Spec => []LookupsAreGrounded
<1>1. IInv => LookupsAreGrounded
  BY DEF IInv
<1> QED BY <1>1, IInvHolds, PTL

---------------------------------------------------------------------------
(* What the suggestions are made of.                                       *)

\* Induction over the naturals: a set of them has a least element.
LEMMA LeastNatural ==
    ASSUME NEW T, T \subseteq Nat, T # {}
    PROVE  \E n \in T : \A m \in T : n <= m
<1> DEFINE R == OpToRel(<, Nat)
<1>1. IsWellFoundedOn(R, Nat)
  BY NatLessThanWellFounded
<1>2. \A x \in Nat, y \in Nat : <<y, x>> \in R <=> y < x
  BY DEF OpToRel
<1> HIDE DEF R
<1>3. PICK x \in T : \A y \in T : ~(<<y, x>> \in R)
  BY <1>1, WFMin, Zenon
<1>4. ASSUME NEW y \in T PROVE x <= y
  <2>1. ~(<<y, x>> \in R)
    BY <1>3
  <2>2. x \in Nat /\ y \in Nat
    OBVIOUS
  <2>3. ~(y < x)
    BY <1>2, <2>1, <2>2, Zenon
  <2> QED BY <2>2, <2>3
<1> QED BY <1>4

\* The least upper bound of places in a list is one of them.
LEMMA MaxOfPlaces ==
    ASSUME NEW n \in Nat, NEW S, S \subseteq 1..n, S # {}
    PROVE  Max(S) \in S /\ \A k \in S : k <= Max(S)
<1> DEFINE Above == {m \in 0..n : \A k \in S : k <= m}
<1>1. n \in Above /\ Above \subseteq Nat
  OBVIOUS
<1>2. PICK m \in Above : \A j \in Above : m <= j
  BY <1>1, LeastNatural
<1>3. m \in S
  <2> SUFFICES ASSUME m \notin S PROVE FALSE
    OBVIOUS
  <2>1. m \in 0..n /\ \A k \in S : k \in 1..n /\ k <= m /\ k # m
    OBVIOUS
  <2>2. m > 0
    <3>1. PICK k \in S : TRUE
      OBVIOUS
    <3> QED BY <2>1, <3>1
  <2>3. m - 1 \in 0..n /\ \A k \in S : k <= m - 1
    BY <2>1, <2>2
  <2> QED BY <1>2, <2>1, <2>3
<1>4. \E x \in S : \A y \in S : x >= y
  BY <1>3
<1> QED BY <1>4 DEF Max

\* Whichever service they come from, the places are those of a list and a value
\* that is suggested is a text: a null was left out or became None.
LEMMA AdviceElements ==
    ASSUME NEW a \in Advice \cup {NoAdvice}
    PROVE  \E n \in Nat : /\ DOMAIN a \subseteq 1..n
                          /\ \A i \in DOMAIN a : a[i].value \in Texts
<1>0. CASE a = NoAdvice
  BY <1>0 DEF NoAdvice
<1>1. CASE a \in Advice
  <2>1. PICK openai \in AiReplies \cup {<<>>}, groq \in AiReplies \cup {<<>>} :
            a = Suggestions(openai, groq)
    BY <1>1 DEF Advice
  <2>2. openai \in Seq(AiReply) /\ groq \in Seq(AiReply)
    <3>1. <<>> \in Seq(AiReply)
      OBVIOUS
    <3> QED BY <3>1, ServicesAssumption
  <2>3. CASE a = OpenAiOutput(openai)
    <3>1. /\ DOMAIN a \subseteq DOMAIN openai
          /\ \A i \in DOMAIN a : a[i] = openai[i] /\ Suggestion(openai[i])
      BY <2>3 DEF OpenAiOutput
    <3>2. \A i \in DOMAIN openai : openai[i] \in AiReply
      BY <2>2
    <3>3. \A i \in DOMAIN a : a[i].value \in Texts
      BY <3>1, <3>2 DEF AiReply, Suggestion
    <3>4. Len(openai) \in Nat /\ DOMAIN openai = 1..Len(openai)
      BY <2>2
    <3> QED BY <3>1, <3>3, <3>4
  <2>4. CASE a = GroqOutput(groq)
    <3>1. /\ DOMAIN a = DOMAIN groq
          /\ \A i \in DOMAIN a :
                a[i] = [groq[i] EXCEPT !.value = IF @ = Null THEN "None" ELSE @]
      BY <2>4 DEF GroqOutput
    <3>2. \A i \in DOMAIN groq : groq[i] \in AiReply
      BY <2>2
    <3>3. ASSUME NEW i \in DOMAIN a PROVE a[i].value \in Texts
      <4>1. groq[i] \in AiReply
        BY <3>1, <3>2
      <4>2. a[i].value = IF groq[i].value = Null THEN "None" ELSE groq[i].value
        BY <3>1, <4>1 DEF AiReply
      <4> QED BY <4>1, <4>2, FieldsAssumption DEF AiReply, Texts
    <3>4. Len(groq) \in Nat /\ DOMAIN groq = 1..Len(groq)
      BY <2>2
    <3> QED BY <3>1, <3>3, <3>4
  <2>5. CASE a = NoAdvice
    BY <1>0, <2>5
  <2>6. a = OpenAiOutput(openai) \/ a = GroqOutput(groq) \/ a = NoAdvice
    BY <2>1 DEF Suggestions
  <2> QED BY <2>3, <2>4, <2>5, <2>6
<1> QED BY <1>0, <1>1 DEF Advice

LEMMA ChosenText ==
    ASSUME NEW a \in Advice \cup {NoAdvice}, NEW S, S \subseteq DOMAIN a, S # {}
    PROVE  a[Max(S)].value \in Texts
<1>1. PICK n \in Nat : /\ DOMAIN a \subseteq 1..n
                       /\ \A i \in DOMAIN a : a[i].value \in Texts
  BY AdviceElements
<1>2. Max(S) \in S
  BY <1>1, MaxOfPlaces
<1> QED BY <1>1, <1>2

\* The corrected record has a text for every field.
LEMMA CorrectedType ==
    ASSUME NEW a \in Advice \cup {NoAdvice}, NEW crm \in [Fields -> Texts]
    PROVE  Corrected(crm, a) \in [Fields -> Texts]
<1>1. ASSUME NEW f \in Fields, Adopted(f, a) # {}
      PROVE  a[Max(Adopted(f, a))].value \in Texts
  <2>1. Adopted(f, a) \subseteq DOMAIN a
    BY DEF Adopted, About
  <2> QED BY <1>1, <2>1, ChosenText
<1> QED BY <1>1 DEF Corrected

LEMMA ReportType ==
    ASSUME NEW a \in Advice \cup {NoAdvice}, NEW crm \in [Fields -> Texts]
    PROVE  Report(crm, a) \in [Fields -> FieldReport]
<1> SUFFICES ASSUME NEW f \in Fields PROVE Report(crm, a)[f] \in FieldReport
  BY DEF Report
<1> DEFINE r == Report(crm, a)[f]
<1>1. r.ok \in BOOLEAN /\ r.ok = IsOk(f, crm[f], a)
  BY DEF Report, IsOk
<1>2. r.suggested \in Texts
  <2>1. CASE About(f, a) = {}
    BY <2>1 DEF Report, Texts
  <2>2. CASE About(f, a) # {}
    <3>1. About(f, a) \subseteq DOMAIN a
      BY DEF About
    <3> QED BY <2>2, <3>1, ChosenText DEF Report
  <2> QED BY <2>1, <2>2
<1>3. r.reason \in {"ok", "faltante", "formato_invalido", "requiere_correccion"}
  BY DEF Report
<1>4. r = [ok |-> r.ok, reason |-> r.reason, suggested |-> r.suggested]
  BY DEF Report
<1> HIDE DEF r
<1>5. r \in FieldReport
  BY <1>1, <1>2, <1>3, <1>4 DEF FieldReport
<1> QED BY <1>5 DEF r

LEMMA CrmType ==
    ASSUME NEW d, NEW parsed \in [Main -> Texts] PROVE CrmOf(d, parsed) \in [Fields -> Texts]
<1>1. CASE d \notin Docs
  BY <1>1 DEF CrmOf, Texts
<1>2. CASE d \in Docs
  <2>1. Pdf[d].pairs \in [Fields -> Texts]
    BY <1>2, PdfAssumption
  <2> QED BY <1>2, <2>1 DEF CrmOf, Crm, Or, Main
<1> QED BY <1>1, <1>2

\* Where nothing was read, the RFC and the name have a text that says so.
LEMMA ParsedType ==
    ASSUME NEW d \in Docs, NEW reply \in GroqReads \cup {Nobody}
    PROVE  LET parsed == ParsedFields(Pdf[d].read, reply)
           IN  parsed \in [Main -> Texts] /\ \A f \in Main \cap Critical : parsed[f] # Empty
<1>1. Pdf[d].read \in [Main -> Texts] /\ reply \in [Main -> Texts]
  BY PdfAssumption DEF Nobody, Texts
<1>2. Unread \in Texts /\ Unnamed \in Texts /\ Empty \in Texts /\ Unread # Empty /\ Unnamed # Empty
  BY FieldsAssumption DEF Texts
<1>3. \A f : Default(f) \in Texts
  BY <1>2 DEF Default
<1>4. \A f \in Critical : Default(f) # Empty
  BY <1>2 DEF Default, Critical
<1> QED BY <1>1, <1>3, <1>4 DEF ParsedFields, Or

---------------------------------------------------------------------------
(* Types, and the report.                                                  *)

\* A call for a document holds what was read of it and checks its QR text.
Attached(w) ==
    w.doc \in Docs =>
        /\ \A f \in Main \cap Critical : w.parsed[f] # Empty
        /\ w.step = "attempt" => w.text = Or(w.parsed["qr_url"], Pdf[w.doc].image)

Attachments == \A t \in Threads : sess[t] = Idle \/ Attached(sess[t])

TInv == TypeOK /\ Attachments /\ ReportTellsCorrections

\* What the report calls right nobody has suggested to correct.
LEMMA ReportTells ==
    ASSUME NEW d \in Docs, NEW parsed \in [Main -> Texts], NEW a, NEW text,
           text = Or(parsed["qr_url"], Pdf[d].image)
    PROVE  LET crm == CrmOf(d, parsed)
           IN  /\ \A f \in Fields : Report(crm, a)[f].ok =>
                        crm[f] \in Valid[f] /\ Corrected(crm, a)[f] = crm[f]
               /\ Report(crm, a)["qr_url"].ok => Corrected(crm, a)["qr_url"] = text
<1> DEFINE crm == CrmOf(d, parsed)
<1>1. ASSUME NEW f \in Fields, Report(crm, a)[f].ok
      PROVE  crm[f] \in Valid[f] /\ Corrected(crm, a)[f] = crm[f]
  <2>1. IsOk(f, crm[f], a)
    BY <1>1 DEF Report
  <2>2. crm[f] \in Valid[f] /\ About(f, a) = {}
    BY <2>1 DEF IsOk
  <2>3. Adopted(f, a) = {}
    BY <2>2 DEF Adopted
  <2> QED BY <2>2, <2>3 DEF Corrected
<1>2. "qr_url" \in Fields /\ "qr_url" \in Main \ FromPairs
  BY PdfAssumption DEF Main, Parsed, FromPairs
<1>3. crm["qr_url"] = parsed["qr_url"]
  BY <1>2 DEF CrmOf, Crm
<1>4. Empty \notin Valid["qr_url"]
  BY <1>2, FieldsAssumption
<1>5. crm["qr_url"] \in Valid["qr_url"] => text = crm["qr_url"]
  BY <1>3, <1>4 DEF Or
<1> HIDE DEF crm
<1>6. \A f \in Fields : Report(crm, a)[f].ok =>
            crm[f] \in Valid[f] /\ Corrected(crm, a)[f] = crm[f]
  BY <1>1
<1> QED BY <1>2, <1>5, <1>6 DEF crm

\* The result of a call that ends.
LEMMA FinishedType ==
    ASSUME NEW t, NEW w \in Work, Attached(w), NEW verdict \in Verdicts \cup {NotAsked},
           w.doc \in Docs => w.text = Or(w.parsed["qr_url"], Pdf[w.doc].image),
           Finished(t, w, verdict)
    PROVE  /\ result' \in Result
           /\ result'.doc \in Docs => \A f \in Main \cap Critical : result'.parsed[f] # Empty
           /\ ReportTellsCorrections'
<1> DEFINE crm == CrmOf(w.doc, w.parsed)
<1>1. result' = [doc |-> w.doc, parsed |-> w.parsed, geo |-> w.geo,
                 corrected |-> Corrected(crm, w.suggested), report |-> Report(crm, w.suggested),
                 text |-> w.text, valid |-> Format(w.text), online |-> verdict]
  BY DEF Finished
<1>2. /\ w.doc \in Docs \cup {NoDoc} /\ w.parsed \in [Main -> Texts] /\ w.geo \in Geos
      /\ w.suggested \in Advice \cup {NoAdvice} /\ w.text \in QrTexts \cup {Empty}
  BY DEF Work
<1>3. crm \in [Fields -> Texts]
  BY <1>2, CrmType
<1>4. Corrected(crm, w.suggested) \in [Fields -> Texts]
  <2> HIDE DEF crm
  <2> QED BY <1>2, <1>3, CorrectedType
<1>5. Report(crm, w.suggested) \in [Fields -> FieldReport]
  <2> HIDE DEF crm
  <2> QED BY <1>2, <1>3, ReportType
<1>6. Format(w.text) \in Verdicts
  BY DEF Format, Verdicts
<1>7. result' \in Result
  <2> HIDE DEF crm
  <2> QED BY <1>1, <1>2, <1>4, <1>5, <1>6 DEF Result
<1>8. w.doc \in Docs => \A f \in Main \cap Critical : w.parsed[f] # Empty
  BY DEF Attached
<1>9. ReportTellsCorrections'
  <2> SUFFICES ASSUME w.doc \in Docs
               PROVE  LET c == CrmOf(result'.doc, result'.parsed)
                      IN  /\ \A f \in Fields : result'.report[f].ok =>
                                c[f] \in Valid[f] /\ result'.corrected[f] = c[f]
                          /\ result'.report["qr_url"].ok => result'.corrected["qr_url"] = result'.text
    BY <1>1 DEF ReportTellsCorrections
  <2>1. /\ \A f \in Fields : Report(crm, w.suggested)[f].ok =>
                crm[f] \in Valid[f] /\ Corrected(crm, w.suggested)[f] = crm[f]
        /\ Report(crm, w.suggested)["qr_url"].ok => Corrected(crm, w.suggested)["qr_url"] = w.text
    BY <1>2, ReportTells
  <2>2. /\ CrmOf(result'.doc, result'.parsed) = crm
        /\ result'.report = Report(crm, w.suggested)
        /\ result'.corrected = Corrected(crm, w.suggested) /\ result'.text = w.text
    BY <1>1
  <2> HIDE DEF crm
  <2> QED BY <2>1, <2>2
<1>10. result'.doc = w.doc /\ result'.parsed = w.parsed
  BY <1>1
<1> QED BY <1>7, <1>8, <1>9, <1>10

LEMMA ChecksQrTypes ==
    ASSUME TInv, NEW t \in Threads, NEW w \in Work, Attached(w),
           w.doc \in Docs => w.text = Or(w.parsed["qr_url"], Pdf[w.doc].image),
           ChecksQr(t, w), UNCHANGED <<qrCache, geoCache, said, failed>>, calls' \in 0..MaxCalls
    PROVE  TInv'
<1> USE DEF TInv
<1>1. CASE \E verdict \in Verdicts \cup {NotAsked} : Finished(t, w, verdict)
  <2>1. PICK verdict \in Verdicts \cup {NotAsked} : Finished(t, w, verdict)
    BY <1>1
  <2>2. /\ result' \in Result
        /\ result'.doc \in Docs => \A f \in Main \cap Critical : result'.parsed[f] # Empty
        /\ ReportTellsCorrections'
    BY <2>1, FinishedType
  <2>3. sess' = [sess EXCEPT ![t] = Idle]
    BY <2>1 DEF Finished
  <2>4. TypeOK'
    BY <2>1, <2>2, <2>3 DEF TypeOK
  <2>5. Attachments'
    BY <2>3 DEF Attachments, Attached, TypeOK
  <2> QED BY <2>2, <2>4, <2>5
<1>2. CASE /\ w.text # Empty
           /\ sess' = [sess EXCEPT ![t] = [w EXCEPT !.step = "attempt", !.left = Retries]]
           /\ UNCHANGED result
  <2> DEFINE v == [w EXCEPT !.step = "attempt", !.left = Retries]
  <2>1. v \in Work
    <3>1. Retries \in 0..Retries
      BY ServicesAssumption
    <3> QED BY <3>1 DEF Work
  <2>2. Attached(v)
    BY DEF Attached, Work
  <2>3. w.text \in QrTexts
    BY <1>2 DEF Work
  <2> HIDE DEF v
  <2>4. sess' = [sess EXCEPT ![t] = v]
    BY <1>2 DEF v
  <2>5. TypeOK'
    BY <1>2, <2>1, <2>3, <2>4 DEF TypeOK
  <2>6. Attachments'
    BY <2>2, <2>4 DEF Attachments, Attached, TypeOK
  <2> QED BY <1>2, <2>5, <2>6 DEF ReportTellsCorrections
<1> QED
  <2>1. CASE ~w.online
    BY <1>1, <2>1 DEF ChecksQr
  <2>2. CASE w.online /\ w.text = Empty
    <3>1. Null \in Verdicts
      BY DEF Verdicts
    <3> QED BY <1>1, <2>2, <3>1 DEF ChecksQr
  <2>3. CASE w.online /\ w.text # Empty /\ Remembered(w.text)
    <3>1. qrCache[w.text] \in Verdicts
      BY <2>3 DEF Work, TypeOK, Remembered
    <3> QED BY <1>1, <2>3, <3>1 DEF ChecksQr
  <2>4. CASE w.online /\ w.text # Empty /\ ~Remembered(w.text)
    BY <1>2, <2>4 DEF ChecksQr
  <2> QED BY <2>1, <2>2, <2>3, <2>4

\* A verdict, or that there is none, ends the check of a session.
LEMMA StoresTypes ==
    ASSUME TInv, IInv, NEW t \in Threads, Attempting(t), NEW verdict \in Verdicts,
           Stores(t, verdict), said' \in [QrTexts -> SUBSET Verdicts], failed' \subseteq QrTexts
    PROVE  TInv'
<1> USE DEF TInv
<1> PICK w : w = sess[t]
  OBVIOUS
<1>1. w \in Work /\ Attached(w) /\ w.step = "attempt"
  BY DEF TypeOK, Attempting, Attachments
<1>2. w.text \in QrTexts
  BY <1>1 DEF IInv, Domains, WorkOK, Attempting
<1>3. /\ Finished(t, w, verdict) /\ sess' = [sess EXCEPT ![t] = Idle]
      /\ qrCache' = [qrCache EXCEPT ![w.text] = verdict]
      /\ UNCHANGED <<geoCache, calls>>
  BY DEF Stores, Finished
<1>4. /\ result' \in Result
      /\ result'.doc \in Docs => \A f \in Main \cap Critical : result'.parsed[f] # Empty
      /\ ReportTellsCorrections'
  BY <1>1, <1>3, FinishedType DEF Attached
<1>5. TypeOK'
  BY <1>2, <1>3, <1>4 DEF TypeOK
<1>6. Attachments'
  BY <1>3 DEF Attachments, Attached, TypeOK
<1> QED BY <1>4, <1>5, <1>6

LEMMA ChecksTypes ==
    ASSUME TInv, IInv, NEW t \in Threads, Answered(t) \/ AttemptFails(t) \/ LegacyAttempt(t)
    PROVE  TInv'
<1> USE DEF TInv
<1>1. Attempting(t) /\ sess[t] \in Work /\ sess[t].text \in QrTexts
  BY DEF Answered, AttemptFails, LegacyAttempt, Attempting, IInv, Domains, WorkOK, TypeOK
<1>2. CASE \E verdict \in {"true", "false"} :
            /\ said' = [said EXCEPT ![sess[t].text] = @ \cup {verdict}]
            /\ Stores(t, verdict) /\ UNCHANGED failed
  <2>1. PICK verdict \in {"true", "false"} :
            /\ said' = [said EXCEPT ![sess[t].text] = @ \cup {verdict}]
            /\ Stores(t, verdict) /\ UNCHANGED failed
    BY <1>2
  <2>2. verdict \in Verdicts /\ said' \in [QrTexts -> SUBSET Verdicts] /\ failed' \subseteq QrTexts
    BY <1>1, <2>1 DEF TypeOK, Verdicts
  <2> QED BY <1>1, <2>1, <2>2, StoresTypes
<1>3. CASE failed' = failed \cup {sess[t].text} /\ Stores(t, Null) /\ UNCHANGED said
  <2>1. Null \in Verdicts /\ said' \in [QrTexts -> SUBSET Verdicts] /\ failed' \subseteq QrTexts
    BY <1>1, <1>3 DEF TypeOK, Verdicts
  <2> QED BY <1>1, <1>3, <2>1, StoresTypes
<1>4. CASE /\ failed' = failed \cup {sess[t].text} /\ sess[t].left > 1
           /\ sess' = [sess EXCEPT ![t].left = @ - 1]
           /\ UNCHANGED <<result, qrCache, geoCache, calls, said>>
  <2> DEFINE v == [sess[t] EXCEPT !.left = @ - 1]
  <2>1. sess[t].left - 1 \in 0..Retries
    BY <1>1, <1>4, ServicesAssumption DEF Work
  <2>2. v \in Work
    BY <1>1, <2>1 DEF Work
  <2>3. Attached(sess[t])
    BY <1>1 DEF Attachments, Attempting
  <2>4. Attached(v)
    BY <1>1, <2>3 DEF Attached, Work
  <2> HIDE DEF v
  <2>5. sess' = [sess EXCEPT ![t] = v]
    BY <1>4 DEF v
  <2>6. TypeOK'
    BY <1>1, <1>4, <2>2, <2>5 DEF TypeOK
  <2>7. Attachments'
    BY <2>4, <2>5 DEF Attachments, Attached, TypeOK
  <2> QED BY <1>4, <2>6, <2>7 DEF ReportTellsCorrections
<1> QED
  <2>1. CASE Answered(t)
    <3>1. Answers \subseteq {"true", "false"}
      BY AnswerIsVerdict DEF Answers
    <3> QED BY <1>2, <2>1, <3>1 DEF Answered
  <2>2. CASE LegacyAttempt(t)
    BY <1>2, <1>3, <2>2, Answers405 DEF LegacyAttempt, Undecided
  <2>3. CASE AttemptFails(t)
    BY <1>3, <1>4, <2>3 DEF AttemptFails, Undecided
  <2> QED BY <2>1, <2>2, <2>3

\* A call that does not end takes its place.
LEMMA PlaceTypes ==
    ASSUME TInv, NEW t \in Threads, NEW w \in Work, Attached(w),
           sess' = [sess EXCEPT ![t] = w], calls' \in 0..MaxCalls,
           geoCache' \in [Addresses -> Geos \cup {Unlocated}],
           UNCHANGED <<result, qrCache, said, failed>>
    PROVE  TInv'
<1>1. TypeOK'
  BY DEF TInv, TypeOK
<1>2. Attachments'
  BY DEF TInv, Attachments, Attached, TypeOK
<1> QED BY <1>1, <1>2 DEF TInv, ReportTellsCorrections

LEMMA ProcessTypes ==
    ASSUME TInv, NEW t \in Threads, NEW d \in Docs, Process(t, d) PROVE TInv'
<1>1. PICK reply \in GroqReads \cup {Nobody}, online \in BOOLEAN :
        LET parsed  == ParsedFields(Pdf[d].read, reply)
            address == AddressOf(CrmOf(d, parsed))
            known   == address = NoAddress \/ geoCache[address] # Unlocated
        IN  sess' = [sess EXCEPT ![t] =
                [step |-> IF known THEN "suggest" ELSE "locate",
                 doc |-> d, online |-> online, parsed |-> parsed,
                 geo |-> IF address # NoAddress /\ known THEN geoCache[address] ELSE NoGeo,
                 suggested |-> NoAdvice, text |-> Empty, left |-> 0]]
  BY DEF Process
<1> DEFINE parsed  == ParsedFields(Pdf[d].read, reply)
           address == AddressOf(CrmOf(d, parsed))
           known   == address = NoAddress \/ geoCache[address] # Unlocated
           geo     == IF address # NoAddress /\ known THEN geoCache[address] ELSE NoGeo
           w == [step |-> IF known THEN "suggest" ELSE "locate",
                 doc |-> d, online |-> online, parsed |-> parsed, geo |-> geo,
                 suggested |-> NoAdvice, text |-> Empty, left |-> 0]
<1>2. sess' = [sess EXCEPT ![t] = w]
  BY <1>1
<1>3. parsed \in [Main -> Texts] /\ \A f \in Main \cap Critical : parsed[f] # Empty
  BY ParsedType
<1>4. address \in Addresses \cup {NoAddress}
  <2>1. address = AddressOf(Pdf[d].pairs)
    BY AddressInPairs
  <2> QED BY <2>1, PdfAssumption
<1>5. geo \in Geos
  <2> HIDE DEF address
  <2> QED BY <1>4 DEF TInv, TypeOK, Geos
<1>6. w \in Work /\ Attached(w)
  <2> HIDE DEF parsed, geo, known
  <2>1. 0 \in 0..Retries
    BY ServicesAssumption
  <2> QED BY <1>3, <1>5, <2>1 DEF Work, Attached
<1>7. /\ calls' \in 0..MaxCalls /\ geoCache' \in [Addresses -> Geos \cup {Unlocated}]
      /\ UNCHANGED <<result, qrCache, said, failed>>
  BY ServicesAssumption DEF Process, Begins, TInv, TypeOK
<1> HIDE DEF w
<1> QED BY <1>2, <1>6, <1>7, PlaceTypes

LEMMA LocateTypes == ASSUME TInv, IInv, NEW t \in Threads, Locate(t) PROVE TInv'
<1> DEFINE w == sess[t]
           address == AddressOf(CrmOf(w.doc, w.parsed))
<1>1. w \in Work /\ Attached(w) /\ w.doc \in Docs /\ address \in Addresses
  <2>1. WorkOK(w) /\ w.step = "locate" /\ w \in Work /\ Attached(w)
    BY DEF IInv, Domains, Locate, TInv, TypeOK, Attachments
  <2>2. w.doc \in Docs
    BY <2>1 DEF WorkOK
  <2>3. address = AddressOf(Pdf[w.doc].pairs)
    BY <2>2, AddressInPairs
  <2> QED BY <2>1, <2>2, <2>3 DEF WorkOK
<1>2. PICK geo \in {Geocode(address), NoGeo} :
        /\ geoCache' = [geoCache EXCEPT ![address] = geo]
        /\ sess' = [sess EXCEPT ![t].geo = geo, ![t].step = "suggest"]
  BY DEF Locate
<1>3. geo \in Geos
  <2> HIDE DEF address
  <2> QED BY <1>1 DEF Geos
<1> DEFINE v == [w EXCEPT !.geo = geo, !.step = "suggest"]
<1>4. v \in Work
  BY <1>1, <1>3 DEF Work
<1>5. Attached(v)
  BY <1>1 DEF Attached, Work
<1>6. sess' = [sess EXCEPT ![t] = v]
  BY <1>2 DEF TInv, TypeOK
<1>7. geoCache' \in [Addresses -> Geos \cup {Unlocated}]
  <2> HIDE DEF address
  <2> QED BY <1>1, <1>2, <1>3 DEF TInv, TypeOK
<1>8. calls' \in 0..MaxCalls /\ UNCHANGED <<result, qrCache, said, failed>>
  BY DEF Locate, TInv, TypeOK
<1> HIDE DEF v
<1> QED BY <1>4, <1>5, <1>6, <1>7, <1>8, PlaceTypes

LEMMA SuggestTypes == ASSUME TInv, IInv, NEW t \in Threads, Suggest(t) PROVE TInv'
<1> DEFINE w == sess[t]
<1>1. w \in Work /\ Attached(w) /\ w.doc \in Docs /\ w.step = "suggest"
      /\ w.parsed["qr_url"] \in QrTexts \cup {Empty}
  BY DEF IInv, Domains, WorkOK, Suggest, TInv, TypeOK, Attachments
<1>2. PICK suggested \in Advice :
        ChecksQr(t, [w EXCEPT !.suggested = suggested,
                              !.text = Or(w.parsed["qr_url"], Pdf[w.doc].image)])
  BY DEF Suggest
<1> DEFINE text == Or(w.parsed["qr_url"], Pdf[w.doc].image)
           v == [w EXCEPT !.suggested = suggested, !.text = text]
<1>3. text \in QrTexts \cup {Empty}
  BY <1>1, PdfAssumption DEF Or
<1>4. v \in Work /\ v.text = text /\ v.doc = w.doc /\ v.parsed = w.parsed
  <2> HIDE DEF text
  <2> QED BY <1>1, <1>3 DEF Work
<1>5. Attached(v) /\ v.text = Or(v.parsed["qr_url"], Pdf[v.doc].image)
  <2> HIDE DEF v
  <2> QED BY <1>1, <1>4 DEF Attached
<1>6. calls' \in 0..MaxCalls /\ UNCHANGED <<qrCache, geoCache, said, failed>>
  BY DEF Suggest, TInv, TypeOK
<1>7. ChecksQr(t, v)
  BY <1>2
<1> HIDE DEF v
<1> QED BY <1>4, <1>5, <1>6, <1>7, ChecksQrTypes

LEMMA RevalidateTypes ==
    ASSUME TInv, NEW t \in Threads, NEW q \in QrTexts, Revalidate(t, q) PROVE TInv'
<1>1. PICK online \in BOOLEAN :
        ChecksQr(t, [step |-> "attempt", doc |-> NoDoc, online |-> online,
                     parsed |-> Nobody, geo |-> NoGeo, suggested |-> NoAdvice,
                     text |-> q, left |-> 0])
  BY DEF Revalidate
<1> DEFINE v == [step |-> "attempt", doc |-> NoDoc, online |-> online, parsed |-> Nobody,
                 geo |-> NoGeo, suggested |-> NoAdvice, text |-> q, left |-> 0]
<1>2. v \in Work
  <2>1. Nobody \in [Main -> Texts] /\ NoGeo \in Geos /\ 0 \in 0..Retries
    BY ServicesAssumption DEF Nobody, Texts, Geos
  <2> QED BY <2>1 DEF Work
<1>3. v.doc \notin Docs
  BY PdfAssumption
<1>4. ChecksQr(t, v)
  BY <1>1
<1>5. calls' \in 0..MaxCalls /\ UNCHANGED <<qrCache, geoCache, said, failed>>
  BY ServicesAssumption DEF Revalidate, Begins, TInv, TypeOK
<1> HIDE DEF v
<1> QED BY <1>2, <1>3, <1>4, <1>5, ChecksQrTypes DEF Attached

LEMMA InitTypes == Init => TInv
<1> SUFFICES ASSUME Init PROVE TInv
  OBVIOUS
<1>1. TypeOK
  BY PdfAssumption, ServicesAssumption DEF Init, TypeOK, NoVerdicts, NoResult
<1>2. Attachments
  BY DEF Init, Attachments
<1>3. ReportTellsCorrections
  BY PdfAssumption DEF Init, ReportTellsCorrections, NoResult
<1> QED BY <1>1, <1>2, <1>3 DEF TInv

LEMMA NextTypes == TInv /\ IInv /\ [Next]_vars => TInv'
<1> SUFFICES ASSUME TInv, IInv, [Next]_vars PROVE TInv'
  OBVIOUS
<1>1. CASE UNCHANGED vars
  BY <1>1 DEF vars, TInv, TypeOK, Attachments, Attached, ReportTellsCorrections
<1>2. ASSUME NEW t \in Threads, NEW d \in Docs, Refuse(t, d) PROVE TInv'
  <2>1. result' = NoCsf /\ NoCsf.doc \notin Docs /\ calls' \in 0..MaxCalls
        /\ UNCHANGED <<sess, qrCache, geoCache, said, failed>>
    BY <1>2, PdfAssumption, ServicesAssumption DEF Refuse, Begins, TInv, TypeOK
  <2>2. TypeOK'
    BY <2>1 DEF TInv, TypeOK
  <2> QED BY <2>1, <2>2 DEF TInv, Attachments, Attached, ReportTellsCorrections
<1>3. ASSUME NEW t \in Threads, NEW d \in Docs, Process(t, d) PROVE TInv'
  BY <1>3, ProcessTypes
<1>4. ASSUME NEW t \in Threads, NEW q \in QrTexts, Revalidate(t, q) PROVE TInv'
  BY <1>4, RevalidateTypes
<1>5. ASSUME NEW t \in Threads, Locate(t) \/ Suggest(t) PROVE TInv'
  BY <1>5, LocateTypes, SuggestTypes
<1>6. ASSUME NEW t \in Threads, Answered(t) \/ AttemptFails(t) \/ LegacyAttempt(t) PROVE TInv'
  BY <1>6, ChecksTypes
<1>7. CASE Stop
  <2>1. TypeOK'
    BY <1>7, PdfAssumption, ServicesAssumption DEF Stop, TInv, TypeOK, NoVerdicts, NoResult
  <2>2. Attachments' /\ ReportTellsCorrections'
    BY <1>7, PdfAssumption DEF Stop, Attachments, ReportTellsCorrections, NoResult
  <2> QED BY <2>1, <2>2 DEF TInv
<1> QED BY <1>1, <1>2, <1>3, <1>4, <1>5, <1>6, <1>7 DEF Next

LEMMA TInvHolds == Spec => []TInv
BY InitTypes, NextTypes, IInvHolds, PTL DEF Spec

(***************************************************************************)
(* Type correctness of the calls, the caches and the results: also that a  *)
(* document that was read has a text for its RFC and its name, which the   *)
(* parser puts there where it finds none, and that what is adopted of any  *)
(* list of suggestions is a text.                                          *)
(***************************************************************************)
THEOREM TypeCorrect == Spec => []TypeOK
<1>1. TInv => TypeOK
  BY DEF TInv
<1> QED BY <1>1, TInvHolds, PTL

(***************************************************************************)
(* For every set of fields, every reading and every list of suggestions:   *)
(* a field that is reported right has its format and is not corrected, and *)
(* a QR address that is reported right is the one that was checked.        *)
(***************************************************************************)
THEOREM ReportTellsCorrectionsThm == Spec => []ReportTellsCorrections
<1>1. TInv => ReportTellsCorrections
  BY DEF TInv
<1> QED BY <1>1, TInvHolds, PTL

---------------------------------------------------------------------------
(* The catalogue of places.                                                *)

LEMMA ScoreRange ==
    ASSUME NEW name, NEW target, NEW alike \in 0..100
    PROVE  Score(name, target, alike) \in Nat /\ Score(name, target, alike) <= 100
BY DEF Score

\* A list of scores that are not all 0 has a first one among the highest.
LEMMA FirstHighest ==
    ASSUME NEW n \in Nat, NEW score \in [1..n -> Nat], \A i \in 1..n : score[i] <= 100,
           NEW k \in 1..n, score[k] # 0
    PROVE  \E i \in 1..n :
            /\ score[i] > 0
            /\ \A j \in 1..n : score[j] < score[i] \/ (score[j] = score[i] /\ i <= j)
<1> DEFINE Missing == {m \in Nat : \E i \in 1..n : score[i] = 100 - m}
<1>1. \A i \in 1..n : score[i] \in Nat /\ 100 - score[i] \in Missing
  OBVIOUS
<1>2. Missing \subseteq Nat /\ Missing # {}
  BY <1>1
<1>3. PICK m \in Missing : \A x \in Missing : m <= x
  BY <1>2, LeastNatural
<1>4. m \in Nat /\ \E i \in 1..n : score[i] = 100 - m
  BY <1>3
<1> DEFINE Places == {i \in 1..n : score[i] = 100 - m}
<1>5. Places \subseteq Nat /\ Places # {}
  BY <1>4
<1>6. PICK i \in Places : \A j \in Places : i <= j
  BY <1>5, LeastNatural
<1>7. \A j \in 1..n : score[j] <= 100 - m
  <2> SUFFICES ASSUME NEW j \in 1..n PROVE score[j] <= 100 - m
    OBVIOUS
  <2>1. score[j] \in Nat /\ m <= 100 - score[j]
    BY <1>1, <1>3
  <2> QED BY <1>4, <2>1
<1>8. i \in 1..n /\ score[i] = 100 - m
  BY <1>6
<1>9. score[i] > 0
  <2>1. score[k] \in Nat /\ score[k] <= 100 - m
    BY <1>1, <1>7
  <2> QED BY <1>4, <1>8, <2>1
<1>10. ASSUME NEW j \in 1..n, ~(score[j] < score[i])
       PROVE  score[j] = score[i] /\ i <= j
  <2>1. score[j] \in Nat /\ score[j] <= 100 - m
    BY <1>1, <1>7
  <2>2. score[j] = 100 - m
    BY <1>4, <1>8, <1>10, <2>1
  <2>3. j \in Places
    BY <2>2
  <2> QED BY <1>6, <1>8, <2>2, <2>3
<1> QED BY <1>8, <1>9, <1>10

(***************************************************************************)
(* _best_match over the answers of INEGI: no entry of the list is more     *)
(* like the name than the one that is taken, and none before it is as      *)
(* much; nothing is taken only if nothing is like the name.                *)
(***************************************************************************)
THEOREM BestIsFirstBest ==
    ASSUME NEW R, NEW entries \in Seq(R), NEW target, NEW alike \in 0..100
    PROVE  \/ /\ Best(entries, target, alike) = [score |-> 0, entry |-> Nowhere]
              /\ \A i \in DOMAIN entries : Score(entries[i].name, target, alike) = 0
           \/ \E i \in DOMAIN entries :
                /\ Best(entries, target, alike) =
                        [score |-> Score(entries[i].name, target, alike), entry |-> entries[i]]
                /\ Score(entries[i].name, target, alike) > 0
                /\ \A j \in DOMAIN entries :
                        \/ Score(entries[j].name, target, alike) < Score(entries[i].name, target, alike)
                        \/ /\ Score(entries[j].name, target, alike) = Score(entries[i].name, target, alike)
                           /\ i <= j
<1> DEFINE n == Len(entries)
           score == [i \in 1..n |-> Score(entries[i].name, target, alike)]
           best == {i \in 1..n :
                        /\ score[i] > 0
                        /\ \A j \in 1..n :
                            score[j] < score[i] \/ (score[j] = score[i] /\ i <= j)}
<1>1. DOMAIN entries = 1..n /\ n \in Nat
  OBVIOUS
<1>2. score \in [1..n -> Nat] /\ \A i \in 1..n : score[i] <= 100
  BY ScoreRange
<1>3. \A i \in 1..n : Score(entries[i].name, target, alike) = score[i]
  OBVIOUS
<1>4. Best(entries, target, alike) =
        IF best = {} THEN [score |-> 0, entry |-> Nowhere]
        ELSE [score |-> score[CHOOSE i \in best : TRUE],
              entry |-> entries[CHOOSE i \in best : TRUE]]
  <2>1. best = {i \in DOMAIN entries :
                    /\ Score(entries[i].name, target, alike) > 0
                    /\ \A j \in DOMAIN entries :
                        \/ Score(entries[j].name, target, alike) < Score(entries[i].name, target, alike)
                        \/ /\ Score(entries[j].name, target, alike) = Score(entries[i].name, target, alike)
                           /\ i <= j}
    BY <1>1, <1>3
  <2>2. best # {} => (CHOOSE i \in best : TRUE) \in 1..n
    OBVIOUS
  <2> HIDE DEF best, score
  <2>3. CASE best = {}
    BY <2>1, <2>3, ZenonT(60) DEF Best
  <2>4. CASE best # {}
    BY <1>3, <2>1, <2>2, <2>4, ZenonT(60) DEF Best
  <2> QED BY <2>3, <2>4
<1> HIDE DEF n, score
<1>5. CASE \A i \in 1..n : score[i] = 0
  <2>1. best = {}
    BY <1>5
  <2> HIDE DEF best
  <2> QED BY <1>1, <1>3, <1>4, <1>5, <2>1
<1>6. CASE \E k \in 1..n : score[k] # 0
  <2>1. best # {}
    BY <1>1, <1>2, <1>6, FirstHighest
  <2>2. PICK i \in best : i = CHOOSE k \in best : TRUE
    BY <2>1
  <2>3. Best(entries, target, alike) = [score |-> score[i], entry |-> entries[i]]
    <3> HIDE DEF best
    <3> QED BY <1>4, <2>1, <2>2
  <2>4. i \in 1..n /\ score[i] > 0
        /\ \A j \in 1..n : score[j] < score[i] \/ (score[j] = score[i] /\ i <= j)
    BY <2>2
  <2> HIDE DEF best
  <2> QED BY <1>1, <1>3, <2>3, <2>4
<1> QED BY <1>5, <1>6

\* Without a locality that is alike, one of the list is taken all the same.
LEMMA SeatIsListed ==
    ASSUME NEW R, NEW entries \in Seq(R), entries # <<>>
    PROVE  \E k \in DOMAIN entries : SeatOf(entries) = entries[k]
<1> DEFINE seats == {i \in DOMAIN entries : entries[i].code = Seat}
<1>1. DOMAIN entries \subseteq Nat /\ 1 \in DOMAIN entries
  OBVIOUS
<1>2. CASE seats = {}
  BY <1>1, <1>2 DEF SeatOf
<1>3. CASE seats # {}
  <2>1. \E i \in seats : \A j \in seats : i <= j
    BY <1>1, <1>3, LeastNatural
  <2> DEFINE k == CHOOSE i \in seats : \A j \in seats : i <= j
  <2>2. k \in DOMAIN entries
    BY <2>1
  <2>3. SeatOf(entries) = entries[k]
    BY <1>3 DEF SeatOf
  <2> QED BY <2>2, <2>3
<1> QED BY <1>2, <1>3

\* What the catalogue lists for its i-th state, and for the j-th town of it.
TownsOf(i) == Municipalities[States[i].code]
PlacesOf(i, j) == Localities[TownsOf(i)[j].code]

\* A list, and what it means that b is an entry of it with its score.
IsList(entries) == \E R : entries \in Seq(R)
IsOf(b, entries, target, alike) ==
    \E i \in DOMAIN entries : /\ b.entry = entries[i]
                              /\ b.score = Score(entries[i].name, target, alike)
                              /\ b.score \in {alike, 100}

LEMMA ListedBest ==
    ASSUME NEW entries, IsList(entries), NEW target, NEW alike \in 0..100,
           NEW b, b = Best(entries, target, alike), b.score # 0
    PROVE  IsOf(b, entries, target, alike)
<1>1. PICK R : entries \in Seq(R)
  BY DEF IsList
<1>2. b # [score |-> 0, entry |-> Nowhere]
  OBVIOUS
<1>3. PICK i \in DOMAIN entries :
        /\ b = [score |-> Score(entries[i].name, target, alike), entry |-> entries[i]]
        /\ Score(entries[i].name, target, alike) > 0
  BY <1>1, <1>2, BestIsFirstBest
<1>4. Score(entries[i].name, target, alike) \in {0, alike, 100}
  BY DEF Score
<1>5. Score(entries[i].name, target, alike) # 0
  BY <1>3
<1>6. b.entry = entries[i] /\ b.score = Score(entries[i].name, target, alike)
  BY <1>3
<1> QED BY <1>4, <1>5, <1>6 DEF IsOf

LEMMA ListedSeat ==
    ASSUME NEW entries, IsList(entries), entries # <<>>
    PROVE  \E k \in DOMAIN entries : SeatOf(entries) = entries[k]
BY SeatIsListed DEF IsList

LEMMA Lists ==
    /\ IsList(States)
    /\ \A i \in DOMAIN States :
        /\ IsList(TownsOf(i))
        /\ \A j \in DOMAIN TownsOf(i) : IsList(PlacesOf(i, j))
BY CatalogueAssumption DEF TownsOf, PlacesOf, IsList

\* The steps of Geocode.
StateFor(address) == Best(States, address.state, 80)
TownFor(address) ==
    IF StateFor(address).score = 0 THEN StateFor(address)
    ELSE Best(Municipalities[StateFor(address).entry.code], address.municipality, 80)
PlacesFor(address) == Localities[TownFor(address).entry.code]
NameFor(address) == IF address.locality # "" THEN address.locality ELSE address.municipality
NamedFor(address) == Best(PlacesFor(address), NameFor(address), 70)
PlaceFor(address) ==
    IF NamedFor(address).score > 0 THEN NamedFor(address)
    ELSE [score |-> 50, entry |-> SeatOf(PlacesFor(address))]
SureOf(address) ==
    Confidence(StateFor(address).score, TownFor(address).score, PlaceFor(address).score)

LEMMA GeocodeSteps ==
    ASSUME NEW address
    PROVE  Geocode(address) =
            IF \/ TownFor(address).score = 0
               \/ PlacesFor(address) = <<>>
               \/ PlaceFor(address).entry.place = NoPlace
            THEN NoGeo
            ELSE [place |-> PlaceFor(address).entry.place, confidence |-> SureOf(address)]
BY DEF Geocode, StateFor, TownFor, PlacesFor, NameFor, NamedFor, PlaceFor, SureOf

Confidences == 8350..9800

LEMMA ConfidenceRange ==
    ASSUME NEW a \in {80, 100}, NEW b \in {80, 100}, NEW c \in {50, 70, 100}
    PROVE  Confidence(a, b, c) \in Confidences
BY DEF Confidence, Confidences

(***************************************************************************)
(* For every address and every catalogue: a place that is told is a        *)
(* locality of a municipality of a state that are in the catalogue, the    *)
(* two with names like those of the address, it has coordinates, and its   *)
(* confidence is from 0.835 to 0.98 (_lookup_address_geolocation): a call  *)
(* that finds less tells no place at all.                                  *)
(***************************************************************************)
THEOREM PlaceIsListed ==
    ASSUME NEW address, Geocode(address) # NoGeo
    PROVE  \E i \in DOMAIN States : \E j \in DOMAIN TownsOf(i) :
            /\ Score(States[i].name, address.state, 80) > 0
            /\ Score(TownsOf(i)[j].name, address.municipality, 80) > 0
            /\ \E k \in DOMAIN PlacesOf(i, j) :
                /\ Geocode(address).place = PlacesOf(i, j)[k].place
                /\ PlacesOf(i, j)[k].place # NoPlace
            /\ Geocode(address).confidence \in Confidences
<1>1. PICK state, town, found, place :
        /\ state = StateFor(address) /\ town = TownFor(address)
        /\ found = PlacesFor(address) /\ place = PlaceFor(address)
  OBVIOUS
<1>2. town.score # 0 /\ found # <<>> /\ place.entry.place # NoPlace
  BY <1>1, GeocodeSteps
<1>3. Geocode(address) = [place |-> place.entry.place, confidence |-> SureOf(address)]
  BY <1>1, <1>2, GeocodeSteps
<1>4. state.score # 0 /\ town = Best(Municipalities[state.entry.code], address.municipality, 80)
  BY <1>1, <1>2 DEF TownFor
<1>5. IsOf(state, States, address.state, 80)
  <2>1. state = Best(States, address.state, 80) /\ 80 \in 0..100
    BY <1>1 DEF StateFor
  <2> QED BY <1>4, <2>1, Lists, ListedBest
<1>6. PICK i \in DOMAIN States :
        /\ state.entry = States[i]
        /\ state.score = Score(States[i].name, address.state, 80)
        /\ state.score \in {80, 100}
  BY <1>5, Zenon DEF IsOf
<1>7. IsOf(town, TownsOf(i), address.municipality, 80)
  <2>1. town = Best(TownsOf(i), address.municipality, 80) /\ 80 \in 0..100
    BY <1>4, <1>6 DEF TownsOf
  <2> QED BY <1>2, <2>1, Lists, ListedBest
<1>8. PICK j \in DOMAIN TownsOf(i) :
        /\ town.entry = TownsOf(i)[j]
        /\ town.score = Score(TownsOf(i)[j].name, address.municipality, 80)
        /\ town.score \in {80, 100}
  BY <1>7, Zenon DEF IsOf
<1>9. found = PlacesOf(i, j) /\ IsList(found)
  <2>1. found = PlacesOf(i, j)
    BY <1>1, <1>8, Zenon DEF PlacesOf, PlacesFor
  <2> QED BY <2>1, Lists, Zenon
<1>10. (\E k \in DOMAIN found : place.entry = found[k]) /\ place.score \in {50, 70, 100}
  <2>1. PICK named : named = NamedFor(address)
    OBVIOUS
  <2>2. place = IF named.score > 0 THEN named ELSE [score |-> 50, entry |-> SeatOf(found)]
    BY <1>1, <2>1 DEF PlaceFor
  <2>3. CASE named.score # 0
    <3>1. named = Best(found, NameFor(address), 70) /\ 70 \in 0..100
      BY <1>1, <2>1 DEF NamedFor
    <3>2. IsOf(named, found, NameFor(address), 70)
      BY <1>9, <2>3, <3>1, ListedBest
    <3>3. (\E k \in DOMAIN found : named.entry = found[k]) /\ named.score \in {70, 100}
      BY <3>2, Zenon DEF IsOf
    <3>4. named.score > 0
      BY <3>3
    <3>5. place = named
      BY <2>2, <3>4, Zenon
    <3>6. place.score \in {50, 70, 100}
      BY <3>3, <3>5
    <3> QED BY <3>3, <3>5, <3>6, Zenon
  <2>4. CASE named.score = 0
    <3>1. \E k \in DOMAIN found : SeatOf(found) = found[k]
      BY <1>2, <1>9, ListedSeat, Zenon
    <3>2. ~(named.score > 0)
      BY <2>4
    <3>3. place = [score |-> 50, entry |-> SeatOf(found)]
      BY <2>2, <3>2, Zenon
    <3>4. place.score = 50 /\ place.entry = SeatOf(found)
      BY <3>3
    <3> QED BY <3>1, <3>4, Zenon
  <2> QED BY <2>3, <2>4
<1>11. SureOf(address) \in Confidences
  <2>1. SureOf(address) = Confidence(state.score, town.score, place.score)
    BY <1>1, Zenon DEF SureOf
  <2>2. /\ state.score \in {80, 100} /\ town.score \in {80, 100}
        /\ place.score \in {50, 70, 100}
    BY <1>6, <1>8, <1>10
  <2> QED BY <2>1, <2>2, ConfidenceRange
<1>12. Score(States[i].name, address.state, 80) > 0
       /\ Score(TownsOf(i)[j].name, address.municipality, 80) > 0
  <2>1. state.score > 0 /\ town.score > 0
    BY <1>6, <1>8
  <2> QED BY <1>6, <1>8, <2>1
<1>13. Geocode(address).place = place.entry.place /\ Geocode(address).confidence \in Confidences
  BY <1>3, <1>11
<1>14. \E k \in DOMAIN PlacesOf(i, j) :
        Geocode(address).place = PlacesOf(i, j)[k].place /\ PlacesOf(i, j)[k].place # NoPlace
  BY <1>2, <1>9, <1>10, <1>13, Zenon
<1> QED BY <1>12, <1>13, <1>14, Zenon
===============================================================================
