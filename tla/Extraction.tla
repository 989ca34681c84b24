------------------------------ MODULE Extraction ------------------------------
(***************************************************************************)
(* services/ingest.py: process_pdf, which uploads, ZIPs and the document   *)
(* worker call from threads of one process, and validate_qr_status, which  *)
(* a revalidation also calls.  The threads share two caches, of what INEGI *)
(* said of an address and of what SAT said of a QR text; a cache is looked *)
(* at before the calls and written after them.                             *)
(***************************************************************************)
EXTENDS CsfFields, Geocoder

CONSTANTS
    Threads,
    Docs,        \* contents of PDFs
    Pdf,         \* Pdf[d]: whether it is a constancia, what patterns and pairs
                 \* find in it and the QR code of its pages
    GroqReads,   \* what Groq may read in a text: a value for each main field
    AiReplies,   \* what OpenAI and Groq may suggest
    Addresses,   \* AddressOf of the documents, all but NoAddress
    QrTexts, SatTexts,   \* QR texts, and those with the format of SAT
    Statuses,    \* HTTP statuses
    LegacyTls,   \* SAT_ALLOW_LEGACY_TLS
    Retries,     \* SAT_RETRIES
    MaxCalls     \* bound: calls, and stops of the process

NoDoc == "no_doc"
NoCsf == [doc |-> "not_a_csf"]
NoAddress == [municipality |-> Empty, state |-> Empty, locality |-> Empty]

\* Without a state and a municipality nothing is looked up.
AddressOf(crm) ==
    IF crm["municipality"] = Empty \/ crm["state"] = Empty THEN NoAddress
    ELSE [municipality |-> crm["municipality"], state |-> crm["state"],
          locality |-> crm["locality"]]

\* A revalidation has no document.
CrmOf(d, parsed) ==
    IF d \in Docs THEN Crm(parsed, Pdf[d].pairs) ELSE [f \in Fields |-> Empty]

ASSUME PdfAssumption ==
    /\ {"municipality", "state", "locality", "tax_id", "qr_url"} \subseteq Fields
    /\ Pdf \in [Docs -> [csf : BOOLEAN, read : [Main -> Texts], pairs : [Fields -> Texts],
                         image : QrTexts \cup {Empty}]]
    /\ GroqReads \subseteq [Main -> Texts]
    /\ \A d \in Docs :
        /\ Pdf[d].read["qr_url"] \in QrTexts \cup {Empty}
        /\ AddressOf(Pdf[d].pairs) \in Addresses \cup {NoAddress}
    /\ \A r \in GroqReads : r["qr_url"] \in QrTexts \cup {Empty}
    /\ SatTexts \subseteq QrTexts /\ QrTexts \subseteq Values
    /\ {NoDoc, NoCsf.doc} \cap Docs = {}

ASSUME ServicesAssumption ==
    /\ AiReplies \subseteq Seq(AiReply)
    /\ Statuses \subseteq Nat
    /\ LegacyTls \in BOOLEAN
    /\ Retries \in Nat \ {0}
    /\ MaxCalls \in Nat

VARIABLES
    sess,      \* the call each thread is in
    result,    \* what the last call that ended has returned
    qrCache,   \* _qr_cache
    geoCache,  \* _address_geo_cache
    said,      \* said[q]: the verdicts SAT has given on q to this process
    failed,    \* texts whose check has failed in this process
    calls

vars == <<sess, result, qrCache, geoCache, said, failed, calls>>

Absent == "absent"
Unlocated == [place |-> Absent]    \* an address that is not in the cache
Verdicts == {"true", "false", Null}
NotAsked == "not_asked"
Nobody == [f \in Main |-> Empty]

---------------------------------------------------------------------------
(* Types.                                                                  *)

Geos == {NoGeo} \cup {Geocode(a) : a \in Addresses}
Advice == {Suggestions(fromOpenAi, fromGroq) : fromOpenAi, fromGroq \in AiReplies \cup {<<>>}}

\* parsed, geo and suggested are filled in from step to step, left counts the
\* attempts at SAT that remain.
Idle == [step |-> "idle"]
Work == [step : {"locate", "suggest", "attempt"}, doc : Docs \cup {NoDoc},
         online : BOOLEAN, parsed : [Main -> Texts], geo : Geos,
         suggested : Advice \cup {NoAdvice}, text : QrTexts \cup {Empty}, left : 0..Retries]

NoResult == [doc |-> NoDoc]
FieldReport == [ok : BOOLEAN, suggested : Texts,
                reason : {"ok", "faltante", "formato_invalido", "requiere_correccion"}]
Result == [doc : Docs \cup {NoDoc}, parsed : [Main -> Texts], geo : Geos,
           corrected : [Fields -> Texts], report : [Fields -> FieldReport],
           text : QrTexts \cup {Empty}, valid : Verdicts, online : Verdicts \cup {NotAsked}]

TypeOK ==
    /\ sess \in [Threads -> Work \cup {Idle}]
    /\ result \in Result \cup {NoResult, NoCsf}
    /\ result.doc \in Docs => \A f \in Main \cap Critical : result.parsed[f] # Empty
    /\ qrCache \in [QrTexts -> Verdicts \cup {Absent}]
    /\ geoCache \in [Addresses -> Geos \cup {Unlocated}]
    /\ said \in [QrTexts -> SUBSET Verdicts]
    /\ failed \subseteq QrTexts
    /\ calls \in 0..MaxCalls

NoVerdicts == [q \in QrTexts |-> Absent]

Init ==
    /\ sess = [t \in Threads |-> Idle]
    /\ result = NoResult
    /\ qrCache = NoVerdicts
    /\ geoCache = [a \in Addresses |-> Unlocated]
    /\ said = [q \in QrTexts |-> {}]
    /\ failed = {}
    /\ calls = 0

---------------------------------------------------------------------------
(* The checks of a QR text.                                                *)

\* _validate_qr_format
Format(text) ==
    CASE text = Empty -> Null
      [] text \in SatTexts -> "true"
      [] OTHER -> "false"

\* process_pdf returns; for a revalidation only the verdicts count.
Finished(t, work, verdict) ==
    /\ result' =
            [doc |-> work.doc, parsed |-> work.parsed, geo |-> work.geo,
             corrected |-> Corrected(CrmOf(work.doc, work.parsed), work.suggested),
             report |-> Report(CrmOf(work.doc, work.parsed), work.suggested),
             text |-> work.text, valid |-> Format(work.text), online |-> verdict]
    /\ sess' = [sess EXCEPT ![t] = Idle]

Remembered(q) == qrCache[q] # Absent

\* validate_qr_status and _validate_qr_online up to the first attempt
ChecksQr(t, work) ==
    CASE ~work.online -> Finished(t, work, NotAsked)
      [] work.online /\ work.text = Empty -> Finished(t, work, Null)
      [] work.online /\ work.text # Empty /\ Remembered(work.text) ->
            Finished(t, work, qrCache[work.text])
      [] OTHER ->
            /\ sess' = [sess EXCEPT ![t] = [work EXCEPT !.step = "attempt",
                                                        !.left = Retries]]
            /\ UNCHANGED result

\* HEAD, or GET where that is not allowed
Answer(head, get) == LET status == IF head = 405 THEN get ELSE head
                     IN  IF status < 400 THEN "true" ELSE "false"

Attempting(t) == sess[t] # Idle /\ sess[t].step = "attempt"

Stores(t, verdict) ==
    /\ qrCache' = [qrCache EXCEPT ![sess[t].text] = verdict]
    /\ Finished(t, sess[t], verdict)
    /\ UNCHANGED <<geoCache, calls>>

Answers == {Answer(head, get) : head, get \in Statuses}

Answered(t) ==
    /\ Attempting(t)
    /\ \E verdict \in Answers :
        /\ said' = [said EXCEPT ![sess[t].text] = @ \cup {verdict}]
        /\ Stores(t, verdict)
    /\ UNCHANGED failed

\* Mutation: no answer counts as a refusal.
Undecided_Refused == "false"

\* "Error de red/TLS/handshake: estado indeterminado, no invalido."
Undecided == Null

\* An attempt without an answer; the last one decides.
AttemptFails(t) ==
    /\ Attempting(t)
    /\ failed' = failed \cup {sess[t].text}
    /\ IF sess[t].left > 1
       THEN /\ sess' = [sess EXCEPT ![t].left = @ - 1]
            /\ UNCHANGED <<result, qrCache, geoCache, calls>>
       ELSE Stores(t, Undecided)
    /\ UNCHANGED said

\* A server with a weak key is asked once more with weaker ciphers, by GET, and
\* a failure of that decides.
LegacyAttempt(t) ==
    /\ Attempting(t)
    /\ LegacyTls
    /\ \/ \E verdict \in {Answer(405, get) : get \in Statuses} :
            /\ said' = [said EXCEPT ![sess[t].text] = @ \cup {verdict}]
            /\ Stores(t, verdict)
            /\ UNCHANGED failed
       \/ /\ failed' = failed \cup {sess[t].text}
          /\ Stores(t, Undecided)
          /\ UNCHANGED said

---------------------------------------------------------------------------
(* A document.                                                             *)

Begins(t) ==
    /\ sess[t] = Idle
    /\ calls < MaxCalls
    /\ calls' = calls + 1

\* ValueError of _parse_csf_fields: the error of the upload, or of this entry of
\* a ZIP, whose loop goes on.
Refuse(t, d) ==
    /\ ~Pdf[d].csf
    /\ Begins(t)
    /\ result' = NoCsf
    /\ UNCHANGED <<sess, qrCache, geoCache, said, failed>>

\* process_pdf up to the look at the cache of addresses.  Groq may fail.
Process(t, d) ==
    /\ Pdf[d].csf
    /\ Begins(t)
    /\ \E reply \in GroqReads \cup {Nobody}, online \in BOOLEAN :
        /\ reply = Nobody \/ NeedsGroq(Pdf[d].read)
        /\ LET parsed  == ParsedFields(Pdf[d].read, reply)
               address == AddressOf(CrmOf(d, parsed))
               known   == address = NoAddress \/ geoCache[address] # Unlocated
           IN  sess' = [sess EXCEPT ![t] =
                [step |-> IF known THEN "suggest" ELSE "locate",
                 doc |-> d, online |-> online, parsed |-> parsed,
                 geo |-> IF address # NoAddress /\ known THEN geoCache[address] ELSE NoGeo,
                 suggested |-> NoAdvice, text |-> Empty, left |-> 0]]
    /\ UNCHANGED <<result, qrCache, geoCache, said, failed>>

\* _lookup_address_geolocation from the first request to INEGI on; any of them
\* may fail, and that is remembered like an answer.
Locate(t) ==
    /\ sess[t] # Idle /\ sess[t].step = "locate"
    /\ LET address == AddressOf(CrmOf(sess[t].doc, sess[t].parsed))
       IN  \E geo \in {Geocode(address), NoGeo} :
            /\ geoCache' = [geoCache EXCEPT ![address] = geo]
            /\ sess' = [sess EXCEPT ![t].geo = geo, ![t].step = "suggest"]
    /\ UNCHANGED <<result, qrCache, said, failed, calls>>

\* The suggestions, and the QR code of the pages where the text has none.
Suggest(t) ==
    /\ sess[t] # Idle /\ sess[t].step = "suggest"
    /\ \E suggested \in Advice :
        ChecksQr(t, [sess[t] EXCEPT
            !.suggested = suggested,
            !.text = Or(sess[t].parsed["qr_url"], Pdf[sess[t].doc].image)])
    /\ UNCHANGED <<qrCache, geoCache, said, failed, calls>>

\* validate_qr_status for the text of a row
Revalidate(t, q) ==
    /\ Begins(t)
    /\ \E online \in BOOLEAN :
        ChecksQr(t, [step |-> "attempt", doc |-> NoDoc, online |-> online,
                     parsed |-> Nobody, geo |-> NoGeo, suggested |-> NoAdvice,
                     text |-> q, left |-> 0])
    /\ UNCHANGED <<qrCache, geoCache, said, failed>>

\* The process stops and is started again; both caches are in its memory.
Stop ==
    /\ calls < MaxCalls
    /\ calls' = calls + 1
    /\ sess' = [t \in Threads |-> Idle]
    /\ result' = NoResult
    /\ qrCache' = NoVerdicts
    /\ geoCache' = [a \in Addresses |-> Unlocated]
    /\ said' = [q \in QrTexts |-> {}]
    /\ failed' = {}

Next ==
    \/ \E t \in Threads :
        \/ \E d \in Docs : Refuse(t, d) \/ Process(t, d)
        \/ \E q \in QrTexts : Revalidate(t, q)
        \/ Locate(t) \/ Suggest(t)
        \/ Answered(t) \/ AttemptFails(t) \/ LegacyAttempt(t)
    \/ Stop

Spec == Init /\ [][Next]_vars

---------------------------------------------------------------------------
(***************************************************************************)
(* A field that is reported right has the format of the field, is left     *)
(* alone by the corrections, and a QR address that is reported right is    *)
(* the one that was checked, whatever the services suggest, for fields     *)
(* named twice or not at all, and wherever the values come from            *)
(* (process_pdf, _build_corrected_json, _build_field_validation_report).   *)
(***************************************************************************)
ReportTellsCorrections ==
    result.doc \in Docs =>
        LET crm == CrmOf(result.doc, result.parsed)
        IN  /\ \A f \in Fields : result.report[f].ok =>
                    crm[f] \in Valid[f] /\ result.corrected[f] = crm[f]
            /\ result.report["qr_url"].ok => result.corrected["qr_url"] = result.text

(***************************************************************************)
(* What is told comes from the services, for this very text or address: a  *)
(* verdict on a QR text is one SAT gave on it to this process, no verdict  *)
(* is told of a text that was asked about only if a check of it failed,    *)
(* and a place is the one of the address, also out of the caches and with  *)
(* checks that overlap (_validate_qr_online, _lookup_address_geolocation). *)
(***************************************************************************)
LookupsAreGrounded ==
    result \notin {NoResult, NoCsf} =>
        /\ result.online \in {"true", "false"} => result.online \in said[result.text]
        /\ result.online = Null /\ result.text # Empty => result.text \in failed
        /\ result.geo # NoGeo =>
            result.geo = Geocode(AddressOf(CrmOf(result.doc, result.parsed)))
==============================================================================
