---------------------------- MODULE VoiceGateway ----------------------------
(***************************************************************************)
(* GovernedVoiceGateway (voice-gateway.ts): adapters with evidence of      *)
(* their availability, push-to-talk sessions, and final transcripts that   *)
(* are proved, redacted, routed once and remembered.                       *)
(*                                                                         *)
(* The maps of the gateway are keyed by the workspace, so that the gateway *)
(* of one workspace is modelled.  Every call is synchronous.  The          *)
(* verifiers, the evaluator of authority, the router and the hasher are    *)
(* ports: their answers, and their failures, are inputs of the calls.      *)
(* Text is plain or sensitive, and as long as its size says.               *)
(***************************************************************************)
EXTENDS Clock, Naturals, Sequences, FiniteSets, SequencesExt

CONSTANTS
    Principals, Trusted, \* callers, and authorizedPrincipals
    Sessions, Adapters,     \* ids
    Proofs, SequenceNumbers, \* proofs and sequence numbers of transcripts
    Offered, Decisions,     \* metadata of adapters, answers of the router
    TranscriptFreshness, EvidenceFreshness, MaxText, MaxHistory

Text == [kind : {"plain", "sensitive", "redacted"}, size : Nat]

SessionRecord ==
    [principal : Principals,
     state : {"IDLE", "REQUESTING_PERMISSION", "READY", "RECORDING", "TRANSCRIBING", "ROUTING", "RESPONDING", "STOPPED", "FAILED"},
     permission : {"NOT_REQUESTED", "PROMPTING", "GRANTED", "DENIED", "UNAVAILABLE"},
     stt : Adapters, tts : Adapters \cup {None}]

OptionsAssumption ==
    /\ Trusted \subseteq Principals /\ MaxText \in Nat \ {0}
    /\ TranscriptFreshness \in Nat /\ EvidenceFreshness \in Nat /\ MaxHistory \in Nat /\ Horizon \in Nat
    /\ SequenceNumbers \subseteq Nat
    /\ None \notin SessionRecord /\ None \notin Text
    /\ \A d \in Decisions : d.required \in 0..4 /\ d.response \in Text

VARIABLES
    adapters,       \* #adapters
    sessions,       \* #sessions
    memory,         \* #history, per principal
    usedProofs,     \* #usedTranscriptProofs
    usedSequences,  \* #usedSequences
    routed          \* the transcripts the router was called with, in order

voiceVars == <<now, adapters, sessions, memory, usedProofs, usedSequences, routed>>

VoiceInit ==
    /\ now = 0 /\ adapters = [a \in Adapters |-> None] /\ sessions = [s \in Sessions |-> None]
    /\ memory = [p \in Principals |-> <<>>] /\ usedProofs = {} /\ usedSequences = {} /\ routed = <<>>

VoiceTick ==
    /\ now < Horizon /\ now' = now + 1
    /\ UNCHANGED <<adapters, sessions, memory, usedProofs, usedSequences, routed>>

Distance(a, b) == IF a > b THEN a - b ELSE b - a

assertAuthorized(p) == p \in Trusted

\* Browser-local adapters are offline and free of credentials, external ones are neither.
validateMetadata(m) ==
    /\ (m.availability = "LOCAL_BROWSER" <=> m.status = "BROWSER_LOCAL_AVAILABLE")
    /\ m.availability = "LOCAL_BROWSER" => m.network = "OFFLINE" /\ m.credentials = "NONE"
    /\ m.availability = "EXTERNAL_PROVIDER" => m.network = "EGRESS" /\ m.credentials # "NONE"

assertEvidenceCurrent(m, verified) == Distance(now, m.verifiedAt) <= EvidenceFreshness /\ verified

registerAdapter(p, a, offer, verifiedAt, verified) ==
    LET m == offer @@ [verifiedAt |-> verifiedAt]
    IN
    /\ assertAuthorized(p) /\ validateMetadata(m) /\ assertEvidenceCurrent(m, verified)
    /\ adapters[a] = None
    /\ adapters' = [adapters EXCEPT ![a] = m]
    /\ UNCHANGED <<now, sessions, memory, usedProofs, usedSequences, routed>>

requireAdapter(a, kind) == adapters[a] # None /\ adapters[a].kind = kind

assertAdapterUsable(m, browser, verified) ==
    /\ assertEvidenceCurrent(m, verified)
    /\ m.status \in {"AVAILABLE", "BROWSER_LOCAL_AVAILABLE"}
    /\ m.status = "BROWSER_LOCAL_AVAILABLE" => m.kind \in browser

createSession(p, s, stt, tts, browser, verified) ==
    /\ assertAuthorized(p) /\ sessions[s] = None
    /\ requireAdapter(stt, "STT") /\ assertAdapterUsable(adapters[stt], browser, verified)
    /\ tts # None => requireAdapter(tts, "TTS") /\ assertAdapterUsable(adapters[tts], browser, verified)
    /\ "MICROPHONE" \in browser
    /\ sessions' = [sessions EXCEPT ![s] = [principal |-> p, state |-> "IDLE", permission |-> "NOT_REQUESTED",
                                            stt |-> stt, tts |-> tts]]
    /\ UNCHANGED <<now, adapters, memory, usedProofs, usedSequences, routed>>

--------------------------------------------------------------------------
requireSession(p, s) == assertAuthorized(p) /\ sessions[s] # None /\ sessions[s].principal = p

Enter(s, state, permission) ==
    /\ sessions' = [sessions EXCEPT ![s].state = state, ![s].permission = permission]
    /\ UNCHANGED <<now, adapters, memory, usedProofs, usedSequences, routed>>

requestMicrophonePermission(p, s) ==
    /\ requireSession(p, s) /\ sessions[s].state = "IDLE" /\ sessions[s].permission = "NOT_REQUESTED"
    /\ Enter(s, "REQUESTING_PERMISSION", "PROMPTING")

recordMicrophonePermission(p, s, result) ==
    /\ requireSession(p, s) /\ sessions[s].state = "REQUESTING_PERMISSION" /\ sessions[s].permission = "PROMPTING"
    /\ Enter(s, IF result = "GRANTED" THEN "READY" ELSE "FAILED", result)

pressToTalk(p, s) ==
    /\ requireSession(p, s) /\ sessions[s].permission = "GRANTED" /\ sessions[s].state = "READY"
    /\ Enter(s, "RECORDING", sessions[s].permission)

releaseToTalk(p, s) ==
    /\ requireSession(p, s) /\ sessions[s].state = "RECORDING"
    /\ Enter(s, "TRANSCRIBING", sessions[s].permission)

stop(p, s) ==
    /\ requireSession(p, s) /\ sessions[s].state \notin {"STOPPED", "FAILED"}
    /\ Enter(s, "STOPPED", sessions[s].permission)

--------------------------------------------------------------------------
(* Transcripts. *)

redact(text) == IF text.kind = "sensitive" THEN [kind |-> "redacted", size |-> 1] ELSE text

boundedText(text) == text.size \in 1..MaxText

\* What is asked of an envelope before anything is marked as used.
LinkedTranscript(p, e) ==
    /\ e.principal = p /\ e.adapter = sessions[e.session].stt
    /\ e.final /\ e.retention \in {"NONE", "REDACTED_SESSION"}

FreshTranscript(e) == Distance(now, e.observedAt) <= TranscriptFreshness

NewTranscript(e) == e.proof \notin usedProofs /\ <<e.session, e.sequence>> \notin usedSequences

FitsAdapter(e) ==
    /\ e.sequence >= 1 /\ boundedText(e.text)
    /\ requireAdapter(e.adapter, "STT") /\ e.text.size <= adapters[e.adapter].limit

\* #validateDecision, and that a principal is not given more than it has.
validateDecision(d, authority) ==
    /\ d.linked /\ boundedText(d.response)
    /\ (d.outcome = "LEVEL_4" <=> d.target # None)
    /\ d.required > authority.maximum => d.outcome = "LEVEL_4"
    /\ (d.required = 4 <=> d.outcome = "LEVEL_4")

Entry(e, d) ==
    [session |-> e.session, proof |-> e.proof, outcome |-> d.outcome, required |-> d.required,
     response |-> redact(d.response), transcript |-> IF e.retention = "REDACTED_SESSION" THEN redact(e.text) ELSE None]

\* #storeHistory: the oldest entries are dropped above the limit.
storeHistory(p, entry) ==
    LET entries == Append(memory[p], entry)
    IN  memory' = [memory EXCEPT ![p] = IF Len(entries) > MaxHistory THEN Tail(entries) ELSE entries]

\* #deny
Denial == [linked |-> TRUE, outcome |-> "DENY", required |-> 0, target |-> None, response |-> [kind |-> "plain", size |-> 1]]

\* What the evaluator may answer, and which of the ports may fail.
Authorities == [allowed : BOOLEAN, maximum : {2}]

Failures == {"none", "evaluate", "hash", "route", "store"}

\* What follows once the transcript is marked: an error on the way leaves the
\* session ROUTING, and one of the history leaves it RESPONDING.
Route(p, e, authority, d, fails) ==
    LET To(state) == sessions' = [sessions EXCEPT ![e.session].state = state]
    IN  \/ /\ fails = "evaluate"
           /\ To("ROUTING") /\ UNCHANGED <<memory, routed>>
        \/ /\ fails # "evaluate" /\ ~authority.allowed
           /\ To("RESPONDING") /\ UNCHANGED routed
           /\ IF fails = "hash" THEN UNCHANGED memory ELSE storeHistory(p, Entry(e, Denial))
        \/ /\ fails = "hash" /\ authority.allowed
           /\ To("ROUTING") /\ UNCHANGED <<memory, routed>>
        \/ /\ fails \notin {"evaluate", "hash"} /\ authority.allowed
           /\ routed' = Append(routed, [session |-> e.session, proof |-> e.proof, principal |-> p])
           /\ IF fails = "route" \/ ~validateDecision(d, authority)
              THEN To("ROUTING") /\ UNCHANGED memory
              ELSE /\ To("RESPONDING")
                   /\ IF fails = "store" THEN UNCHANGED memory ELSE storeHistory(p, Entry(e, d))

\* mutant: the proof is remembered once a response has been stored
routeThenMark(p, e) ==
    /\ requireSession(p, e.session) /\ sessions[e.session].state = "TRANSCRIBING"
    /\ LinkedTranscript(p, e) /\ FreshTranscript(e) /\ NewTranscript(e) /\ FitsAdapter(e) /\ e.genuine
    /\ \E authority \in Authorities, d \in Decisions, fails \in Failures : Route(p, e, authority, d, fails)
    /\ usedProofs' = IF memory' # memory THEN usedProofs \cup {e.proof} ELSE usedProofs
    /\ usedSequences' = usedSequences \cup {<<e.session, e.sequence>>}
    /\ UNCHANGED <<now, adapters>>

routeFinalTranscript(p, e) ==
    /\ requireSession(p, e.session) /\ sessions[e.session].state = "TRANSCRIBING"
    /\ LinkedTranscript(p, e) /\ FreshTranscript(e) /\ NewTranscript(e) /\ FitsAdapter(e) /\ e.genuine
    /\ usedProofs' = usedProofs \cup {e.proof}
    /\ usedSequences' = usedSequences \cup {<<e.session, e.sequence>>}
    /\ \E authority \in Authorities, d \in Decisions, fails \in Failures : Route(p, e, authority, d, fails)
    /\ UNCHANGED <<now, adapters>>

--------------------------------------------------------------------------
\* replay reads only: whether this entry may be spoken now.
MayReplay(p, entry, verified) ==
    LET tts == sessions[entry.session].tts
    IN  /\ requireSession(p, entry.session) /\ tts # None /\ requireAdapter(tts, "TTS")
        /\ assertEvidenceCurrent(adapters[tts], verified) /\ adapters[tts].status \in {"AVAILABLE", "BROWSER_LOCAL_AVAILABLE"}
        /\ entry.response.size <= adapters[tts].limit

\* What is wrong with an envelope for session s.
Faults(s, e) ==
    {f \in {"principal", "final", "genuine", "late", "long", "retention"} :
       CASE f = "principal" -> e.principal # sessions[s].principal
         [] f = "final" -> ~e.final
         [] f = "genuine" -> ~e.genuine
         [] f = "late" -> e.observedAt # now
         [] f = "long" -> e.text.size > MaxText
         [] f = "retention" -> e.retention = "RAW"}

\* Envelopes of the right shape, and those with which one thing is wrong.
Envelopes(s) ==
    {e \in [session : {s}, principal : Principals, adapter : {sessions[s].stt}, final : BOOLEAN, genuine : BOOLEAN,
            retention : {"NONE", "REDACTED_SESSION", "RAW"}, observedAt : {0, now}, proof : Proofs, sequence : SequenceNumbers,
            text : [kind : {"plain", "sensitive"}, size : {1, MaxText + 1}]] : Cardinality(Faults(s, e)) <= 1}

VoiceNext ==
    \/ VoiceTick
    \/ \E p \in Principals, a \in Adapters, offer \in Offered, verifiedAt \in 0..now, verified \in BOOLEAN :
         registerAdapter(p, a, offer, verifiedAt, verified)
    \/ \E p \in Principals, s \in Sessions :
         \/ \E stt \in Adapters, tts \in Adapters \cup {None}, verified \in BOOLEAN, browser \in {{}, {"MICROPHONE", "STT"}} :
              createSession(p, s, stt, tts, browser, verified)
         \/ requestMicrophonePermission(p, s)
         \/ \E result \in {"GRANTED", "DENIED", "UNAVAILABLE"} : recordMicrophonePermission(p, s, result)
         \/ pressToTalk(p, s) \/ releaseToTalk(p, s) \/ stop(p, s)
         \/ /\ requireSession(p, s) /\ sessions[s].state = "TRANSCRIBING"
            /\ \E e \in Envelopes(s) : routeFinalTranscript(p, e)

VoiceSpec == VoiceInit /\ [][VoiceNext]_voiceVars

--------------------------------------------------------------------------
MemoryRecord ==
    [session : Sessions, proof : Proofs, outcome : {d.outcome : d \in Decisions} \cup {"DENY"}, required : 0..4, response : Text, transcript : Text \cup {None}]

RoutedRecord == [session : Sessions, proof : Proofs, principal : Principals]

VoiceTypeOK ==
    /\ now \in 0..Horizon /\ usedProofs \subseteq Proofs /\ usedSequences \subseteq Sessions \X SequenceNumbers
    /\ sessions \in [Sessions -> SessionRecord \cup {None}]
    /\ memory \in [Principals -> Seq(MemoryRecord)]
    /\ routed \in Seq(RoutedRecord)

\* No proof is routed twice, in one session or in two, also when routing, hashing
\* or storing fails half-way; and every transcript was recorded with the microphone
\* granted by the principal it is routed for (routeFinalTranscript).
RoutedOnce ==
    \A i, j \in DOMAIN routed :
      /\ routed[i].proof = routed[j].proof => i = j
      /\ sessions[routed[i].session].permission = "GRANTED"
      /\ sessions[routed[i].session].principal = routed[i].principal

\* What is remembered and may be replayed was said in a session of the same
\* principal, holds nothing sensitive, and never more than the limit
\* (#storeHistory, redact).
HistoryIsSafe ==
    \A p \in Principals :
      /\ Len(memory[p]) <= MaxHistory
      /\ \A i \in DOMAIN memory[p] :
           /\ sessions[memory[p][i].session].principal = p
           /\ memory[p][i].response.kind # "sensitive"
           /\ memory[p][i].transcript # None => memory[p][i].transcript.kind # "sensitive"
           /\ memory[p][i].outcome # "LEVEL_4" => memory[p][i].required <= 3
           /\ MayReplay(p, memory[p][i], TRUE) => memory[p][i].response.size <= MaxText

\* The router sees a transcript once, also when routing, hashing or storing fails
\* half-way, and what is remembered was said by the same principal and holds
\* nothing sensitive (routeFinalTranscript, #storeHistory).
TranscriptsRouteOnce == RoutedOnce /\ HistoryIsSafe
==============================================================================
