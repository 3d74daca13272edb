----------------------------- MODULE IbusMachine -----------------------------
(***************************************************************************)
(* Text input with its fairness: where an utterance's text lands, and what *)
(* is left of Myna on the desktop when the utterance is over.              *)
(***************************************************************************)
EXTENDS Ibus

\* The steps that end an acquire, a write or a release once they can be taken,
\* the dispatch of the daemon's calls, and time.  Nothing is assumed of the
\* user, who need not press, move focus or say anything.
Fairness ==
  /\ WF_ivars(reconnect \/ ReadBefore \/ switch \/ focus_arrived \/ CheckSwitch
              \/ left_settled \/ Stand \/ WriteNext \/ ReleaseSettles \/ ReleaseRestores
              \/ (step = "taken" /\ release))
  /\ WF_ivars(Dispatch) /\ WF_ivars(Timer) /\ WF_ivars(ActivationAges)

Spec == IbusInit /\ [][IbusNext]_ivars /\ Fairness

-----------------------------------------------------------------------------
\* Types.
TypeOK ==
  /\ daemon.engine \in {"user", "other", "myna"} /\ daemon.wants \in {"user", "other"}
  /\ daemon.focus \in Contexts /\ daemon.secret \subseteq Fields
  /\ lease.b \in {"Pending", "Unnamed", "Context", "Away", "Left", "Unfocused", "Lost"}
  /\ lease.path \in Contexts \cup {None} /\ lease.blip \in {"over", "window", "grace"}
  /\ told \in Contexts \cup {None} /\ owed \in {None, "user", "other"}
  /\ step \in {"idle", "connect", "read", "switch", "arrive", "check", "settle", "taken",
               "open", "standing", "writing", "settling", "flushing", "restoring", "ended"}
  /\ reg.switch \in 1..SWITCHES /\ target.texts \in 0..MaxTexts

\* All the text of one utterance that is written with focus on a field, as far
\* as the daemon told the engine, is written to the same field: no blip, late
\* call of an earlier release or first focus without a name moves it.
OneField ==
  TypeOK /\ Cardinality({screen.text[i].at : i \in DOMAIN screen.text} \cap Fields) <= 1

\* Text held over a focus blip is written after it in the order it was
\* committed, once, and before any later text; nothing of it is skipped unless
\* a secure field refused it.
InOrder ==
  \A i \in DOMAIN screen.text :
    /\ i > 1 => screen.text[i].n > screen.text[i - 1].n
    /\ daemon.secret = {} => screen.text[i].n = i

\* No text is written to a field that the daemon already declared secure, even
\* when the declaration came while the engine was being made global.
SecretKept == \A i \in DOMAIN screen.text : ~screen.text[i].leak

\* Between utterances the input method the user or the Shell chose last is the
\* global one, even when it was chosen during the utterance or while our engine
\* was being made global; except when it was chosen between a look at the
\* global engine and the switch that followed.
ChoiceKept == step = "idle" /\ ~undone => daemon.engine = daemon.wants

\* Between utterances Myna's engine is not the global one and shows no preedit,
\* however the utterance ended, and the user's choice stands.
HandsBack == step = "idle" => daemon.engine # "myna" /\ ~screen.preedit /\ ChoiceKept

\* Every acquire, write and release comes to its end, whatever focus does.
Ends == step \notin {"idle", "open", "ended"} ~> step \in {"idle", "open", "ended"}
-----------------------------------------------------------------------------
\* IbusTarget::release: "An engine taken is owed nothing, neither held text nor
\* a restore."
TakenIsKept == step = "idle" => daemon.engine = daemon.wants
=============================================================================
