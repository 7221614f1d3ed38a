---------------------------- MODULE RecurrenceField ----------------------------
(* The recurrence rule of a task or a bucket (RecurrenceField.tsx): while it *)
(* is typed, after a pause, the server says it in its own words and lists    *)
(* the next occurrences, or what it does not understand.  Answers may come   *)
(* in any order.                                                             *)
EXTENDS Naturals, Sequences, SequencesExt

CONSTANTS Texts,     \* what is typed, without the empty text
          Keys,      \* what else the occurrences depend on: the start that is chosen
          MaxTyped

Empty == ""

VARIABLES value, previewKey,
          debounce,  \* the timer runs
          asked,     \* questions under way: of which text and key, and whether still current
          result, previewError,  \* what is shown: of which text and key
          typed

vars == <<value, previewKey, debounce, asked, result, previewError, typed>>

Nothing == <<Empty, 0>>

Init ==
  /\ value \in Texts \cup {Empty} /\ previewKey \in Keys
  /\ debounce = (value # Empty) /\ asked = <<>> /\ result = Nothing /\ previewError = Nothing /\ typed = 0

\* Every change drops the timer and the question before it, and waits again.
Restarted ==
  /\ debounce' = (value' # Empty)
  /\ asked' = [i \in DOMAIN asked |-> [asked[i] EXCEPT !.current = FALSE]]

Change(text) ==
  /\ text # value /\ value' = text
  /\ typed < MaxTyped /\ typed' = typed + 1
  /\ IF text = Empty THEN result' = Nothing /\ previewError' = Nothing ELSE UNCHANGED <<result, previewError>>
  /\ Restarted
  /\ UNCHANGED previewKey

ChangeKey(key) ==
  /\ key # previewKey /\ previewKey' = key
  /\ typed < MaxTyped /\ typed' = typed + 1
  /\ UNCHANGED <<value, result, previewError>>
  /\ Restarted

Ask ==
  /\ debounce /\ debounce' = FALSE
  /\ asked' = Append(asked, [of |-> <<value, previewKey>>, current |-> TRUE])
  /\ UNCHANGED <<value, previewKey, result, previewError, typed>>

\* Faulty: whatever comes last is shown.
FoundAny(i, understood) ==
  /\ asked' = RemoveAt(asked, i)
  /\ result' = IF understood THEN asked[i].of ELSE Nothing
  /\ previewError' = IF understood THEN Nothing ELSE asked[i].of
  /\ UNCHANGED <<value, previewKey, debounce, typed>>

Found(i, understood) ==
  /\ asked' = RemoveAt(asked, i)
  /\ IF asked[i].current
     THEN /\ result' = IF understood THEN asked[i].of ELSE Nothing
          /\ previewError' = IF understood THEN Nothing ELSE asked[i].of
     ELSE UNCHANGED <<result, previewError>>
  /\ UNCHANGED <<value, previewKey, debounce, typed>>

Next ==
  \/ \E text \in Texts \cup {Empty} : Change(text)
  \/ \E key \in Keys : ChangeKey(key)
  \/ Ask
  \/ \E i \in DOMAIN asked, understood \in BOOLEAN : Found(i, understood)

Spec == Init /\ [][Next]_vars

(* ------------------------------- properties ------------------------------- *)
\* Once nothing is asked any more, what is shown is about the rule as it stands
\* and the start as it stands - or nothing is, without a rule -, however the
\* answers overtook each other.
PreviewIsOfTheRule ==
  ~debounce /\ asked = <<>> =>
    IF value = Empty THEN result = Nothing /\ previewError = Nothing
    ELSE {result, previewError} = {Nothing, <<value, previewKey>>}
================================================================================
