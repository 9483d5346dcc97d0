------------------------------ MODULE HostLog -------------------------------
(***************************************************************************)
(* The alerts of HostResolveLogState (host_resolve.py) about rules with    *)
(* @host, raised by the passes of sync_file (apply.py).  An outage begins  *)
(* with an ALERT and is repeated as an ERROR at most once an hour; so does *)
(* a spell in which a name has several addresses.  Rules come and go, and  *)
(* a restart of the daemon forgets every episode.                          *)
(***************************************************************************)
EXTENDS Naturals

CONSTANTS
  Files,     \* drop-ins (table, chain, basename)
  Suffixes,  \* what rule_tag_key leaves of a tag
  Hour       \* HOST_CHECK_INTERVAL_SEC, in units of time

ASSUME HourAssumption == Hour \in Nat \ {0}

Rules == Files \X Suffixes

\* What the hosts of a rule resolve to: some of them to nothing, all of them to
\* one address each, or some to several.
Answers == {"none", "one", "many"}
Kinds == {"fail", "multi"}

VARIABLES
  present,   \* rules with @host that the drop-ins hold
  episodes,  \* episodes[kind][key]: episodes and multi_a_episodes
  logged,    \* what the last pass over a rule has logged: <<rule, kind, level>>
  answers,   \* history: each rule's answers in its last two passes
  quiet      \* history: time since each rule's last message of each kind

hostLogVars == <<present, episodes, logged, answers, quiet>>

\* last is the age of last_hourly_error, up to an hour.
Episode == [failing : BOOLEAN, alert_sent : BOOLEAN, last : 0 .. Hour]
Fresh == [failing |-> FALSE, alert_sent |-> FALSE, last |-> Hour]

ForgetAll ==
  /\ episodes' = [kind \in Kinds |-> [key \in Rules |-> Fresh]]
  /\ answers' = [r \in Rules |-> <<"one", "one">>]
  /\ quiet' = [kind \in Kinds |-> [r \in Rules |-> Hour]]
  /\ logged' = {}

HostLogInit ==
  /\ present \in SUBSET Rules
  /\ episodes = [kind \in Kinds |-> [key \in Rules |-> Fresh]]
  /\ logged = {}
  /\ answers = [r \in Rules |-> <<"one", "one">>]
  /\ quiet = [kind \in Kinds |-> [r \in Rules |-> Hour]]

-----------------------------------------------------------------------------
\* The key of a rule's episode.
Key_OfFile(r) == <<r[1], CHOOSE s \in Suffixes : TRUE>>
Key(r) == r

Opened(e) == IF e.failing THEN e ELSE [Fresh EXCEPT !.failing = TRUE]

\* The message an episode calls for in a pass, and what the pass makes of it.
LevelOf(e) ==
  IF ~Opened(e).alert_sent THEN "ALERT"
  ELSE IF e.last = Hour THEN "ERROR" ELSE "silent"

Raised_SameHour(e) == [Opened(e) EXCEPT !.alert_sent = TRUE, !.last = IF LevelOf(e) = "ALERT" THEN 0 ELSE @]
Raised(e) == [Opened(e) EXCEPT !.alert_sent = TRUE, !.last = IF LevelOf(e) = "silent" THEN @ ELSE 0]

\* notify, then notify_multi_a: which of the two has something to raise.
Bad(answer, kind) ==
  \/ answer = "none" /\ kind = "fail"
  \/ answer = "many" /\ kind = "multi"

\* Without a cause the episode ends; multi_a_episodes drops its entry.
After(answer, kind, e) == IF Bad(answer, kind) THEN Raised(e) ELSE Fresh

\* A pass over rule r: sync_file's calls for one block.
Notify(r, answer) ==
  /\ r \in present
  /\ episodes' = [kind \in Kinds |->
       [episodes[kind] EXCEPT ![Key(r)] = After(answer, kind, @)]]
  /\ logged' = {<<r, kind, LevelOf(episodes[kind][Key(r)])>> : kind \in {k \in Kinds : Bad(answer, k)}}
  /\ answers' = [answers EXCEPT ![r] = <<@[2], answer>>]
  /\ quiet' = [kind \in Kinds |-> [quiet[kind] EXCEPT ![r] =
       IF Bad(answer, kind) /\ LevelOf(episodes[kind][Key(r)]) # "silent" THEN 0 ELSE @]]
  /\ UNCHANGED present

Grown(age) == IF age = Hour THEN age ELSE age + 1

TimePasses ==
  /\ episodes' = [kind \in Kinds |-> [key \in Rules |->
       [episodes[kind][key] EXCEPT !.last = Grown(@)]]]
  /\ quiet' = [kind \in Kinds |-> [r \in Rules |-> Grown(quiet[kind][r])]]
  /\ logged' = {}
  /\ UNCHANGED <<present, answers>>

\* An edit of a drop-in.  The episodes of a rule that is gone stay.
EditRules ==
  /\ present' \in SUBSET Rules
  /\ logged' = {}
  /\ UNCHANGED <<episodes, answers, quiet>>

RestartLog == ForgetAll /\ UNCHANGED present

HostLogNext ==
  \/ \E r \in Rules, answer \in Answers : Notify(r, answer)
  \/ TimePasses \/ EditRules \/ RestartLog

HostLogSpec == HostLogInit /\ [][HostLogNext]_hostLogVars

-----------------------------------------------------------------------------
\* Properties.

\* Type invariant.
HostLogTypeOK ==
  /\ present \subseteq Rules
  /\ episodes \in [Kinds -> [Rules -> Episode]]
  /\ logged \subseteq Rules \X Kinds \X {"ALERT", "ERROR", "silent"}
  /\ answers \in [Rules -> Answers \X Answers]
  /\ quiet \in [Kinds -> [Rules -> 0 .. Hour]]

\* A rule is alerted about exactly when its trouble begins or becomes another, as
\* seen from pass to pass since the daemon started (host_resolve.py:164-209,
\* README.md:149): the flags of the two kinds of episode, which outlive the rule
\* itself, follow the answers of DNS and mix up neither kinds nor rules.
AlertsOnChange ==
  \A m \in logged : m[3] = "ALERT" <=> answers[m[1]][1] # answers[m[1]][2]

\* While the trouble lasts its messages are an hour apart, and a pass that comes an
\* hour after the last one does not stay silent (README.md:149).
RemindedHourly ==
  [][\A m \in logged' :
       LET r == m[1]
           lasts == answers[r][2] = answers'[r][2]
       IN m[3] = "ERROR" <=> lasts /\ quiet[m[2]][r] = Hour]_hostLogVars

=============================================================================
