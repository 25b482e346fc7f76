------------------------- MODULE OperationsLoopProofs -------------------------
(***************************************************************************)
(* Theorems about AlertMail, for every number of dispatches that overlap,  *)
(* any conditions and settings, and any interval between two mails; and,   *)
(* further down, about StatusHistory, which the same loop drives.          *)
(***************************************************************************)
EXTENDS AlertMail, StatusHistory, TLAPS

(* A dispatch that is alone has been the only one since it read the state. *)
AloneInv ==
    \A r \in Runs : Started(r) /\ run[r].alone => \A p \in Runs \ {r} : ~Started(p)

(* What such a dispatch knows is still so: when it has mailed about a key, *)
(* when the key was last mailed about, and that a mail to come is due.     *)
KnownInv ==
    \A r \in Runs, k \in Keys : Started(r) /\ run[r].alone =>
        /\ k \in run[r].send /\ run[r].step = "save" => run[r].current[k].sent = last[k]
        /\ /\ k \in DOMAIN run[r].current /\ k \notin torn /\ last[k] # Never
           /\ k \notin run[r].send \/ run[r].step = "mail"
           => run[r].current[k].sent = last[k]
        /\ run[r].step = "mail" /\ k \in run[r].send \ torn /\ last[k] # Never
           => last[k] >= Repeat

IInv ==
    /\ TypeOK
    /\ AloneInv
    /\ KnownInv
    /\ MailsAreRemembered

-----------------------------------------------------------------------------
(* What the state holds *)

LEMMA StateParts ==
    ASSUME NEW s \in States
    PROVE  /\ DOMAIN s \subseteq Keys
           /\ \A k \in DOMAIN s : s[k] \in Entry
BY DEF States

LEMMA StateMade ==
    ASSUME NEW K \in SUBSET Keys, NEW s \in [K -> Entry] PROVE s \in States
BY DEF States

LEMMA Reading ==
    ASSUME TypeOK, NEW r \in Runs, Busy(r), run[r].step = "read"
    PROVE  /\ run[r].found \in [Conditions -> Levels]
           /\ run[r].by \in Settings
           /\ run[r].quiet \in BOOLEAN
BY DEF TypeOK, Work, Busy, None

LEMMA Working ==
    ASSUME TypeOK, NEW r \in Runs, Started(r)
    PROVE  /\ Busy(r) /\ run[r].step \in {"mail", "save"}
           /\ run[r].current \in States
           /\ run[r].send \subseteq DOMAIN run[r].current
           /\ run[r].send \subseteq Keys
           /\ run[r].alone \in BOOLEAN
BY DEF TypeOK, Work, Busy, Started, None

LEMMA SentIs ==
    ASSUME TypeOK, NEW k PROVE Sent(k) \in MailAges \cup {Never}
BY StateParts DEF TypeOK, Sent, Entry

LEMMA CurrentIs ==
    ASSUME TypeOK, NEW found \in [Conditions -> Levels]
    PROVE  /\ Current(found) \in States
           /\ \A k \in DOMAIN Current(found) : Current(found)[k].sent = Sent(k)
<1> DEFINE on == {c \in Conditions : found[c] # "none"}
<1> DEFINE K == {Key(c, found[c]) : c \in on}
<1> DEFINE of(k) == found[CHOOSE c \in on : k = Key(c, found[c])]
<1>1. Current(found) = [k \in K |-> [severity |-> of(k), sent |-> Sent(k)]]
  BY DEF Current
<1>2. \A c \in on : found[c] \in {"critical", "warning"}
  BY DEF Levels
<1>3. K \subseteq Keys
  BY <1>2 DEF Keys
<1>4. ASSUME NEW k \in K PROVE of(k) \in {"critical", "warning"}
  BY <1>2
<1> HIDE DEF K, of
<1>5. Current(found) \in [K -> Entry]
  BY <1>1, <1>4, SentIs DEF Entry
<1> QED
  BY <1>1, <1>3, <1>5, StateMade

LEMMA DueIs ==
    ASSUME TypeOK, NEW r \in Runs, Busy(r), run[r].step = "read",
           NEW current \in States
    PROVE  /\ Due(run[r], current) \subseteq DOMAIN current
           /\ \A k \in Due(run[r], current) : Sent(k) # Never => Sent(k) >= Repeat
BY DEF Due, Eligible

(* As time goes on, a mail that was made stays one, and due stays due.     *)
LEMMA AgesKept ==
    ASSUME NEW a \in MailAges \cup {Never}
    PROVE  /\ OlderMail(a) \in MailAges \cup {Never}
           /\ OlderMail(a) = Never <=> a = Never
           /\ a # Never /\ a >= Repeat => OlderMail(a) >= Repeat
<1> USE MailAssumption
<1>1. CASE a = Never
  BY <1>1 DEF OlderMail
<1>2. CASE a # Never
  BY <1>2 DEF OlderMail, MailAges
<1> QED
  BY <1>1, <1>2

LEMMA Aging ==
    ASSUME NEW s \in States
    PROVE  /\ OlderMails(s) \in States
           /\ DOMAIN OlderMails(s) = DOMAIN s
           /\ \A k \in DOMAIN s : OlderMails(s)[k].sent = OlderMail(s[k].sent)
<1>1. \A k \in DOMAIN s : s[k] \in Entry
  BY StateParts
<1>2. \A k \in DOMAIN s :
        /\ [s[k] EXCEPT !.sent = OlderMail(@)] \in Entry
        /\ [s[k] EXCEPT !.sent = OlderMail(@)].sent = OlderMail(s[k].sent)
  BY <1>1, AgesKept DEF Entry
<1>3. OlderMails(s) \in [DOMAIN s -> Entry]
  BY <1>2 DEF OlderMails
<1> QED
  BY <1>2, <1>3, StateParts, StateMade DEF OlderMails

-----------------------------------------------------------------------------
(* Types *)

LEMMA TypeStep == ASSUME TypeOK, [Next]_vars PROVE TypeOK'
<1> USE MailAssumption
<1>1. ASSUME UNCHANGED vars PROVE TypeOK'
  BY <1>1 DEF TypeOK, vars
<1>2. ASSUME NEW r \in Runs, Evaluate(r) PROVE TypeOK'
  <2>1. [step |-> "read", found |-> level, by |-> settings,
         quiet |-> settings.suppress /\ maintenance] \in Work
    BY DEF TypeOK, Work
  <2> QED
    BY <1>2, <2>1 DEF TypeOK, Evaluate
<1>3. ASSUME NEW r \in Runs, ReadState(r) PROVE TypeOK'
  <2> DEFINE current == Current(run[r].found)
  <2> DEFINE work == [step |-> "mail", current |-> current,
                      send |-> IF run[r].by.mail THEN Due(run[r], current) ELSE {},
                      alone |-> \A p \in Runs \ {r} : ~Started(p)]
  <2>1. current \in States
    BY <1>3, Reading, CurrentIs DEF ReadState
  <2>2. work \in Work
    <3>1. Due(run[r], current) \subseteq DOMAIN current /\ DOMAIN current \subseteq Keys
      BY <1>3, <2>1, DueIs, StateParts DEF ReadState
    <3>2. (\A p \in Runs \ {r} : ~Started(p)) \in BOOLEAN
      OBVIOUS
    <3> HIDE DEF current
    <3> QED
      BY <2>1, <3>1, <3>2 DEF Work
  <2>3. \A q \in Runs : Started(q) => [run[q] EXCEPT !.alone = FALSE] \in Work
    BY DEF TypeOK, Started, Busy, Work, None
  <2>4. /\ run' = [q \in Runs |-> IF q = r THEN work
                               ELSE IF Started(q) THEN [run[q] EXCEPT !.alone = FALSE]
                               ELSE run[q]]
        /\ UNCHANGED <<level, maintenance, settings, stored, last, torn, crashes>>
    BY <1>3 DEF ReadState
  <2> HIDE DEF work
  <2> QED
    BY <2>2, <2>3, <2>4 DEF TypeOK
<1>4. ASSUME NEW r \in Runs, Mail(r) PROVE TypeOK'
  <2> DEFINE mailed == [k \in DOMAIN run[r].current |->
                          IF k \in run[r].send THEN [run[r].current[k] EXCEPT !.sent = 0]
                          ELSE run[r].current[k]]
  <2>1. /\ run[r].current \in States /\ run[r].send \subseteq DOMAIN run[r].current
        /\ run[r] \in Work /\ run[r].step = "mail"
    BY <1>4, Working DEF Mail, Started, Busy, TypeOK
  <2>2. mailed \in States
    <3>1. mailed \in [DOMAIN run[r].current -> Entry]
      <4>1. 0 \in MailAges /\ \A k \in DOMAIN run[r].current : run[r].current[k] \in Entry
        BY <2>1, StateParts DEF MailAges
      <4> QED
        BY <4>1 DEF Entry
    <3> QED
      BY <2>1, <3>1, StateParts, StateMade
  <2>3. [run[r] EXCEPT !.step = "save", !.current = mailed] \in Work
    <3>1. DOMAIN mailed = DOMAIN run[r].current
      OBVIOUS
    <3> HIDE DEF mailed
    <3> QED
      BY <2>1, <2>2, <3>1 DEF Work
  <2>4. run' = [run EXCEPT ![r] = [run[r] EXCEPT !.step = "save", !.current = mailed]]
    BY <1>4 DEF Mail, TypeOK
  <2> HIDE DEF mailed
  <2> QED
    <3>1. last' \in [Keys -> MailAges \cup {Never}]
      BY <1>4 DEF TypeOK, Mail, MailAges
    <3>2. run' \in [Runs -> Work \cup {None}]
      BY <2>3, <2>4 DEF TypeOK
    <3> QED
      BY <1>4, <3>1, <3>2 DEF TypeOK, Mail
<1>5. ASSUME NEW r \in Runs, Save(r) PROVE TypeOK'
  <2>1. run[r].current \in States /\ DOMAIN run[r].current \subseteq Keys
    BY <1>5, Working, StateParts DEF Save, Started
  <2> QED
    BY <1>5, <2>1 DEF TypeOK, Save
<1>6. ASSUME NEW gone \in SUBSET Runs, Die(gone) PROVE TypeOK'
  <2>1. \A r \in gone : Started(r) => run[r].send \subseteq Keys
    BY Working
  <2>2. torn' \subseteq Keys
    BY <1>6, <2>1 DEF TypeOK, Die
  <2> QED
    BY <1>6, <2>2 DEF TypeOK, Die
<1>7. ASSUME NEW c \in Conditions, NEW new \in Levels, Change(c, new) PROVE TypeOK'
  BY <1>7 DEF TypeOK, Change
<1>8. ASSUME NEW new \in Settings, Configure(new) PROVE TypeOK'
  BY <1>8 DEF TypeOK, Configure
<1>9. ASSUME ToggleMaintenance PROVE TypeOK'
  BY <1>9 DEF TypeOK, ToggleMaintenance
<1>10. ASSUME Tick PROVE TypeOK'
  <2>1. stored' \in States
    BY <1>10, Aging DEF TypeOK, Tick
  <2>2. last' \in [Keys -> MailAges \cup {Never}]
    BY <1>10, AgesKept DEF TypeOK, Tick
  <2>3. ASSUME NEW r \in Runs, Started(r)
        PROVE  [run[r] EXCEPT !.current = OlderMails(@)] \in Work
    <3>1. run[r].current \in States /\ run[r] \in Work /\ run[r].step \in {"mail", "save"}
      BY <2>3, Working DEF TypeOK, Started, Busy
    <3>2. /\ OlderMails(run[r].current) \in States
          /\ DOMAIN OlderMails(run[r].current) = DOMAIN run[r].current
      BY <3>1, Aging
    <3> QED
      BY <3>1, <3>2 DEF Work
  <2>4. run' \in [Runs -> Work \cup {None}]
    BY <1>10, <2>3 DEF TypeOK, Tick
  <2> QED
    BY <1>10, <2>1, <2>2, <2>4 DEF TypeOK, Tick
<1> QED
  BY <1>1, <1>2, <1>3, <1>4, <1>5, <1>6, <1>7, <1>8, <1>9, <1>10 DEF Next, Dispatch

-----------------------------------------------------------------------------
(* What dispatches know of each other's mails *)

Known == AloneInv /\ KnownInv /\ MailsAreRemembered

(* Nothing changes for them.                                               *)
LEMMA KnownFrame ==
    ASSUME Known, UNCHANGED <<stored, last, torn>>,
           \A r \in Runs : /\ Started(r)' <=> Started(r)
                           /\ Started(r) => run'[r] = run[r]
    PROVE  Known'
<1>1. AloneInv'
  BY DEF Known, AloneInv
<1>2. MailsAreRemembered'
  BY DEF Known, MailsAreRemembered
<1>3. KnownInv'
  BY DEF Known, KnownInv
<1> QED
  BY <1>1, <1>2, <1>3 DEF Known

(* Time goes on for all of them alike.                                     *)
LEMMA TickStep ==
    ASSUME TypeOK, Known, Tick
    PROVE  Known'
<1>1. ASSUME NEW r \in Runs
      PROVE  /\ Started(r)' <=> Started(r)
             /\ Started(r) =>
                   /\ run'[r].step = run[r].step /\ run'[r].send = run[r].send
                   /\ run'[r].alone = run[r].alone
                   /\ DOMAIN run'[r].current = DOMAIN run[r].current
                   /\ \A k \in DOMAIN run[r].current :
                         run'[r].current[k].sent = OlderMail(run[r].current[k].sent)
  <2>1. CASE Started(r)
    <3>1. run[r] \in Work /\ run[r].current \in States /\ run[r].step \in {"mail", "save"}
      BY <2>1, Working DEF TypeOK, Started, Busy
    <3>2. run'[r] = [run[r] EXCEPT !.current = OlderMails(run[r].current)]
      BY <2>1 DEF Tick
    <3>3. /\ run'[r].step = run[r].step /\ run'[r].send = run[r].send
          /\ run'[r].alone = run[r].alone /\ run'[r].current = OlderMails(run[r].current)
      BY <3>1, <3>2 DEF Work
    <3>4. Started(r)'
      BY <3>1, <3>3 DEF Started, Busy, None
    <3> QED
      BY <2>1, <3>1, <3>3, <3>4, Aging
  <2>2. CASE ~Started(r)
    BY <2>2 DEF Tick, Started, Busy
  <2> QED
    BY <2>1, <2>2
<1>2. \A k \in Keys :
        /\ last'[k] = OlderMail(last[k])
        /\ last'[k] = Never <=> last[k] = Never
        /\ last[k] # Never /\ last[k] >= Repeat => last'[k] >= Repeat
  <2> SUFFICES ASSUME NEW k \in Keys
               PROVE  /\ last'[k] = OlderMail(last[k])
                      /\ last'[k] = Never <=> last[k] = Never
                      /\ last[k] # Never /\ last[k] >= Repeat => last'[k] >= Repeat
    OBVIOUS
  <2>1. last'[k] = OlderMail(last[k]) /\ last[k] \in MailAges \cup {Never}
    BY DEF Tick, TypeOK
  <2> QED
    BY <2>1, AgesKept
<1>3. /\ DOMAIN stored' = DOMAIN stored /\ torn' = torn
      /\ \A k \in DOMAIN stored : stored'[k].sent = OlderMail(stored[k].sent)
  BY Aging DEF Tick, TypeOK
<1>4. AloneInv'
  BY <1>1 DEF Known, AloneInv
<1>5. MailsAreRemembered'
  <2> SUFFICES ASSUME NEW k \in Keys, last'[k] # Never, k \notin torn
               PROVE  \/ k \in DOMAIN stored' /\ stored'[k].sent = last'[k]
                      \/ \E r \in Runs : Started(r)' /\ k \in run'[r].send
    BY <1>3 DEF MailsAreRemembered
  <2>1. CASE k \in DOMAIN stored /\ stored[k].sent = last[k]
    BY <1>2, <1>3, <2>1
  <2>2. CASE \E r \in Runs : Started(r) /\ k \in run[r].send
    BY <1>1, <2>2
  <2> QED
    BY <1>2, <2>1, <2>2 DEF Known, MailsAreRemembered
<1>6. KnownInv'
  <2> SUFFICES ASSUME NEW r \in Runs, NEW k \in Keys, Started(r)', run'[r].alone
               PROVE  /\ k \in run'[r].send /\ run'[r].step = "save"
                         => run'[r].current[k].sent = last'[k]
                      /\ /\ k \in DOMAIN run'[r].current /\ k \notin torn' /\ last'[k] # Never
                         /\ k \notin run'[r].send \/ run'[r].step = "mail"
                         => run'[r].current[k].sent = last'[k]
                      /\ run'[r].step = "mail" /\ k \in run'[r].send \ torn' /\ last'[k] # Never
                         => last'[k] >= Repeat
    BY DEF KnownInv
  <2>1. Started(r) /\ run[r].alone /\ run[r].send \subseteq DOMAIN run[r].current
    BY <1>1, Working
  <2>2. /\ k \in run[r].send /\ run[r].step = "save" => run[r].current[k].sent = last[k]
        /\ /\ k \in DOMAIN run[r].current /\ k \notin torn /\ last[k] # Never
           /\ k \notin run[r].send \/ run[r].step = "mail"
           => run[r].current[k].sent = last[k]
        /\ run[r].step = "mail" /\ k \in run[r].send \ torn /\ last[k] # Never
           => last[k] >= Repeat
    BY <2>1 DEF Known, KnownInv
  <2> QED
    BY <1>1, <1>2, <1>3, <2>1, <2>2
<1> QED
  BY <1>4, <1>5, <1>6 DEF Known

(* A dispatch that starts while another is under way ends the solitude of  *)
(* all; one that starts alone finds every mail that was made in the state. *)
LEMMA ReadStep ==
    ASSUME TypeOK, TypeOK', Known, NEW r \in Runs, ReadState(r)
    PROVE  Known'
<1> USE MailAssumption
<1> DEFINE current == Current(run[r].found)
<1> DEFINE due == IF run[r].by.mail THEN Due(run[r], current) ELSE {}
<1>1. /\ ~Started(r) /\ Started(r)' /\ run'[r].step = "mail"
      /\ run'[r].current = current /\ run'[r].send = due
      /\ run'[r].alone <=> \A p \in Runs \ {r} : ~Started(p)
      /\ UNCHANGED <<stored, last, torn>>
  BY DEF ReadState, Started, Busy, None
<1>2. \A q \in Runs \ {r} :
         /\ Started(q)' <=> Started(q)
         /\ Started(q) => /\ ~run'[q].alone /\ run'[q].send = run[q].send
  <2> SUFFICES ASSUME NEW q \in Runs \ {r}
               PROVE  /\ Started(q)' <=> Started(q)
                      /\ Started(q) => /\ ~run'[q].alone /\ run'[q].send = run[q].send
    OBVIOUS
  <2>1. CASE Started(q)
    <3>1. run[q] \in Work /\ run[q].step \in {"mail", "save"}
      BY <2>1, Working DEF TypeOK, Started, Busy
    <3>2. run'[q] = [run[q] EXCEPT !.alone = FALSE]
      BY <2>1 DEF ReadState
    <3>3. run'[q].step = run[q].step /\ ~run'[q].alone /\ run'[q].send = run[q].send
      BY <3>1, <3>2 DEF Work
    <3> QED
      BY <2>1, <3>1, <3>3 DEF Started, Busy, None
  <2>2. CASE ~Started(q)
    BY <2>2 DEF ReadState, Started, Busy
  <2> QED
    BY <2>1, <2>2
<1>3. AloneInv'
  BY <1>1, <1>2 DEF AloneInv
<1>4. MailsAreRemembered'
  BY <1>1, <1>2 DEF Known, MailsAreRemembered
<1>5. ASSUME NEW k \in Keys, \A p \in Runs \ {r} : ~Started(p)
      PROVE  /\ k \in DOMAIN current => current[k].sent = Sent(k)
             /\ k \in due /\ Sent(k) # Never => Sent(k) >= Repeat
             /\ k \notin torn /\ last[k] # Never => Sent(k) = last[k]
  <2>1. /\ k \in DOMAIN current => current[k].sent = Sent(k)
        /\ k \in due /\ Sent(k) # Never => Sent(k) >= Repeat
    BY Reading, CurrentIs, DueIs DEF ReadState
  <2>2. k \notin torn /\ last[k] # Never => k \in DOMAIN stored /\ stored[k].sent = last[k]
    BY <1>1, <1>5 DEF Known, MailsAreRemembered
  <2> QED
    BY <2>1, <2>2 DEF Sent
<1> HIDE DEF current, due
<1>6. KnownInv'
  <2> SUFFICES ASSUME NEW q \in Runs, NEW k \in Keys, Started(q)', run'[q].alone
               PROVE  /\ k \in run'[q].send /\ run'[q].step = "save"
                         => run'[q].current[k].sent = last'[k]
                      /\ /\ k \in DOMAIN run'[q].current /\ k \notin torn' /\ last'[k] # Never
                         /\ k \notin run'[q].send \/ run'[q].step = "mail"
                         => run'[q].current[k].sent = last'[k]
                      /\ run'[q].step = "mail" /\ k \in run'[q].send \ torn' /\ last'[k] # Never
                         => last'[k] >= Repeat
    BY DEF KnownInv
  <2>1. q = r /\ \A p \in Runs \ {r} : ~Started(p)
    BY <1>1, <1>2
  <2> QED
    BY <1>1, <1>5, <2>1
<1> QED
  BY <1>3, <1>4, <1>6 DEF Known

LEMMA MailStep ==
    ASSUME TypeOK, TypeOK', Known, NEW r \in Runs, Mail(r)
    PROVE  Known'
<1> USE MailAssumption
<1>1. /\ Started(r) /\ Started(r)' /\ run[r].step = "mail" /\ run'[r].step = "save"
      /\ run'[r].send = run[r].send /\ run'[r].alone = run[r].alone
      /\ DOMAIN run'[r].current = DOMAIN run[r].current
      /\ \A k \in DOMAIN run[r].current :
            run'[r].current[k].sent = IF k \in run[r].send THEN 0 ELSE run[r].current[k].sent
  <2>1. Started(r) /\ run[r].step = "mail" /\ run[r].current \in States
    BY Working DEF Mail, Started
  <2>2. run[r] \in Work /\ \A k \in DOMAIN run[r].current : run[r].current[k] \in Entry
    BY <2>1, StateParts DEF TypeOK, Started, Busy
  <2> DEFINE mailed == [k \in DOMAIN run[r].current |->
                          IF k \in run[r].send THEN [run[r].current[k] EXCEPT !.sent = 0]
                          ELSE run[r].current[k]]
  <2>3. run'[r] = [run[r] EXCEPT !.step = "save", !.current = mailed]
    BY <2>1 DEF Mail, TypeOK
  <2>4. \A k \in DOMAIN run[r].current :
           mailed[k].sent = IF k \in run[r].send THEN 0 ELSE run[r].current[k].sent
    BY <2>2 DEF Entry
  <2>5. DOMAIN mailed = DOMAIN run[r].current
    OBVIOUS
  <2> HIDE DEF mailed
  <2>6. /\ run'[r].step = "save" /\ run'[r].current = mailed
        /\ run'[r].send = run[r].send /\ run'[r].alone = run[r].alone
    BY <2>1, <2>2, <2>3 DEF Work
  <2>7. Started(r)'
    BY <2>6 DEF Started, Busy, None
  <2> QED
    BY <2>1, <2>4, <2>5, <2>6, <2>7
<1>2. \A q \in Runs \ {r} : run'[q] = run[q]
  BY DEF Mail, TypeOK
<1>3. /\ UNCHANGED <<stored, torn>>
      /\ last' = [k \in Keys |-> IF k \in run[r].send THEN 0 ELSE last[k]]
      /\ run[r].send \subseteq DOMAIN run[r].current
  BY <1>1, Working DEF Mail
<1>4. \A q \in Runs : Started(q)' <=> Started(q)
  BY <1>1, <1>2 DEF Started, Busy
<1>5. AloneInv'
  BY <1>1, <1>2, <1>4 DEF Known, AloneInv
<1>6. MailsAreRemembered'
  BY <1>1, <1>2, <1>3, <1>4 DEF Known, MailsAreRemembered
<1>7. KnownInv'
  <2>1. ASSUME NEW q \in Runs \ {r}, Started(q), run[q].alone PROVE FALSE
    BY <1>1, <2>1 DEF Known, AloneInv
  <2> QED
    BY <1>1, <1>2, <1>3, <1>4, <2>1 DEF Known, KnownInv
<1> QED
  BY <1>5, <1>6, <1>7 DEF Known

(* The state that a dispatch stores has every mail, or the keys are torn.  *)
LEMMA SaveStep ==
    ASSUME TypeOK, TypeOK', Known, NEW r \in Runs, Save(r)
    PROVE  Known'
<1> DEFINE kept == DOMAIN run[r].current
<1>1. /\ Started(r) /\ ~Started(r)' /\ run[r].step = "save"
      /\ \A q \in Runs \ {r} : run'[q] = run[q] /\ (Started(q)' <=> Started(q))
      /\ stored' = run[r].current
      /\ last' = [k \in Keys |-> IF k \in kept THEN last[k] ELSE Never]
      /\ torn' = {k \in kept : ~run[r].alone \/ k \in torn \ run[r].send}
  BY DEF Save, TypeOK, Started, Busy, None
<1>2. AloneInv'
  BY <1>1 DEF Known, AloneInv
<1>3. MailsAreRemembered'
  <2>1. ASSUME NEW k \in Keys, last'[k] # Never, k \notin torn'
        PROVE  k \in DOMAIN stored' /\ stored'[k].sent = last'[k]
    <3>1. k \in kept /\ last'[k] = last[k] /\ run[r].alone /\ k \notin torn \ run[r].send
      BY <1>1, <2>1 DEF TypeOK
    <3> QED
      BY <1>1, <2>1, <3>1 DEF Known, KnownInv
  <2> QED
    BY <2>1 DEF MailsAreRemembered
<1>4. KnownInv'
  BY <1>1 DEF Known, KnownInv, AloneInv
<1> QED
  BY <1>2, <1>3, <1>4 DEF Known

LEMMA DieStep ==
    ASSUME TypeOK, TypeOK', Known, NEW gone \in SUBSET Runs, Die(gone)
    PROVE  Known'
<1>1. /\ UNCHANGED <<stored, last>>
      /\ torn \subseteq torn' /\ \A r \in gone : Started(r) => run[r].send \subseteq torn'
      /\ \A r \in gone : ~Started(r)'
      /\ \A r \in Runs \ gone : run'[r] = run[r] /\ (Started(r)' <=> Started(r))
  BY DEF Die, Started, Busy
<1>2. AloneInv'
  BY <1>1 DEF Known, AloneInv
<1>3. MailsAreRemembered'
  BY <1>1 DEF Known, MailsAreRemembered
<1>4. KnownInv'
  BY <1>1 DEF Known, KnownInv
<1> QED
  BY <1>2, <1>3, <1>4 DEF Known

LEMMA KnownStep == ASSUME TypeOK, TypeOK', Known, [Next]_vars PROVE Known'
<1>1. CASE UNCHANGED vars
  BY <1>1, KnownFrame DEF vars, Started, Busy
<1>2. ASSUME NEW r \in Runs, Evaluate(r) PROVE Known'
  <2>1. \A q \in Runs : (Started(q)' <=> Started(q)) /\ (Started(q) => run'[q] = run[q])
    BY <1>2 DEF Evaluate, Started, Busy, TypeOK
  <2> QED
    BY <1>2, <2>1, KnownFrame DEF Evaluate
<1>3. ASSUME NEW c \in Conditions, NEW new \in Levels, Change(c, new) PROVE Known'
  BY <1>3, KnownFrame DEF Change, Started, Busy
<1>4. ASSUME NEW new \in Settings, Configure(new) PROVE Known'
  BY <1>4, KnownFrame DEF Configure, Started, Busy
<1>5. CASE ToggleMaintenance
  BY <1>5, KnownFrame DEF ToggleMaintenance, Started, Busy
<1> QED
  BY <1>1, <1>2, <1>3, <1>4, <1>5, ReadStep, MailStep, SaveStep, DieStep, TickStep
  DEF Next, Dispatch

-----------------------------------------------------------------------------
(* The theorems *)

THEOREM Invariance == Spec => []IInv
<1>1. Init => IInv
  <2> USE MailAssumption
  <2> SUFFICES ASSUME Init PROVE IInv
    OBVIOUS
  <2>1. TypeOK
    <3>1. stored \in States
      <4>1. {} \in SUBSET Keys /\ stored \in [{} -> Entry]
        BY DEF Init
      <4> QED
        BY <4>1, StateMade
    <3>2. level \in [Conditions -> Levels]
      BY DEF Init, Levels
    <3>3. run \in [Runs -> Work \cup {None}]
      BY DEF Init
    <3>4. last \in [Keys -> MailAges \cup {Never}]
      BY DEF Init
    <3>5. crashes \in 0..MaxCrashes
      BY DEF Init
    <3>6. maintenance \in BOOLEAN /\ settings \in Settings /\ torn \subseteq Keys
      BY DEF Init
    <3> QED
      BY <3>1, <3>2, <3>3, <3>4, <3>5, <3>6 DEF TypeOK
  <2>2. \A r \in Runs : ~Started(r)
    BY DEF Init, Started, Busy
  <2>3. AloneInv /\ KnownInv /\ MailsAreRemembered
    BY <2>2 DEF Init, AloneInv, KnownInv, MailsAreRemembered
  <2> QED
    BY <2>1, <2>3 DEF IInv
<1>2. IInv /\ [Next]_vars => IInv'
  BY TypeStep, KnownStep DEF IInv, Known
<1> QED
  BY <1>1, <1>2, PTL DEF Spec

\* Dispatches find and leave a state of the shape that the next one expects.
THEOREM TypeCorrect == Spec => []TypeOK
  BY Invariance, PTL DEF IInv

\* However dispatches overlap and crash: a mail about an alert that lasts is forgotten
\* only where a crash or an overlap has touched its key.
THEOREM Remembered == Spec => []MailsAreRemembered
  BY Invariance, PTL DEF IInv

\* A dispatch that runs alone does not repeat a mail before it is due.
THEOREM Spaced == Spec => MailsAreSpaced
<1>1. IInv /\ [Next]_vars =>
        [\A r \in Runs : Mail(r) /\ run[r].alone =>
            \A k \in run[r].send \ torn : last[k] # Never => last[k] >= Repeat
        ]_<<run, last>>
  <2> SUFFICES ASSUME IInv, NEW r \in Runs, Mail(r), run[r].alone,
                      NEW k \in run[r].send \ torn, last[k] # Never
               PROVE  last[k] >= Repeat
    OBVIOUS
  <2>1. Started(r) /\ run[r].step = "mail"
    BY DEF Mail, Started
  <2>2. k \in Keys
    BY <2>1, Working DEF IInv
  <2> QED
    BY <2>1, <2>2 DEF IInv, KnownInv
<1> QED
  BY Invariance, <1>1, PTL DEF Spec, MailsAreSpaced

-----------------------------------------------------------------------------
(***************************************************************************)
(* StatusHistory, for any components, samplers and loads, and any number   *)
(* of minutes shown.                                                       *)
(***************************************************************************)

(* What a sample or a load may have to do next.                            *)
Typed(r, work) ==
    work \in Task \cup {Nothing}
      /\ (work # Nothing => work.step \notin IF r \in Crons THEN {"build", "show"} ELSE {"probe"})

LEMMA GoesOn ==
    ASSUME HistoryTypeOK, NEW r \in Samplers, NEW work, Go(r, work), Typed(r, work)
    PROVE  /\ samples' \in [Samplers -> Task \cup {Nothing}]
           /\ \A q \in Samplers : samples'[q] # Nothing =>
                 samples'[q].step \notin IF q \in Crons THEN {"build", "show"} ELSE {"probe"}
BY DEF HistoryTypeOK, Go, Typed

LEMMA WorkTyped ==
    ASSUME NEW r \in Samplers
    PROVE  /\ Typed(r, Nothing) /\ Typed(r, Step("sample")) /\ Typed(r, Step("prune"))
           /\ r \in Crons => Typed(r, Step("probe"))
           /\ Typed(r, AfterSample(r))
BY DEF Typed, Step, Task, AfterSample

LEMMA HistoryTypeStep == ASSUME HistoryTypeOK, [HistoryNext]_historyVars PROVE HistoryTypeOK'
<1> USE HistoryAssumption
<1>1. CASE UNCHANGED historyVars
  BY <1>1 DEF HistoryTypeOK, historyVars, nodeVars
<1>2. ASSUME NEW r \in Samplers, Begin(r) PROVE HistoryTypeOK'
  BY <1>2, GoesOn, WorkTyped DEF HistoryTypeOK, Begin, nodeVars
<1>3. ASSUME NEW r \in Samplers, EvaluateNodes(r) PROVE HistoryTypeOK'
  <2>1. ASSUME NEW found \in View
        PROVE  Typed(r, [step |-> "insert", found |-> found, left |-> Components])
    BY DEF Typed, Task, View
  <2>2. \E work : Go(r, work) /\ Typed(r, work)
    BY <1>3, <2>1, WorkTyped DEF EvaluateNodes
  <2>3. UNCHANGED <<nodeVars, rows, page, pruned>> /\ (Failing \/ UNCHANGED failures)
    BY <1>3 DEF EvaluateNodes, Reads
  <2> QED
    BY <2>2, <2>3, GoesOn DEF HistoryTypeOK, nodeVars, Failing
<1>4. ASSUME NEW r \in Samplers, NEW c \in Components, Insert(r, c) PROVE HistoryTypeOK'
  <2> DEFINE left == samples[r].left \ {c}
  <2> DEFINE work == IF left = {} THEN Step("prune")
                     ELSE [step |-> "insert", left |-> left,
                           found |-> [d \in left |-> samples[r].found[d]]]
  <2>1. /\ samples[r].left \subseteq Components
        /\ samples[r].found \in [samples[r].left -> Status]
    BY <1>4 DEF Insert, At, HistoryTypeOK, Task
  <2>2. Typed(r, work)
    <3>1. CASE left = {}
      BY <3>1, WorkTyped
    <3>2. CASE left # {}
      <4>1. /\ [d \in left |-> samples[r].found[d]] \in [left -> Status]
            /\ left \subseteq Components
        BY <2>1
      <4> HIDE DEF left
      <4> QED
        BY <3>2, <4>1 DEF Typed, Task
    <3> QED
      BY <3>1, <3>2
  <2>3. Go(r, work) /\ UNCHANGED <<nodeVars, page, pruned>>
    BY <1>4 DEF Insert
  <2>4. rows' \in [Components -> Rows]
    <3>1. samples[r].found[c] \in Status /\ 0 \in Ages
      BY <1>4, <2>1 DEF Insert, Ages
    <3>2. rows' = rows \/ rows' = [rows EXCEPT ![c][0] = samples[r].found[c]]
      BY <1>4 DEF Insert
    <3>3. rows \in [Components -> [Ages -> Status \cup {Nothing}]]
      BY DEF HistoryTypeOK, Rows
    <3> HIDE HistoryAssumption
    <3> QED
      BY <3>1, <3>2, <3>3 DEF Rows
  <2>5. failures' \in 0..MaxFailures
    BY <1>4 DEF Insert, HistoryTypeOK, Failing
  <2> HIDE DEF work
  <2> QED
    BY <2>2, <2>3, <2>4, <2>5, GoesOn DEF HistoryTypeOK, nodeVars
<1>5. ASSUME NEW r \in Samplers, Prune(r) PROVE HistoryTypeOK'
  <2>1. rows' \in [Components -> Rows]
    BY <1>5 DEF Prune, Pruned, HistoryTypeOK, Rows
  <2>2. pruned' \in Ages /\ failures' \in 0..MaxFailures
    BY <1>5 DEF Prune, HistoryTypeOK, Ages, Failing
  <2> QED
    BY <1>5, <2>1, <2>2, GoesOn, WorkTyped DEF HistoryTypeOK, Prune, nodeVars
<1>6. ASSUME NEW r \in Crons, Probe(r) PROVE HistoryTypeOK'
  BY <1>6, GoesOn, WorkTyped DEF HistoryTypeOK, Probe, Failing, Samplers
<1>7. ASSUME NEW r \in Loads, Build(r) PROVE HistoryTypeOK'
  <2>1. ASSUME NEW view \in View
        PROVE  r \notin Crons => Typed(r, [step |-> "show", view |-> view])
    BY DEF Typed, Task
  <2>2. r \in Samplers /\ r \notin Crons
    BY <1>7 DEF Build, At, HistoryTypeOK, Samplers
  <2> QED
    <3>1. \E work : Go(r, work) /\ Typed(r, work)
      BY <1>7, <2>1, <2>2, WorkTyped DEF Build
    <3>2. UNCHANGED <<nodeVars, rows, page, pruned>> /\ (Failing \/ UNCHANGED failures)
      BY <1>7 DEF Build, Reads
    <3> QED
      BY <2>2, <3>1, <3>2, GoesOn DEF HistoryTypeOK, nodeVars, Failing
<1>8. ASSUME NEW r \in Loads, Show(r) PROVE HistoryTypeOK'
  <2>1. samples[r].view \in View
    BY <1>8 DEF Show, At, HistoryTypeOK, Samplers, Task
  <2> QED
    BY <1>8, <2>1, GoesOn, WorkTyped DEF HistoryTypeOK, Show, nodeVars, Samplers
<1>9. ASSUME NEW r \in Samplers, Abort(r) PROVE HistoryTypeOK'
  BY <1>9, GoesOn, WorkTyped DEF HistoryTypeOK, Abort, nodeVars, Failing
<1>10. ASSUME NEW c \in Components, Beat(c) \/ ChangeNode(c) PROVE HistoryTypeOK'
  BY <1>10 DEF HistoryTypeOK, Beat, ChangeNode
<1>11. CASE TogglePage
  BY <1>11 DEF HistoryTypeOK, TogglePage
<1>12. CASE Minute
  <2>1. rows' \in [Components -> Rows]
    BY <1>12 DEF Minute, HistoryTypeOK, Older, Rows, Ages
  <2>2. silence' \in [Components -> 0..Lost] /\ pruned' \in Ages
    BY <1>12 DEF Minute, HistoryTypeOK, Grown, Ages
  <2> QED
    BY <1>12, <2>1, <2>2 DEF Minute, HistoryTypeOK
<1>13. ASSUME NEW r \in Samplers, Sample(r), r \in Crons \/ ~Probe(r) PROVE HistoryTypeOK'
  BY <1>2, <1>3, <1>4, <1>5, <1>6, <1>13 DEF Sample
<1>14. ASSUME NEW r \in Loads, Probe(r) PROVE r \in Crons
  BY <1>14 DEF Probe, At, HistoryTypeOK, Samplers
<1>15. ASSUME NEW r \in Loads, Load(r) PROVE HistoryTypeOK'
  BY <1>7, <1>8, <1>13, <1>14, <1>15 DEF Load, Samplers
<1> QED
  BY <1>1, <1>9, <1>10, <1>11, <1>12, <1>13, <1>15 DEF HistoryNext, Samplers

LEMMA BoundStep ==
    ASSUME HistoryTypeOK, HistoryIsBounded, [HistoryNext]_historyVars PROVE HistoryIsBounded'
<1> USE HistoryAssumption
<1>0. pruned \in Nat /\ \A a \in Ages : a \in Nat /\ a <= Depth
  BY DEF HistoryTypeOK, Ages
<1>1. ASSUME UNCHANGED <<rows, pruned>> PROVE HistoryIsBounded'
  BY <1>1 DEF HistoryIsBounded
<1>2. ASSUME NEW r \in Samplers, NEW c \in Components, Insert(r, c) PROVE HistoryIsBounded'
  <2>1. pruned' = pruned /\ \A d \in Components, a \in Ages : a # 0 => rows'[d][a] = rows[d][a]
    BY <1>2 DEF Insert, HistoryTypeOK, Rows
  <2> QED
    BY <1>0, <2>1 DEF HistoryIsBounded
<1>3. ASSUME NEW r \in Samplers, Prune(r) PROVE HistoryIsBounded'
  BY <1>0, <1>3 DEF Prune, Pruned, HistoryIsBounded, HistoryTypeOK, Rows
<1>4. CASE Minute
  <2>1. pruned' = IF pruned < Depth THEN pruned + 1 ELSE pruned
    BY <1>4 DEF Minute, Grown
  <2>2. ASSUME NEW c \in Components, NEW a \in Ages, rows'[c][a] # Nothing
        PROVE  \/ a = Depth /\ rows[c][a] # Nothing
               \/ a - 1 \in Ages /\ rows[c][a - 1] # Nothing
    BY <1>4, <2>2 DEF Minute, Older, Ages
  <2> QED
    BY <1>0, <2>1, <2>2 DEF HistoryIsBounded
<1>5. ASSUME NEW r \in Samplers, Sample(r) PROVE HistoryIsBounded'
  BY <1>1, <1>2, <1>3, <1>5 DEF Sample, Begin, EvaluateNodes, Probe
<1>6. ASSUME NEW r \in Loads, Load(r) PROVE HistoryIsBounded'
  BY <1>1, <1>5, <1>6 DEF Load, Build, Show, Samplers
<1> QED
  BY <1>1, <1>4, <1>5, <1>6 DEF HistoryNext, Abort, Beat, ChangeNode, TogglePage, historyVars, Samplers

LEMMA HistoryInvariance ==
    HistorySpec => [](HistoryTypeOK /\ HistoryIsBounded)
<1>1. HistoryInit => HistoryTypeOK /\ HistoryIsBounded
  <2>1. HistoryInit => /\ rows \in [Components -> Rows]
                  /\ samples \in [Samplers -> Task \cup {Nothing}]
                  /\ \A r \in Samplers : samples[r] = Nothing
    BY DEF HistoryInit, Rows
  <2> QED
    BY <2>1, HistoryAssumption DEF HistoryInit, HistoryTypeOK, HistoryIsBounded, Ages
<1>2. HistoryTypeOK /\ HistoryIsBounded /\ [HistoryNext]_historyVars
        => (HistoryTypeOK /\ HistoryIsBounded)'
  BY HistoryTypeStep, BoundStep
<1> QED
  BY <1>1, <1>2, PTL DEF HistorySpec

\* Samples and loads of the page hand on what the next step of theirs expects.
THEOREM HistoryTypeCorrect ==
    HistorySpec => []HistoryTypeOK
  BY HistoryInvariance, PTL

\* Rows older than the page shows are those that came of age since the last pruning
\* that worked, whoever samples, prunes or fails in between.
THEOREM HistoryBounded ==
    HistorySpec => []HistoryIsBounded
  BY HistoryInvariance, PTL

\* No pruning of any sampler takes a minute that the page shows.
THEOREM WindowKept ==
    HistorySpec => WindowIsKept
<1> DEFINE Keeps ==
      \/ rows' = [c \in Components |-> Older(rows[c])]
      \/ \A c \in Components, a \in 0..HistoryMinutes - 1 :
             rows[c][a] # Nothing => rows'[c][a] # Nothing
<1> USE HistoryAssumption
<1>1. ASSUME HistoryTypeOK, [HistoryNext]_historyVars, rows' # rows PROVE Keeps
  <2>1. ASSUME NEW r \in Samplers, NEW c \in Components, Insert(r, c) PROVE Keeps
    <3>1. samples[r].found[c] # Nothing
      BY <1>1, <2>1 DEF Insert, At, HistoryTypeOK, Task
    <3>2. rows' = [rows EXCEPT ![c][0] = samples[r].found[c]]
      BY <1>1, <2>1 DEF Insert
    <3> QED
      BY <1>1, <3>1, <3>2 DEF HistoryTypeOK, Rows, Ages
  <2>2. ASSUME NEW r \in Samplers, Prune(r) PROVE Keeps
    BY <1>1, <2>2 DEF Prune, Pruned, HistoryTypeOK, Rows, Ages
  <2>3. CASE Minute
    BY <2>3 DEF Minute
  <2>4. ASSUME NEW r \in Samplers, Sample(r) PROVE Keeps
    BY <1>1, <2>1, <2>2, <2>4 DEF Sample, Begin, EvaluateNodes, Probe
  <2>5. ASSUME NEW r \in Loads, Load(r) PROVE Keeps
    BY <1>1, <2>4, <2>5 DEF Load, Build, Show, Samplers
  <2> QED
    BY <1>1, <2>3, <2>4, <2>5 DEF HistoryNext, Abort, Beat, ChangeNode, TogglePage, historyVars, Samplers
<1>2. HistoryTypeOK /\ [HistoryNext]_historyVars => [Keeps]_rows
  BY <1>1
<1> QED
  BY HistoryTypeCorrect, <1>2, PTL DEF HistorySpec, WindowIsKept
=============================================================================
