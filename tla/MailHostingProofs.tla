--------------------------- MODULE MailHostingProofs ---------------------------
(***************************************************************************)
(* Theorems about MailHosting, for every number of administrators'         *)
(* requests, domains, addresses and mailboxes.                             *)
(***************************************************************************)
EXTENDS MailHosting, TLAPS

(* Only a row of the table is primary, and only a save that makes its own  *)
(* domain primary clears others.                                           *)
PrimaryInv ==
    /\ \A d \in Domains : domain[d].primary => Live(d)
    /\ \A r \in Requests : Doing(r, "insert") /\ ~desk[r].primary => desk[r].held = {}

(* The foreign key: a mailbox has its domain.                              *)
BoxesLive == \A a \in Addresses : box[a] # None => Live(a.domain)

(* What a deletion has counted is gone for good: the mailboxes of its      *)
(* domain are younger than the count.                                      *)
CountedInv ==
    \A r \in Requests : Doing(r, "drop") =>
        /\ desk[r].made <= made
        /\ \A a \in Addresses :
              a.domain = desk[r].domain /\ box[a] # None => box[a].id > desk[r].made

(* What createAlias has seen is still there, unless it was overtaken.       *)
CheckedInv ==
    \A r \in Requests : Doing(r, "alias") /\ ~desk[r].late => box[desk[r].address] # None

IInv ==
    /\ TypeOK
    /\ PrimaryInv
    /\ OnePrimary
    /\ BoxesLive
    /\ CountedInv
    /\ CheckedInv
    /\ AliasesHaveMailboxes

-----------------------------------------------------------------------------
(* Types *)

(* A request that is in the middle of an operation knows what it needs.    *)
LEMMA Desks ==
    ASSUME TypeOK, NEW r \in Requests
    PROVE  /\ Doing(r, "insert") => /\ desk[r].domain \in Domains
                                    /\ desk[r].primary \in BOOLEAN
                                    /\ desk[r].held \subseteq Domains
           /\ Doing(r, "save") => desk[r].domain \in Domains /\ desk[r].wanted \subseteq Domains
           /\ Doing(r, "drop") => desk[r].domain \in Domains /\ desk[r].made \in 0..MaxBoxes
           /\ Doing(r, "mailbox") \/ Doing(r, "unalias") => desk[r].address \in Addresses
           /\ Doing(r, "update") => /\ desk[r].address \in Addresses
                                    /\ desk[r].id \in 1..MaxBoxes /\ desk[r].enabled \in BOOLEAN
           /\ Doing(r, "target") \/ Doing(r, "alias") =>
                 desk[r].source \in Addresses /\ desk[r].address \in Addresses
           /\ Doing(r, "alias") => desk[r].late \in BOOLEAN
BY DEF TypeOK, Doing, Work

(* A deletion moves its own request on, and makes others late.             *)
LEMMA OvertakenDesks ==
    ASSUME TypeOK, NEW targets, NEW r \in Requests, NEW work \in Work \cup {None},
           desk' = [Overtaken(targets) EXCEPT ![r] = work]
    PROVE  /\ desk' \in [Requests -> Work \cup {None}]
           /\ desk'[r] = work
           /\ \A q \in Requests \ {r} :
                 /\ ~Doing(q, "alias") => desk'[q] = desk[q]
                 /\ Doing(q, "alias") => /\ desk'[q] # None /\ desk'[q].op = "alias"
                                         /\ desk'[q].address = desk[q].address
                                         /\ desk[q].late => desk'[q].late
                                         /\ desk[q].address \in targets => desk'[q].late
<1> USE HostingAssumption
<1>1. ASSUME NEW q \in Requests, Doing(q, "alias")
      PROVE  /\ desk[q] \in [op : {"alias"}, source : Addresses, address : Addresses, late : BOOLEAN]
             /\ [desk[q] EXCEPT !.late = TRUE] \in
                  [op : {"alias"}, source : Addresses, address : Addresses, late : {TRUE}]
             /\ [desk[q] EXCEPT !.late = TRUE].address = desk[q].address
  <2>1. desk[q] \in [op : {"alias"}, source : Addresses, address : Addresses, late : BOOLEAN]
    BY <1>1 DEF TypeOK, Doing, Work
  <2> QED
    BY <2>1
<1>2. /\ \A q \in Requests \ {r} :
            desk'[q] = IF Doing(q, "alias") /\ desk[q].address \in targets
                       THEN [desk[q] EXCEPT !.late = TRUE] ELSE desk[q]
      /\ desk'[r] = work
      /\ desk' = [q \in Requests |-> desk'[q]]
  BY DEF Overtaken
<1>3. \A q \in Requests : desk'[q] \in Work \cup {None}
  <2> TAKE q \in Requests
  <2>1. CASE q # r /\ Doing(q, "alias") /\ desk[q].address \in targets
    <3>1. desk'[q] = [desk[q] EXCEPT !.late = TRUE]
      BY <1>2, <2>1
    <3>2. desk'[q] \in [op : {"alias"}, source : Addresses, address : Addresses, late : BOOLEAN]
      BY <1>1, <2>1, <3>1
    <3> QED
      BY <3>2 DEF Work
  <2>2. CASE ~(q # r /\ Doing(q, "alias") /\ desk[q].address \in targets)
    BY <1>2, <2>2 DEF TypeOK
  <2> QED
    BY <2>1, <2>2
<1>4. desk' \in [Requests -> Work \cup {None}]
  BY <1>2, <1>3
<1>5. ASSUME NEW q \in Requests \ {r}, Doing(q, "alias")
      PROVE  /\ desk'[q] # None /\ desk'[q].op = "alias"
             /\ desk'[q].address = desk[q].address
             /\ desk[q].late => desk'[q].late
             /\ desk[q].address \in targets => desk'[q].late
  <2>1. CASE desk[q].address \in targets
    <3>1. desk'[q] = [desk[q] EXCEPT !.late = TRUE]
      BY <1>2, <1>5, <2>1
    <3>2. /\ desk'[q].op = "alias" /\ desk'[q].late /\ desk'[q] \in Work
          /\ desk'[q].address = desk[q].address
      BY <1>1, <1>5, <3>1 DEF Work
    <3> QED
      BY <3>2
  <2>2. CASE desk[q].address \notin targets
    BY <1>2, <1>5, <2>2 DEF Doing
  <2> QED
    BY <2>1, <2>2
<1> QED
  BY <1>2, <1>4, <1>5

(* Nobody else's operation becomes another.                                *)
LEMMA OvertakenDoing ==
    ASSUME TypeOK, NEW targets, NEW r \in Requests, NEW work \in Work \cup {None},
           desk' = [Overtaken(targets) EXCEPT ![r] = work],
           NEW op, op # "alias"
    PROVE  /\ work = None \/ work.op # op =>
                 \A q \in Requests : Doing(q, op)' => Doing(q, op) /\ desk'[q] = desk[q]
           /\ desk[r] = None \/ desk[r].op # op =>
                 \A q \in Requests : Doing(q, op) => Doing(q, op)' /\ desk'[q] = desk[q]
<1>1. desk'[r] = work
  BY OvertakenDesks
<1>2. ASSUME NEW q \in Requests \ {r}, Doing(q, "alias")
      PROVE  /\ desk'[q] # None /\ desk'[q].op = "alias" /\ desk'[q].address = desk[q].address
             /\ desk[q].late => desk'[q].late
             /\ desk[q].address \in targets => desk'[q].late
  BY <1>2, OvertakenDesks
<1>3. ASSUME NEW q \in Requests \ {r}, ~Doing(q, "alias") PROVE desk'[q] = desk[q]
  BY <1>3, OvertakenDesks
<1> QED
  BY <1>1, <1>2, <1>3 DEF Doing

(* And an alias on its way keeps its destination.                          *)
LEMMA OvertakenAlias ==
    ASSUME TypeOK, NEW targets, NEW r \in Requests, NEW work \in Work \cup {None},
           desk' = [Overtaken(targets) EXCEPT ![r] = work],
           work = None \/ work.op # "alias"
    PROVE  \A q \in Requests : Doing(q, "alias")' =>
               /\ Doing(q, "alias") /\ desk'[q].address = desk[q].address
               /\ desk[q].late \/ desk[q].address \in targets => desk'[q].late
<1>1. desk'[r] = work
  BY OvertakenDesks
<1>2. ASSUME NEW q \in Requests \ {r}, Doing(q, "alias")
      PROVE  /\ desk'[q].address = desk[q].address
             /\ desk[q].late => desk'[q].late
             /\ desk[q].address \in targets => desk'[q].late
  BY <1>2, OvertakenDesks
<1>3. ASSUME NEW q \in Requests \ {r}, ~Doing(q, "alias") PROVE desk'[q] = desk[q]
  BY <1>3, OvertakenDesks
<1> QED
  BY <1>1, <1>2, <1>3 DEF Doing

LEMMA TypeStep == ASSUME TypeOK, [Next]_vars PROVE TypeOK'
<1> USE HostingAssumption
<1>1. ASSUME UNCHANGED vars PROVE TypeOK'
  BY <1>1 DEF TypeOK, vars
<1>2. ASSUME NEW d \in Domains, StartCrakmail(d) PROVE TypeOK'
  BY <1>2 DEF TypeOK, StartCrakmail
<1>3. ASSUME NEW r \in Requests, Request(r) PROVE TypeOK'
  <2>1. ASSUME NEW d \in Domains, NEW yes \in BOOLEAN, StartSave(r, d, yes) PROVE TypeOK'
    BY <2>1 DEF TypeOK, StartSave, Turn, Work
  <2>2. ASSUME NEW d \in Domains, NEW yes \in BOOLEAN, SetDomainEnabled(r, d, yes) PROVE TypeOK'
    BY <2>2 DEF TypeOK, SetDomainEnabled
  <2>3. ASSUME NEW d \in Domains, CountBoxes(r, d) PROVE TypeOK'
    BY <2>3 DEF TypeOK, CountBoxes, Turn, Work
  <2>4. ASSUME NEW a \in Addresses, CheckDomain(r, a) PROVE TypeOK'
    BY <2>4 DEF TypeOK, CheckDomain, Turn, Work
  <2>5. ASSUME NEW a \in Addresses, ReadMailbox(r, a) PROVE TypeOK'
    BY <2>5 DEF TypeOK, ReadMailbox, Turn, Work, Boxes
  <2>6. ASSUME NEW a \in Addresses, DeleteMailbox(r, a) PROVE TypeOK'
    <3>1. /\ [op |-> "unalias", address |-> a] \in Work
          /\ [op |-> "unalias", address |-> a].op = "unalias"
      BY DEF Work
    <3>2. desk' \in [Requests -> Work \cup {None}]
      BY <2>6, <3>1, OvertakenDesks DEF DeleteMailbox
    <3> QED
      BY <2>6, <3>2 DEF TypeOK, DeleteMailbox
  <2>7. ASSUME NEW a \in Addresses, DeleteAlias(r, a) PROVE TypeOK'
    BY <2>7 DEF TypeOK, DeleteAlias
  <2>8. ASSUME NEW s \in Addresses, NEW a \in Addresses, CheckSource(r, s, a) PROVE TypeOK'
    BY <2>8 DEF TypeOK, CheckSource, Turn, Work
  <2>9. ASSUME ClearPrimary(r) PROVE TypeOK'
    BY <2>9 DEF TypeOK, ClearPrimary, Turn, Doing, Work
  <2>10. ASSUME InsertDomain(r) PROVE TypeOK'
    <3>1. /\ desk[r].domain \in Domains /\ desk[r].primary \in BOOLEAN
          /\ desk' = [desk EXCEPT ![r] = None]
          /\ UNCHANGED <<box, alias, made, adrift>>
      BY <2>10, Desks DEF InsertDomain, Turn
    <3>2. domain' \in [Domains -> [state : {"new", "live", "gone"}, enabled : BOOLEAN,
                                   primary : BOOLEAN]]
      <4>1. CASE domain' = domain
        BY <4>1 DEF TypeOK
      <4>2. ASSUME NEW row \in Domains,
                   domain' = [e \in Domains |->
                    IF e = row
                    THEN [state |-> "live", enabled |-> TRUE, primary |-> desk[r].primary]
                    ELSE IF e \in desk[r].held THEN [domain[e] EXCEPT !.primary = FALSE]
                    ELSE domain[e]]
            PROVE  domain' \in [Domains -> [state : {"new", "live", "gone"}, enabled : BOOLEAN,
                                            primary : BOOLEAN]]
        BY <3>1, <4>2 DEF TypeOK
      <4> QED
        BY <2>10, <3>1, <4>1, <4>2 DEF InsertDomain, RowsFor
    <3> QED
      BY <3>1, <3>2 DEF TypeOK
  <2>11. ASSUME DropDomain(r) PROVE TypeOK'
    <3>1. desk[r].domain \in Domains /\ made' = made
      BY <2>11, Desks DEF DropDomain
    <3>6. desk' \in [Requests -> Work \cup {None}]
      BY <2>11, OvertakenDesks DEF TypeOK, DropDomain, Turn
    <3>2. domain' \in [Domains -> [state : {"new", "live", "gone"}, enabled : BOOLEAN,
                                   primary : BOOLEAN]]
      <4>1. \/ domain' = domain
            \/ domain' = [domain EXCEPT ![desk[r].domain] =
                             [state |-> "gone", enabled |-> FALSE, primary |-> FALSE]]
        BY <2>11 DEF DropDomain
      <4>2. [state |-> "gone", enabled |-> FALSE, primary |-> FALSE]
               \in [state : {"new", "live", "gone"}, enabled : BOOLEAN, primary : BOOLEAN]
        OBVIOUS
      <4> HIDE HostingAssumption
      <4> QED
        BY <3>1, <4>1, <4>2 DEF TypeOK
    <3>3. box' \in [Addresses -> Boxes \cup {None}]
      BY <2>11, <3>1 DEF TypeOK, DropDomain
    <3>4. alias' \in [Addresses -> Addresses \cup {None}]
      BY <2>11, <3>1 DEF TypeOK, DropDomain
    <3>5. adrift' \subseteq Addresses
      BY <2>11 DEF TypeOK, DropDomain, AliasesTo
    <3> QED
      BY <3>1, <3>2, <3>3, <3>4, <3>5, <3>6 DEF TypeOK
  <2>12. ASSUME InsertMailbox(r) PROVE TypeOK'
    <3>1. /\ desk[r].address \in Addresses /\ desk' = [desk EXCEPT ![r] = None]
          /\ UNCHANGED <<domain, alias>>
      BY <2>12, Desks DEF InsertMailbox, Turn
    <3>2. made' \in 0..MaxBoxes /\ adrift' \subseteq Addresses
      BY <2>12 DEF TypeOK, InsertMailbox
    <3>3. box' \in [Addresses -> Boxes \cup {None}]
      <4>1. made < MaxBoxes => [id |-> NextId, enabled |-> TRUE] \in Boxes
        BY DEF TypeOK, NextId, Boxes
      <4> QED
        BY <2>12, <3>1, <4>1 DEF TypeOK, InsertMailbox
    <3> QED
      BY <3>1, <3>2, <3>3 DEF TypeOK
  <2>13. ASSUME WriteMailbox(r) PROVE TypeOK'
    BY <2>13 DEF TypeOK, WriteMailbox, Turn, Doing, Work, Boxes
  <2>14. ASSUME DeleteAliases(r) PROVE TypeOK'
    BY <2>14 DEF TypeOK, DeleteAliases, Turn
  <2>15. ASSUME CheckTarget(r) PROVE TypeOK'
    <3>1. [op |-> "alias", source |-> desk[r].source, address |-> desk[r].address,
           late |-> FALSE] \in Work
      BY <2>15, Desks DEF CheckTarget, Work
    <3>2. /\ \/ desk' = [desk EXCEPT ![r] = [op |-> "alias", source |-> desk[r].source,
                                           address |-> desk[r].address, late |-> FALSE]]
             \/ desk' = [desk EXCEPT ![r] = None]
          /\ UNCHANGED <<domain, box, alias, made, adrift>>
      BY <2>15 DEF CheckTarget, Turn
    <3>3. desk' \in [Requests -> Work \cup {None}]
      <4> DEFINE work == [op |-> "alias", source |-> desk[r].source,
                          address |-> desk[r].address, late |-> FALSE]
      <4>1. work \in Work /\ (desk' = [desk EXCEPT ![r] = work] \/ desk' = [desk EXCEPT ![r] = None])
        BY <3>1, <3>2
      <4> HIDE DEF work
      <4> QED
        BY <4>1 DEF TypeOK
    <3> QED
      BY <3>2, <3>3 DEF TypeOK
  <2>16. ASSUME InsertAlias(r) PROVE TypeOK'
    BY <2>16 DEF TypeOK, InsertAlias, Turn, Doing, Work
  <2>17. ASSUME Fail(r) PROVE TypeOK'
    BY <2>17 DEF TypeOK, Fail, Turn, AliasesTo
  <2> QED
    BY <1>3, <2>1, <2>2, <2>3, <2>4, <2>5, <2>6, <2>7, <2>8, <2>9, <2>10, <2>11, <2>12,
       <2>13, <2>14, <2>15, <2>16, <2>17 DEF Request
<1> QED
  BY <1>1, <1>2, <1>3 DEF Next

-----------------------------------------------------------------------------
(* Domains *)

(* Requests that are not in a save's transaction leave its rows and the    *)
(* primary alone.                                                          *)
LEMMA PrimaryStep ==
    ASSUME TypeOK, PrimaryInv, OnePrimary, [Next]_vars PROVE PrimaryInv' /\ OnePrimary'
<1> DEFINE Both == PrimaryInv /\ OnePrimary
<1>1. ASSUME UNCHANGED vars PROVE Both'
  BY <1>1 DEF PrimaryInv, OnePrimary, Live, Doing, vars
<1>2. ASSUME NEW d \in Domains, StartCrakmail(d) PROVE Both'
  BY <1>2 DEF TypeOK, PrimaryInv, OnePrimary, Live, Doing, StartCrakmail
<1>3. ASSUME NEW r \in Requests, Request(r) PROVE Both'
  <2>1. ASSUME NEW d \in Domains, NEW yes \in BOOLEAN, StartSave(r, d, yes) PROVE Both'
    BY <2>1 DEF TypeOK, PrimaryInv, OnePrimary, Live, Doing, StartSave, Turn
  <2>2. ASSUME NEW d \in Domains, NEW yes \in BOOLEAN, SetDomainEnabled(r, d, yes) PROVE Both'
    BY <2>2 DEF TypeOK, PrimaryInv, OnePrimary, Live, Doing, SetDomainEnabled
  <2>3. ASSUME ClearPrimary(r) PROVE Both'
    BY <2>3 DEF TypeOK, PrimaryInv, OnePrimary, Live, Doing, ClearPrimary, Turn
  <2>4. ASSUME InsertDomain(r) PROVE Both'
    <3>1. /\ desk[r].domain \in Domains /\ desk[r].primary \in BOOLEAN
          /\ desk' = [desk EXCEPT ![r] = None]
      BY <2>4, Desks DEF InsertDomain, Turn
    <3>2. OnePrimary' /\ \A d \in Domains : domain'[d].primary => domain'[d].state = "live"
      <4>1. CASE domain' = domain
        BY <4>1 DEF PrimaryInv, OnePrimary, Live
      <4>2. ASSUME Unique(r), NEW row \in RowsFor(desk[r].domain),
                   domain' = [e \in Domains |->
                    IF e = row
                    THEN [state |-> "live", enabled |-> TRUE, primary |-> desk[r].primary]
                    ELSE IF e \in desk[r].held THEN [domain[e] EXCEPT !.primary = FALSE]
                    ELSE domain[e]]
            PROVE  OnePrimary' /\ \A d \in Domains : domain'[d].primary => domain'[d].state = "live"
        <5>1. row \in Domains /\ desk[r].held \subseteq Domains
          BY <2>4, <3>1, <4>2, Desks DEF RowsFor, InsertDomain
        <5>2. domain[desk[r].domain].state = "gone" => ~domain[desk[r].domain].primary
          BY <3>1 DEF PrimaryInv, Live
        <5>3. ASSUME NEW e \in Domains
              PROVE  /\ domain'[e].primary => e = row \/ (domain[e].primary /\ e \notin desk[r].held)
                     /\ domain'[e].primary => domain'[e].state = "live"
                     /\ e = row => domain'[e].primary = desk[r].primary
          <6>1. /\ e = row => domain'[e] = [state |-> "live", enabled |-> TRUE,
                                            primary |-> desk[r].primary]
                /\ e # row /\ e \notin desk[r].held => domain'[e] = domain[e]
                /\ e # row /\ e \in desk[r].held => domain'[e].primary = FALSE
            BY <4>2, <5>3 DEF TypeOK
          <6> QED
            BY <6>1 DEF PrimaryInv, Live
        <5>4. ASSUME NEW e \in Domains, desk[r].primary, e # row
              PROVE  ~domain'[e].primary
          <6>1. CASE e = desk[r].domain
            BY <4>2, <5>2, <5>3, <5>4, <6>1 DEF RowsFor
          <6>2. CASE e # desk[r].domain
            BY <4>2, <5>3, <5>4, <6>2 DEF Unique
          <6> QED
            BY <6>1, <6>2
        <5>5. OnePrimary'
          <6>1. CASE desk[r].primary
            BY <5>4, <6>1 DEF OnePrimary
          <6>2. CASE ~desk[r].primary
            BY <5>3, <6>2 DEF OnePrimary
          <6> QED
            BY <6>1, <6>2
        <5> QED
          BY <5>3, <5>5
      <4> QED
        BY <2>4, <4>1, <4>2 DEF InsertDomain
    <3> QED
      BY <3>1, <3>2 DEF TypeOK, PrimaryInv, Live, Doing
  <2>5. ASSUME DropDomain(r) PROVE Both'
    <3>1. desk[r].domain \in Domains
      BY <2>5, Desks DEF DropDomain
    <3>2. \A q \in Requests : Doing(q, "insert")' => Doing(q, "insert") /\ desk'[q] = desk[q]
      <4>1. CASE desk' = [desk EXCEPT ![r] = None]
        BY <4>1 DEF TypeOK, Doing
      <4>2. ASSUME NEW targets, desk' = [Overtaken(targets) EXCEPT ![r] = None]
            PROVE  \A q \in Requests : Doing(q, "insert")' => Doing(q, "insert") /\ desk'[q] = desk[q]
        BY <4>2, OvertakenDoing
      <4> QED
        BY <2>5, <4>1, <4>2 DEF DropDomain, Turn
    <3>3. \A d \in Domains : domain'[d] = domain[d] \/ ~domain'[d].primary
      BY <2>5, <3>1 DEF TypeOK, DropDomain
    <3>4. PrimaryInv'
      BY <3>2, <3>3 DEF PrimaryInv, Live
    <3> QED
      BY <3>3, <3>4 DEF OnePrimary
  <2>14. ASSUME NEW a \in Addresses, DeleteMailbox(r, a) PROVE Both'
    <3>1. /\ [op |-> "unalias", address |-> a] \in Work
          /\ [op |-> "unalias", address |-> a].op = "unalias"
      BY DEF Work
    <3>2. /\ desk' = [Overtaken({a}) EXCEPT ![r] = [op |-> "unalias", address |-> a]]
          /\ domain' = domain
      BY <2>14 DEF DeleteMailbox
    <3>3. \A q \in Requests : Doing(q, "insert")' => Doing(q, "insert") /\ desk'[q] = desk[q]
      BY <3>1, <3>2, OvertakenDoing
    <3> QED
      BY <3>2, <3>3 DEF PrimaryInv, OnePrimary, Live
  <2>6. ASSUME NEW work, domain' = domain, desk' = [desk EXCEPT ![r] = work],
               work = None \/ work.op # "insert"
        PROVE  Both'
    BY <2>6 DEF TypeOK, PrimaryInv, OnePrimary, Live, Doing
  <2>7. ASSUME UNCHANGED <<domain, desk>> PROVE Both'
    BY <2>7 DEF PrimaryInv, OnePrimary, Live, Doing
  <2> HIDE DEF Both
  <2>8. ASSUME NEW d \in Domains, CountBoxes(r, d) PROVE Both'
    BY <2>6, <2>8 DEF CountBoxes, Turn
  <2>9. ASSUME NEW a \in Addresses, CheckDomain(r, a) \/ ReadMailbox(r, a)
        PROVE  Both'
    BY <2>6, <2>9 DEF CheckDomain, ReadMailbox, Turn
  <2>10. ASSUME NEW s \in Addresses, NEW a \in Addresses, CheckSource(r, s, a) PROVE Both'
    BY <2>6, <2>10 DEF CheckSource, Turn
  <2>11. ASSUME NEW a \in Addresses, DeleteAlias(r, a) PROVE Both'
    BY <2>7, <2>11 DEF DeleteAlias
  <2>12. ASSUME InsertMailbox(r) \/ WriteMailbox(r) \/ DeleteAliases(r) \/ InsertAlias(r) \/ Fail(r)
         PROVE  Both'
    BY <2>6, <2>12 DEF InsertMailbox, WriteMailbox, DeleteAliases, InsertAlias, Fail, Turn
  <2>13. ASSUME CheckTarget(r) PROVE Both'
    BY <2>6, <2>13 DEF CheckTarget, Turn
  <2> QED
    BY <1>3, <2>1, <2>2, <2>3, <2>4, <2>5, <2>8, <2>9, <2>10, <2>11, <2>12, <2>13,
       <2>14 DEF Request
<1> QED
  BY <1>1, <1>2, <1>3 DEF Next

-----------------------------------------------------------------------------
(* Mailboxes and aliases *)

LEMMA BoxStep ==
    ASSUME TypeOK, BoxesLive, CountedInv, [Next]_vars PROVE BoxesLive' /\ CountedInv'
<1> USE HostingAssumption
<1> DEFINE Both == BoxesLive /\ CountedInv
<1>1. ASSUME UNCHANGED vars PROVE Both'
  BY <1>1 DEF BoxesLive, CountedInv, Live, Doing, vars
<1>2. ASSUME NEW d \in Domains, StartCrakmail(d) PROVE Both'
  BY <1>2 DEF TypeOK, BoxesLive, CountedInv, Live, Doing, StartCrakmail, Addresses
<1>3. ASSUME NEW r \in Requests, Request(r) PROVE Both'
  <2>1. ASSUME NEW work, UNCHANGED <<box, made>>, desk' = [desk EXCEPT ![r] = work],
               work = None \/ work.op # "drop", \A d \in Domains : Live(d) => Live(d)'
        PROVE  Both'
    BY <2>1 DEF TypeOK, BoxesLive, CountedInv, Doing, Addresses
  <2>2. ASSUME NEW d \in Domains, CountBoxes(r, d) PROVE Both'
    BY <2>2 DEF TypeOK, BoxesLive, CountedInv, Live, Doing, CountBoxes, Turn, BoxesOf
  <2>3. ASSUME DropDomain(r) PROVE Both'
    <3>1. desk[r].domain \in Domains /\ made' = made
      BY <2>3, Desks DEF DropDomain
    <3>3. \A q \in Requests : Doing(q, "drop")' => Doing(q, "drop") /\ desk'[q] = desk[q]
      <4>1. CASE desk' = [desk EXCEPT ![r] = None]
        BY <4>1 DEF TypeOK, Doing
      <4>2. ASSUME NEW targets, desk' = [Overtaken(targets) EXCEPT ![r] = None]
            PROVE  \A q \in Requests : Doing(q, "drop")' => Doing(q, "drop") /\ desk'[q] = desk[q]
        BY <4>2, OvertakenDoing
      <4> QED
        BY <2>3, <4>1, <4>2 DEF DropDomain, Turn
    <3>2. \A a \in Addresses : box'[a] # None => box'[a] = box[a] /\ Live(a.domain)'
      <4>1. CASE UNCHANGED <<domain, box>>
        BY <4>1 DEF BoxesLive, Live
      <4>2. CASE /\ \A d \in Domains \ {desk[r].domain} : domain'[d] = domain[d]
                 /\ \A a \in Addresses :
                       box'[a] = IF a.domain = desk[r].domain THEN None ELSE box[a]
        BY <4>2 DEF BoxesLive, Live, Addresses
      <4> QED
        BY <2>3, <3>1, <4>1, <4>2 DEF TypeOK, DropDomain
    <3> QED
      BY <3>1, <3>2, <3>3 DEF BoxesLive, CountedInv
  <2>4. ASSUME NEW a \in Addresses, DeleteMailbox(r, a) PROVE Both'
    <3>1. /\ [op |-> "unalias", address |-> a] \in Work
          /\ [op |-> "unalias", address |-> a].op = "unalias"
      BY DEF Work
    <3>2. /\ desk' = [Overtaken({a}) EXCEPT ![r] = [op |-> "unalias", address |-> a]]
          /\ UNCHANGED <<domain, made>>
          /\ \A b \in Addresses : box'[b] # None => box'[b] = box[b]
      BY <2>4 DEF TypeOK, DeleteMailbox
    <3>3. \A q \in Requests : Doing(q, "drop")' => Doing(q, "drop") /\ desk'[q] = desk[q]
      BY <3>1, <3>2, OvertakenDoing
    <3> QED
      BY <3>2, <3>3 DEF BoxesLive, CountedInv, Live
  <2>5. ASSUME InsertMailbox(r) PROVE Both'
    <3>1. /\ desk[r].address \in Addresses /\ desk' = [desk EXCEPT ![r] = None]
          /\ domain' = domain
      BY <2>5, Desks DEF InsertMailbox, Turn
    <3>2. CASE UNCHANGED <<box, made>>
      BY <3>1, <3>2 DEF TypeOK, BoxesLive, CountedInv, Live, Doing
    <3>3. CASE /\ box' = [box EXCEPT ![desk[r].address] = [id |-> made + 1, enabled |-> TRUE]]
               /\ made' = made + 1 /\ Live(desk[r].address.domain)
      <4>1. BoxesLive'
        BY <3>1, <3>3 DEF TypeOK, BoxesLive, Live
      <4>2. \A a \in Addresses : \/ box'[a] = box[a] \/ box'[a].id = made + 1
        BY <3>3 DEF TypeOK
      <4>3. made \in Nat /\ \A q \in Requests : Doing(q, "drop") => desk[q].made \in Nat
        BY Desks DEF TypeOK
      <4>4. \A q \in Requests : Doing(q, "drop")' => Doing(q, "drop") /\ desk'[q] = desk[q]
        BY <3>1 DEF TypeOK, Doing
      <4>5. CountedInv'
        BY <3>3, <4>2, <4>3, <4>4 DEF CountedInv
      <4> QED
        BY <4>1, <4>5
    <3> QED
      BY <2>5, <3>2, <3>3 DEF InsertMailbox, NextId
  <2>6. ASSUME WriteMailbox(r) PROVE Both'
    <3>1. /\ desk[r].address \in Addresses /\ desk' = [desk EXCEPT ![r] = None]
          /\ domain' = domain /\ made' = made
      BY <2>6, Desks DEF WriteMailbox, Turn
    <3>2. \A a \in Addresses : /\ box'[a] # None => box[a] # None
                               /\ box'[a].id = box[a].id
      BY <2>6, <3>1 DEF TypeOK, Boxes, WriteMailbox
    <3> QED
      BY <3>1, <3>2 DEF TypeOK, BoxesLive, CountedInv, Live, Doing
  <2>7. ASSUME UNCHANGED <<box, made, desk>>, \A d \in Domains : Live(d) => Live(d)' PROVE Both'
    BY <2>7 DEF BoxesLive, CountedInv, Doing, Addresses
  <2> HIDE DEF Both
  <2>8. ASSUME NEW d \in Domains, NEW yes \in BOOLEAN, StartSave(r, d, yes) PROVE Both'
    BY <2>1, <2>8 DEF StartSave, Turn, Live
  <2>9. ASSUME NEW d \in Domains, NEW yes \in BOOLEAN, SetDomainEnabled(r, d, yes) PROVE Both'
    BY <2>7, <2>9 DEF SetDomainEnabled, Live, TypeOK
  <2>10. ASSUME ClearPrimary(r) PROVE Both'
    BY <2>1, <2>10 DEF ClearPrimary, Turn, Live
  <2>11. ASSUME InsertDomain(r) PROVE Both'
    <3>1. /\ desk[r].domain \in Domains /\ desk' = [desk EXCEPT ![r] = None]
          /\ UNCHANGED <<box, made>>
      BY <2>11, Desks DEF InsertDomain, Turn
    <3>2. \A d \in Domains : Live(d) => Live(d)'
      BY <2>11, <3>1 DEF TypeOK, InsertDomain, RowsFor, Live
    <3> QED
      BY <2>1, <3>1, <3>2
  <2>12. ASSUME NEW a \in Addresses, CheckDomain(r, a) \/ ReadMailbox(r, a) \/ DeleteAlias(r, a)
        PROVE  Both'
    BY <2>1, <2>7, <2>12 DEF CheckDomain, ReadMailbox, DeleteAlias, Turn, Live
  <2>13. ASSUME NEW s \in Addresses, NEW a \in Addresses, CheckSource(r, s, a) PROVE Both'
    BY <2>1, <2>13 DEF CheckSource, Turn, Live
  <2>14. ASSUME DeleteAliases(r) \/ CheckTarget(r) \/ InsertAlias(r) \/ Fail(r) PROVE Both'
    BY <2>1, <2>14 DEF DeleteAliases, CheckTarget, InsertAlias, Fail, Turn, Live
  <2> QED
    BY <1>3, <2>2, <2>3, <2>4, <2>5, <2>6, <2>8, <2>9, <2>10, <2>11, <2>12, <2>13, <2>14
       DEF Request
<1> QED
  BY <1>1, <1>2, <1>3 DEF Next

(* Only deletions take a mailbox away, and they make those late that have  *)
(* seen it; the cascade of a domain takes only what its count did not see. *)
LEMMA CheckedStep ==
    ASSUME TypeOK, CountedInv, CheckedInv, [Next]_vars PROVE CheckedInv'
<1> USE HostingAssumption
<1>1. ASSUME UNCHANGED vars PROVE CheckedInv'
  BY <1>1 DEF CheckedInv, Doing, vars
<1>2. ASSUME NEW d \in Domains, StartCrakmail(d) PROVE CheckedInv'
  BY <1>2 DEF CheckedInv, Doing, StartCrakmail
<1>3. ASSUME NEW r \in Requests, Request(r) PROVE CheckedInv'
  <2>1. ASSUME NEW work, desk' = [desk EXCEPT ![r] = work], work = None \/ work.op # "alias",
               \A a \in Addresses : box'[a] = None => box[a] = None
        PROVE  CheckedInv'
    BY <2>1, Desks DEF TypeOK, CheckedInv, Doing
  <2>2. ASSUME NEW a \in Addresses, DeleteMailbox(r, a) PROVE CheckedInv'
    <3>1. /\ [op |-> "unalias", address |-> a] \in Work
          /\ [op |-> "unalias", address |-> a].op = "unalias"
      BY DEF Work
    <3>2. /\ desk' = [Overtaken({a}) EXCEPT ![r] = [op |-> "unalias", address |-> a]]
          /\ \A b \in Addresses \ {a} : box'[b] = box[b]
      BY <2>2 DEF TypeOK, DeleteMailbox
    <3>3. \A q \in Requests : Doing(q, "alias")' =>
             /\ Doing(q, "alias") /\ desk'[q].address = desk[q].address
             /\ desk[q].late \/ desk[q].address \in {a} => desk'[q].late
      BY <3>1, <3>2, OvertakenAlias
    <3> QED
      <4> SUFFICES ASSUME NEW q \in Requests, Doing(q, "alias")', ~desk'[q].late
                   PROVE  box'[desk'[q].address] # None
        BY DEF CheckedInv
      <4>1. /\ Doing(q, "alias") /\ desk'[q].address = desk[q].address
            /\ ~desk[q].late /\ desk[q].address # a
        BY <3>3
      <4> QED
        BY <3>2, <4>1, Desks DEF CheckedInv
  <2>3. ASSUME DropDomain(r) PROVE CheckedInv'
    <3>1. CASE ~Live(desk[r].domain)
      BY <2>1, <2>3, <3>1 DEF DropDomain, Turn
    <3>2. CASE Live(desk[r].domain)
      <4> DEFINE unasked == {a \in BoxesOf(desk[r].domain) : box[a].id > desk[r].made}
      <4>1. /\ desk' = [Overtaken(unasked) EXCEPT ![r] = None]
            /\ box' = [a \in Addresses |-> IF a.domain = desk[r].domain THEN None ELSE box[a]]
        BY <2>3, <3>2 DEF DropDomain
      <4>2. \A a \in Addresses : box'[a] = None /\ box[a] # None => a \in unasked
        BY <2>3, <4>1 DEF CountedInv, DropDomain, BoxesOf
      <4>3. \A q \in Requests : Doing(q, "alias")' =>
               /\ Doing(q, "alias") /\ desk'[q].address = desk[q].address
               /\ desk[q].late \/ desk[q].address \in unasked => desk'[q].late
        BY <4>1, OvertakenAlias
      <4> QED
        BY <4>2, <4>3, Desks DEF CheckedInv
    <3> QED
      BY <3>1, <3>2
  <2>4. ASSUME InsertMailbox(r) PROVE CheckedInv'
    <3>1. made < MaxBoxes => [id |-> NextId, enabled |-> TRUE] \in Boxes
      BY DEF TypeOK, NextId, Boxes
    <3>2. \A a \in Addresses : box'[a] = None => box[a] = None
      BY <2>4, <3>1 DEF TypeOK, InsertMailbox
    <3> QED
      BY <2>1, <2>4, <3>2 DEF InsertMailbox, Turn
  <2>5. ASSUME WriteMailbox(r) PROVE CheckedInv'
    <3>1. box[desk[r].address] # None =>
             [box[desk[r].address] EXCEPT !.enabled = desk[r].enabled] \in Boxes
      BY <2>5, Desks DEF WriteMailbox, TypeOK, Boxes
    <3>2. \A a \in Addresses : box'[a] = None => box[a] = None
      BY <2>5, <3>1 DEF TypeOK, WriteMailbox
    <3> QED
      BY <2>1, <2>5, <3>2 DEF WriteMailbox, Turn
  <2>6. ASSUME CheckTarget(r) PROVE CheckedInv'
    <3>1. CASE desk' = [desk EXCEPT ![r] = None]
      BY <2>1, <2>6, <3>1 DEF CheckTarget
    <3>2. CASE /\ box[desk[r].address] # None
               /\ desk' = [desk EXCEPT ![r] = [op |-> "alias", source |-> desk[r].source,
                                               address |-> desk[r].address, late |-> FALSE]]
      BY <2>6, <3>2 DEF TypeOK, CheckedInv, Doing, CheckTarget
    <3> QED
      BY <2>6, <3>1, <3>2 DEF CheckTarget, Turn
  <2>7. ASSUME UNCHANGED <<box, desk>> PROVE CheckedInv'
    BY <2>7 DEF CheckedInv, Doing
  <2>8. ASSUME NEW d \in Domains, NEW yes \in BOOLEAN,
               StartSave(r, d, yes) \/ SetDomainEnabled(r, d, yes)
        PROVE  CheckedInv'
    <3>1. CASE StartSave(r, d, yes)
      BY <2>1, <3>1 DEF StartSave, Turn
    <3>2. CASE SetDomainEnabled(r, d, yes)
      BY <2>7, <3>2 DEF SetDomainEnabled
    <3> QED
      BY <2>8, <3>1, <3>2
  <2>9. ASSUME NEW d \in Domains, CountBoxes(r, d) PROVE CheckedInv'
    BY <2>1, <2>9 DEF CountBoxes, Turn
  <2>10. ASSUME NEW a \in Addresses, CheckDomain(r, a) \/ ReadMailbox(r, a) PROVE CheckedInv'
    BY <2>1, <2>10 DEF CheckDomain, ReadMailbox, Turn
  <2>11. ASSUME NEW a \in Addresses, DeleteAlias(r, a) PROVE CheckedInv'
    BY <2>7, <2>11 DEF DeleteAlias
  <2>12. ASSUME NEW s \in Addresses, NEW a \in Addresses, CheckSource(r, s, a) PROVE CheckedInv'
    BY <2>1, <2>12 DEF CheckSource, Turn
  <2>13. ASSUME ClearPrimary(r) \/ InsertDomain(r) PROVE CheckedInv'
    BY <2>1, <2>13 DEF ClearPrimary, InsertDomain, Turn
  <2>14. ASSUME DeleteAliases(r) \/ InsertAlias(r) \/ Fail(r) PROVE CheckedInv'
    BY <2>1, <2>14 DEF DeleteAliases, InsertAlias, Fail, Turn
  <2> QED
    BY <1>3, <2>2, <2>3, <2>4, <2>5, <2>6, <2>8, <2>9, <2>10, <2>11, <2>12, <2>13, <2>14
       DEF Request
<1> QED
  BY <1>1, <1>2, <1>3 DEF Next

(* An alias stays without its mailbox only where the statement that would  *)
(* remove it is to come, or where a deletion overtook it, was cut off or   *)
(* was a cascade: what was checked and not overtaken has its mailbox.      *)
LEMMA AliasStep ==
    ASSUME TypeOK, CountedInv, CheckedInv, AliasesHaveMailboxes, [Next]_vars
    PROVE  AliasesHaveMailboxes'
<1> USE HostingAssumption
<1>1. ASSUME UNCHANGED vars PROVE AliasesHaveMailboxes'
  BY <1>1 DEF AliasesHaveMailboxes, Doing, vars
<1>2. ASSUME NEW d \in Domains, StartCrakmail(d) PROVE AliasesHaveMailboxes'
  BY <1>2 DEF AliasesHaveMailboxes, Doing, StartCrakmail
<1>3. ASSUME NEW r \in Requests, Request(r) PROVE AliasesHaveMailboxes'
  <2>1. ASSUME NEW work, UNCHANGED <<alias, adrift>>, desk' = [desk EXCEPT ![r] = work],
               ~Doing(r, "unalias"), \A a \in Addresses : box'[a] = None => box[a] = None
        PROVE  AliasesHaveMailboxes'
    BY <2>1 DEF TypeOK, AliasesHaveMailboxes, Doing
  <2>2. ASSUME NEW a \in Addresses, DeleteMailbox(r, a) PROVE AliasesHaveMailboxes'
    <3>1. /\ [op |-> "unalias", address |-> a] \in Work
          /\ [op |-> "unalias", address |-> a].op = "unalias"
      BY DEF Work
    <3>2. /\ desk' = [Overtaken({a}) EXCEPT ![r] = [op |-> "unalias", address |-> a]]
          /\ desk[r] = None
          /\ UNCHANGED <<alias, adrift>>
          /\ \A b \in Addresses \ {a} : box'[b] = box[b]
      BY <2>2 DEF TypeOK, DeleteMailbox
    <3>3. Doing(r, "unalias")' /\ desk'[r].address = a
      <4>1. desk'[r] = [op |-> "unalias", address |-> a]
        BY <3>1, <3>2, OvertakenDesks
      <4> QED
        BY <3>1, <4>1 DEF Doing
    <3>4. \A q \in Requests : Doing(q, "unalias") => Doing(q, "unalias")' /\ desk'[q] = desk[q]
      BY <3>1, <3>2, OvertakenDoing
    <3>5. ASSUME NEW s \in Addresses, alias[s] # None, box'[alias[s]] = None
          PROVE  s \in adrift \/ \E q \in Requests : Doing(q, "unalias")' /\ desk'[q].address = alias[s]
      <4>1. CASE alias[s] = a
        BY <3>3, <4>1
      <4>2. CASE alias[s] # a
        <5>1. box[alias[s]] = None
          BY <3>2, <3>5, <4>2 DEF TypeOK
        <5> QED
          BY <3>4, <3>5, <5>1 DEF AliasesHaveMailboxes
      <4> QED
        BY <4>1, <4>2
    <3> QED
      <4> SUFFICES ASSUME NEW s \in Addresses, alias'[s] # None, box'[alias'[s]] = None
                   PROVE  \/ s \in adrift'
                          \/ \E q \in Requests : Doing(q, "unalias")' /\ desk'[q].address = alias'[s]
        BY DEF AliasesHaveMailboxes
      <4>1. alias[s] # None /\ box'[alias[s]] = None /\ alias' = alias /\ adrift' = adrift
        BY <3>2
      <4> QED
        BY <3>5, <4>1
  <2>3. ASSUME DropDomain(r) PROVE AliasesHaveMailboxes'
    <3>1. CASE ~Live(desk[r].domain)
      BY <2>1, <2>3, <3>1 DEF DropDomain, Turn, Doing
    <3>2. CASE Live(desk[r].domain)
      <4> DEFINE unasked == {a \in BoxesOf(desk[r].domain) : box[a].id > desk[r].made}
      <4>1. /\ desk' = [Overtaken(unasked) EXCEPT ![r] = None] /\ Doing(r, "drop")
            /\ box' = [a \in Addresses |-> IF a.domain = desk[r].domain THEN None ELSE box[a]]
            /\ alias' = [a \in Addresses |-> IF a.domain = desk[r].domain THEN None ELSE alias[a]]
            /\ adrift' = {s \in adrift \cup AliasesTo(unasked) : s.domain # desk[r].domain}
        BY <2>3, <3>2 DEF DropDomain
      <4>2. \A a \in Addresses : box'[a] = None /\ box[a] # None => a \in unasked
        BY <4>1 DEF CountedInv, BoxesOf
      <4>3. \A q \in Requests : Doing(q, "unalias") => Doing(q, "unalias")' /\ desk'[q] = desk[q]
        <5>1. desk[r].op # "unalias"
          BY <4>1 DEF Doing
        <5> QED
          BY <4>1, <5>1, OvertakenDoing
      <4>4. \A s \in Addresses : alias'[s] # None =>
               alias'[s] = alias[s] /\ alias[s] \in Addresses /\ s.domain # desk[r].domain
        BY <4>1 DEF TypeOK
      <4> HIDE DEF unasked
      <4> QED
        BY <4>1, <4>2, <4>3, <4>4 DEF AliasesHaveMailboxes, AliasesTo
    <3> QED
      BY <3>1, <3>2
  <2>4. ASSUME InsertMailbox(r) PROVE AliasesHaveMailboxes'
    <3>1. /\ desk[r].address \in Addresses /\ desk' = [desk EXCEPT ![r] = None]
          /\ alias' = alias /\ ~Doing(r, "unalias")
      BY <2>4, Desks DEF InsertMailbox, Turn, Doing
    <3>2. CASE UNCHANGED <<box, adrift>>
      BY <2>1, <3>1, <3>2
    <3>3. CASE /\ box' = [box EXCEPT ![desk[r].address] = [id |-> NextId, enabled |-> TRUE]]
               /\ made < MaxBoxes
               /\ adrift' = adrift \ AliasesTo({desk[r].address})
      <4>1. [id |-> NextId, enabled |-> TRUE] # None
        <5>1. [id |-> NextId, enabled |-> TRUE] \in Boxes
          BY <3>3 DEF TypeOK, NextId, Boxes
        <5> QED
          BY <5>1
      <4>2. \A q \in Requests : Doing(q, "unalias") => Doing(q, "unalias")' /\ desk'[q] = desk[q]
        BY <3>1 DEF TypeOK, Doing
      <4> QED
        BY <3>1, <3>3, <4>1, <4>2 DEF TypeOK, AliasesHaveMailboxes, AliasesTo
    <3> QED
      BY <2>4, <3>2, <3>3 DEF InsertMailbox
  <2>5. ASSUME WriteMailbox(r) PROVE AliasesHaveMailboxes'
    <3>1. /\ desk[r].address \in Addresses /\ desk[r].enabled \in BOOLEAN
          /\ desk' = [desk EXCEPT ![r] = None]
          /\ UNCHANGED <<alias, adrift>> /\ ~Doing(r, "unalias")
      BY <2>5, Desks DEF WriteMailbox, Turn, Doing
    <3>2. box[desk[r].address] # None =>
             [box[desk[r].address] EXCEPT !.enabled = desk[r].enabled] \in Boxes
      BY <3>1 DEF TypeOK, Boxes
    <3>3. \A a \in Addresses : box'[a] = None => box[a] = None
      BY <2>5, <3>1, <3>2 DEF TypeOK, WriteMailbox
    <3> QED
      BY <2>1, <3>1, <3>3
  <2>6. ASSUME DeleteAliases(r) PROVE AliasesHaveMailboxes'
    BY <2>6, Desks DEF TypeOK, AliasesHaveMailboxes, Doing, DeleteAliases, Turn, AliasesTo
  <2>7. ASSUME InsertAlias(r) PROVE AliasesHaveMailboxes'
    <3>1. /\ desk[r].source \in Addresses /\ desk[r].address \in Addresses
          /\ box' = box /\ desk' = [desk EXCEPT ![r] = None] /\ Doing(r, "alias")
      BY <2>7, Desks DEF InsertAlias, Turn
    <3>2. box[desk[r].address] = None => desk[r].late
      BY <3>1 DEF CheckedInv
    <3>3. \A q \in Requests : Doing(q, "unalias") => Doing(q, "unalias")' /\ desk'[q] = desk[q]
      BY <3>1 DEF TypeOK, Doing
    <3> QED
      BY <2>7, <3>1, <3>2, <3>3 DEF TypeOK, AliasesHaveMailboxes, InsertAlias
  <2>8. ASSUME NEW a \in Addresses, DeleteAlias(r, a) PROVE AliasesHaveMailboxes'
    BY <2>8 DEF TypeOK, AliasesHaveMailboxes, Doing, DeleteAlias
  <2>9. ASSUME Fail(r) PROVE AliasesHaveMailboxes'
    BY <2>9, Desks DEF TypeOK, AliasesHaveMailboxes, Doing, Fail, Turn, AliasesTo
  <2>10. ASSUME NEW d \in Domains, NEW yes \in BOOLEAN, StartSave(r, d, yes)
         PROVE  AliasesHaveMailboxes'
    BY <2>1, <2>10 DEF StartSave, Turn, Doing
  <2>11. ASSUME NEW d \in Domains, NEW yes \in BOOLEAN, SetDomainEnabled(r, d, yes)
         PROVE  AliasesHaveMailboxes'
    BY <2>11 DEF SetDomainEnabled, AliasesHaveMailboxes, Doing
  <2>12. ASSUME NEW d \in Domains, CountBoxes(r, d) PROVE AliasesHaveMailboxes'
    BY <2>1, <2>12 DEF CountBoxes, Turn, Doing
  <2>13. ASSUME NEW a \in Addresses, CheckDomain(r, a) \/ ReadMailbox(r, a)
         PROVE  AliasesHaveMailboxes'
    BY <2>1, <2>13 DEF CheckDomain, ReadMailbox, Turn, Doing
  <2>14. ASSUME NEW s \in Addresses, NEW a \in Addresses, CheckSource(r, s, a)
         PROVE  AliasesHaveMailboxes'
    BY <2>1, <2>14 DEF CheckSource, Turn, Doing
  <2>15. ASSUME ClearPrimary(r) \/ InsertDomain(r) \/ CheckTarget(r) PROVE AliasesHaveMailboxes'
    BY <2>1, <2>15 DEF ClearPrimary, InsertDomain, CheckTarget, Turn, Doing
  <2> QED
    BY <1>3, <2>2, <2>3, <2>4, <2>5, <2>6, <2>7, <2>8, <2>9, <2>10, <2>11, <2>12, <2>13, <2>14,
       <2>15 DEF Request
<1> QED
  BY <1>1, <1>2, <1>3 DEF Next

-----------------------------------------------------------------------------
(* The theorems *)

THEOREM Invariance == Spec => []IInv
<1>1. Init => IInv
  <2> USE HostingAssumption
  <2> SUFFICES ASSUME Init PROVE IInv
    OBVIOUS
  <2>1. TypeOK
    BY DEF Init, TypeOK
  <2>2. PrimaryInv /\ OnePrimary /\ BoxesLive
    BY DEF Init, PrimaryInv, OnePrimary, BoxesLive, Doing
  <2>3. CountedInv /\ CheckedInv /\ AliasesHaveMailboxes
    BY DEF Init, CountedInv, CheckedInv, AliasesHaveMailboxes, Doing
  <2> QED
    BY <2>1, <2>2, <2>3 DEF IInv
<1>2. IInv /\ [Next]_vars => IInv'
  BY TypeStep, PrimaryStep, BoxStep, CheckedStep, AliasStep DEF IInv
<1> QED
  BY <1>1, <1>2, PTL DEF Spec

\* The statements of requests leave rows of the shape the code reads back.
THEOREM TypeCorrect == Spec => []TypeOK
  BY Invariance, PTL DEF IInv

\* Whatever saves and starts of CrakMail interleave, at most one domain is primary.
THEOREM PrimaryIsUnique == Spec => []OnePrimary
  BY Invariance, PTL DEF IInv

\* An alias has the mailbox it was checked against: none is inserted without that check,
\* and a deletion that comes after it removes the alias, or is about to, but for the
\* three ways that the property names.
THEOREM AliasesTrue == Spec => []AliasesHaveMailboxes
  BY Invariance, PTL DEF IInv

\* A save moves the primary mark in one step: it is never just lost.
THEOREM PrimaryMoves == Spec => PrimaryStepsDown
<1> DEFINE Down ==
      \A d \in Domains : domain[d].primary /\ ~domain'[d].primary =>
          \/ domain'[d].state = "gone"
          \/ \E e \in Domains : domain'[e].primary
          \/ \E r \in Requests : Doing(r, "insert") /\ desk[r].domain = d /\ ~desk[r].primary
<1>1. ASSUME IInv, [Next]_vars, domain' # domain PROVE Down
  <2>1. ASSUME NEW d \in Domains, StartCrakmail(d) PROVE Down
    BY <1>1, <2>1 DEF IInv, TypeOK, PrimaryInv, Live, StartCrakmail
  <2>2. ASSUME NEW r \in Requests, InsertDomain(r) PROVE Down
    <3>1. desk[r].domain \in Domains /\ Doing(r, "insert")
      BY <1>1, <2>2, Desks DEF IInv, InsertDomain
    <3>2. PICK row \in RowsFor(desk[r].domain) : domain' = [e \in Domains |->
                    IF e = row
                    THEN [state |-> "live", enabled |-> TRUE, primary |-> desk[r].primary]
                    ELSE IF e \in desk[r].held THEN [domain[e] EXCEPT !.primary = FALSE]
                    ELSE domain[e]]
      BY <1>1, <2>2 DEF InsertDomain
    <3>3. row \in Domains /\ row # desk[r].domain => ~domain[row].primary
      BY <1>1, <3>1, <3>2 DEF IInv, PrimaryInv, Live, RowsFor
    <3>4. row \in Domains /\ domain'[row].primary = desk[r].primary
      BY <3>1, <3>2 DEF RowsFor
    <3>5. \A d \in Domains : domain[d].primary /\ ~domain'[d].primary =>
             d = desk[r].domain \/ desk[r].primary
      BY <1>1, <3>1, <3>2, <3>3, <3>4 DEF IInv, TypeOK, PrimaryInv
    <3> QED
      BY <3>1, <3>4, <3>5
  <2>3. ASSUME NEW r \in Requests, DropDomain(r) PROVE Down
    BY <1>1, <2>3, Desks DEF IInv, TypeOK, DropDomain
  <2>4. ASSUME NEW r \in Requests, NEW d \in Domains, NEW yes \in BOOLEAN,
               SetDomainEnabled(r, d, yes)
        PROVE  Down
    BY <1>1, <2>4 DEF IInv, TypeOK, SetDomainEnabled
  <2>5. ASSUME NEW r \in Requests, Request(r) PROVE Down
    BY <1>1, <2>2, <2>3, <2>4, <2>5
       DEF Request, StartSave, CountBoxes, CheckDomain, ReadMailbox, DeleteMailbox,
           DeleteAlias, CheckSource, ClearPrimary, InsertMailbox, WriteMailbox, DeleteAliases,
           CheckTarget, InsertAlias, Fail
  <2> QED
    BY <1>1, <2>1, <2>5 DEF vars, Next
<1>2. IInv /\ [Next]_vars => [Down]_domain
  BY <1>1
<1> QED
  BY Invariance, <1>2, PTL DEF Spec, PrimaryStepsDown

\* No mailbox goes with a domain whose deletion has counted it, and no update
\* writes into a mailbox that took a deleted one's address.
THEOREM BoxesAskedFor == Spec => BoxesLeaveAsked
<1> DEFINE Asked ==
      \A a \in Addresses :
          /\ box[a] # None /\ box'[a] = None /\ domain'[a.domain].state = "gone" =>
                \E r \in Requests : /\ Doing(r, "drop") /\ desk[r].domain = a.domain
                                    /\ box[a].id > desk[r].made
          /\ box'[a] # None /\ (box[a] = None \/ box[a].id # box'[a].id) => box'[a].id = made'
                                                                          /\ made' > made
<1>1. ASSUME IInv, [Next]_vars, box' # box PROVE Asked
  <2>1. ASSUME NEW r \in Requests, InsertMailbox(r) PROVE Asked
    BY <1>1, <2>1, Desks, HostingAssumption DEF IInv, TypeOK, InsertMailbox, NextId
  <2>2. ASSUME NEW r \in Requests, WriteMailbox(r) PROVE Asked
    <3>1. desk[r].address \in Addresses /\ domain' = domain
      BY <1>1, <2>2, Desks DEF IInv, WriteMailbox
    <3>2. box' = [box EXCEPT ![desk[r].address].enabled = desk[r].enabled]
          /\ box[desk[r].address] \in Boxes
      BY <1>1, <2>2, <3>1 DEF IInv, TypeOK, WriteMailbox
    <3>3. \A a \in Addresses : a # desk[r].address => box'[a] = box[a]
      BY <1>1, <3>2 DEF IInv, TypeOK
    <3>4. box[desk[r].address] # None /\ box'[desk[r].address].id = box[desk[r].address].id
      BY <1>1, <3>1, <3>2, HostingAssumption DEF IInv, TypeOK, Boxes
    <3>5. box'[desk[r].address] # None
      <4>1. [box[desk[r].address] EXCEPT !.enabled = desk[r].enabled] \in Boxes
        BY <1>1, <2>2, <3>2, Desks DEF IInv, Boxes, WriteMailbox
      <4> QED
        BY <1>1, <3>1, <3>2, <4>1, HostingAssumption DEF IInv, TypeOK
    <3> QED
      BY <3>1, <3>3, <3>4, <3>5
  <2>3. ASSUME NEW r \in Requests, DropDomain(r) PROVE Asked
    BY <1>1, <2>3, Desks DEF IInv, TypeOK, CountedInv, DropDomain
  <2>4. ASSUME NEW r \in Requests, NEW a \in Addresses, DeleteMailbox(r, a) PROVE Asked
    BY <1>1, <2>4 DEF IInv, TypeOK, BoxesLive, Live, DeleteMailbox
  <2> QED
    BY <1>1, <2>1, <2>2, <2>3, <2>4
       DEF vars, Next, Request, StartSave, SetDomainEnabled, CountBoxes, CheckDomain, ReadMailbox,
           DeleteAlias, CheckSource, ClearPrimary, InsertDomain, DeleteAliases, CheckTarget,
           InsertAlias, Fail, StartCrakmail
<1>2. IInv /\ [Next]_vars => [Asked]_box
  BY <1>1
<1> QED
  BY Invariance, <1>2, PTL DEF Spec, BoxesLeaveAsked
=============================================================================
