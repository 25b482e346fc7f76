------------------------------ MODULE MailHosting ------------------------------
(***************************************************************************)
(* The mail domains, mailboxes and aliases that the Mail Hosting page      *)
(* keeps for CrakMail.  Each request of an administrator is a few          *)
(* statements, most of them outside a transaction; between two of them any *)
(* statement of another request may run.                                   *)
(*                                                                         *)
(* A row of mail_domains is a member of Domains for good: a domain that is *)
(* saved again after its deletion is another one.  Names, quotas,          *)
(* passwords and DNS records are left out.                                 *)
(***************************************************************************)
EXTENDS Naturals

CONSTANTS
    Requests,   \* requests in flight
    Domains,    \* rows that mail_domains may have
    Locals,     \* local parts of addresses
    MaxBoxes,   \* bound: mailboxes ever created
    None

VARIABLES
    domain,     \* [state, enabled, primary] of a row; state is new, live or gone
    box,        \* the mailbox of an address, [id, enabled], or None
    alias,      \* the destination of an alias' address, or None
    made,       \* mailboxes made so far; their ids are 1..made
    desk,       \* what a request has read and has yet to do, or None
    adrift      \* history: aliases whose mailbox was deleted between its check and their
                \* insert, by a request that was cut off, or unasked with its domain

vars == <<domain, box, alias, made, desk, adrift>>

Addresses == [domain : Domains, local : Locals]
Live(d) == domain[d].state = "live"
Usable(d) == Live(d) /\ domain[d].enabled
AliasesTo(targets) == {s \in Addresses : alias[s] # None /\ alias[s] \in targets}

Work ==
    [op : {"save"}, domain : Domains, wanted : SUBSET Domains]
      \cup [op : {"insert"}, domain : Domains, primary : BOOLEAN, held : SUBSET Domains]
      \cup [op : {"drop"}, domain : Domains, made : 0..MaxBoxes]
      \cup [op : {"mailbox", "unalias"}, address : Addresses]
      \cup [op : {"update"}, address : Addresses, id : 1..MaxBoxes, enabled : BOOLEAN]
      \cup [op : {"target"}, source : Addresses, address : Addresses]
      \cup [op : {"alias"}, source : Addresses, address : Addresses, late : BOOLEAN]

Boxes == [id : 1..MaxBoxes, enabled : BOOLEAN]

ASSUME HostingAssumption ==
    /\ MaxBoxes \in Nat
    /\ None \notin Addresses \cup Boxes \cup Work

TypeOK ==
    /\ domain \in [Domains -> [state : {"new", "live", "gone"}, enabled : BOOLEAN,
                               primary : BOOLEAN]]
    /\ box \in [Addresses -> Boxes \cup {None}]
    /\ alias \in [Addresses -> Addresses \cup {None}]
    /\ made \in 0..MaxBoxes
    /\ desk \in [Requests -> Work \cup {None}]
    /\ adrift \subseteq Addresses

Init ==
    /\ domain = [d \in Domains |-> [state |-> "new", enabled |-> FALSE, primary |-> FALSE]]
    /\ box = [a \in Addresses |-> None]
    /\ alias = [a \in Addresses |-> None]
    /\ made = 0
    /\ desk = [r \in Requests |-> None]
    /\ adrift = {}

Doing(r, op) == desk[r] # None /\ desk[r].op = op
Turn(r, work) == desk' = [desk EXCEPT ![r] = work]

-----------------------------------------------------------------------------
(* saveDomain, a transaction *)

\* Rows that open transactions have updated; whoever writes one waits.
Locked == UNION {desk[r].held : r \in {q \in Requests : Doing(q, "insert")}}

\* The update that clears the old primary sees the rows as they are now.
StartSave(r, d, primary) ==
    /\ desk[r] = None /\ domain[d].state # "gone"
    /\ Turn(r, IF primary THEN [op |-> "save", domain |-> d,
                                wanted |-> {e \in Domains : domain[e].primary}]
               ELSE [op |-> "insert", domain |-> d, primary |-> FALSE, held |-> {}])
    /\ UNCHANGED <<domain, box, alias, made, adrift>>

\* It waits for their locks, and skips those that are not primary any more.
ClearPrimary(r) ==
    /\ Doing(r, "save") /\ desk[r].wanted \cap Locked = {}
    /\ Turn(r, [op |-> "insert", domain |-> desk[r].domain, primary |-> TRUE,
                held |-> {d \in desk[r].wanted : domain[d].primary}])
    /\ UNCHANGED <<domain, box, alias, made, adrift>>

\* Mutant: there is no such index.
UniqueAlways(r) == TRUE

\* idx_mail_domains_one_primary, which holds of what has been committed.
Unique(r) ==
    desk[r].primary =>
        \A e \in Domains \ (desk[r].held \cup {desk[r].domain}) : ~domain[e].primary

\* The row of an upsert: the domain's own, or a new one if that was deleted meanwhile.
RowsFor(d) ==
    IF domain[d].state = "gone" THEN {e \in Domains : domain[e].state = "new"} ELSE {d}

\* The upsert and the commit; no statement stands between them.
InsertDomain(r) ==
    LET d == desk[r].domain
    IN  /\ Doing(r, "insert") /\ d \notin Locked \ desk[r].held
        /\ \/ /\ Unique(r)
              /\ \E row \in RowsFor(d) : domain' = [e \in Domains |->
                    IF e = row
                    THEN [state |-> "live", enabled |-> TRUE, primary |-> desk[r].primary]
                    ELSE IF e \in desk[r].held THEN [domain[e] EXCEPT !.primary = FALSE]
                    ELSE domain[e]]
           \/ (~Unique(r) \/ RowsFor(d) = {}) /\ UNCHANGED domain
        /\ Turn(r, None)
        /\ UNCHANGED <<box, alias, made, adrift>>

\* CrakMail starts: it saves the domain of its environment, which becomes primary only
\* as a new row when no other is, and is enabled whatever the page has made of it.
StartCrakmail(d) ==
    /\ domain[d].state # "gone" /\ d \notin Locked
    /\ domain' = [domain EXCEPT ![d] =
          [state |-> "live", enabled |-> TRUE,
           primary |-> IF Live(d) THEN @.primary ELSE \A e \in Domains : ~domain[e].primary]]
    /\ UNCHANGED <<box, alias, made, desk, adrift>>

-----------------------------------------------------------------------------
(* setDomainEnabled and deleteDomain *)

SetDomainEnabled(r, d, enabled) ==
    /\ desk[r] = None /\ d \notin Locked
    /\ \/ Live(d) /\ domain' = [domain EXCEPT ![d].enabled = enabled]
       \/ ~Live(d) /\ UNCHANGED domain
    /\ UNCHANGED <<box, alias, made, desk, adrift>>

BoxesOf(d) == {a \in Addresses : a.domain = d /\ box[a] # None}

\* A request that has seen its mailbox and not yet inserted the alias is late.
Overtaken(targets) ==
    [q \in Requests |-> IF Doing(q, "alias") /\ desk[q].address \in targets
                        THEN [desk[q] EXCEPT !.late = TRUE] ELSE desk[q]]

\* Mutant: the mailboxes are not counted.
CountNothing(r, d) ==
    /\ desk[r] = None /\ Live(d)
    /\ Turn(r, [op |-> "drop", domain |-> d, made |-> made])
    /\ UNCHANGED <<domain, box, alias, made, adrift>>

CountBoxes(r, d) ==
    /\ desk[r] = None /\ Live(d) /\ BoxesOf(d) = {}
    /\ Turn(r, [op |-> "drop", domain |-> d, made |-> made])
    /\ UNCHANGED <<domain, box, alias, made, adrift>>

\* The foreign keys cascade: mailboxes and aliases of the domain go with it, also
\* mailboxes that were made since the count, whose aliases nobody removes.
DropDomain(r) ==
    LET d == desk[r].domain
        unasked == {a \in BoxesOf(d) : box[a].id > desk[r].made}
    IN  /\ Doing(r, "drop") /\ d \notin Locked
        /\ \/ /\ ~Live(d) /\ Turn(r, None)
              /\ UNCHANGED <<domain, box, alias, adrift>>
           \/ /\ Live(d)
              /\ desk' = [Overtaken(unasked) EXCEPT ![r] = None]
              /\ domain' = [domain EXCEPT ![d] = [state |-> "gone", enabled |-> FALSE,
                                                  primary |-> FALSE]]
              /\ box' = [a \in Addresses |-> IF a.domain = d THEN None ELSE box[a]]
              /\ alias' = [a \in Addresses |-> IF a.domain = d THEN None ELSE alias[a]]
              /\ adrift' = {s \in adrift \cup AliasesTo(unasked) : s.domain # d}
        /\ UNCHANGED made

-----------------------------------------------------------------------------
(* createMailbox, updateMailbox and deleteMailbox *)

CheckDomain(r, a) ==
    /\ desk[r] = None /\ Usable(a.domain)
    /\ Turn(r, [op |-> "mailbox", address |-> a])
    /\ UNCHANGED <<domain, box, alias, made, adrift>>

NextId == made + 1

\* The insert fails if the address is taken or the domain has gone.
InsertMailbox(r) ==
    LET a == desk[r].address
    IN  /\ Doing(r, "mailbox")
        /\ Turn(r, None)
        /\ \/ /\ box[a] = None /\ Live(a.domain) /\ made < MaxBoxes
              /\ box' = [box EXCEPT ![a] = [id |-> NextId, enabled |-> TRUE]]
              /\ made' = made + 1
              /\ adrift' = adrift \ AliasesTo({a})
           \/ (box[a] # None \/ ~Live(a.domain)) /\ UNCHANGED <<box, made, adrift>>
        /\ UNCHANGED <<domain, alias>>

\* A field the request leaves out is written back as it was read.
ReadMailbox(r, a) ==
    /\ desk[r] = None /\ box[a] # None
    /\ \E enabled \in BOOLEAN :
          Turn(r, [op |-> "update", address |-> a, id |-> box[a].id, enabled |-> enabled])
    /\ UNCHANGED <<domain, box, alias, made, adrift>>

WriteMailbox(r) ==
    LET a == desk[r].address
    IN  /\ Doing(r, "update")
        /\ Turn(r, None)
        /\ \/ /\ box[a] # None /\ box[a].id = desk[r].id
              /\ box' = [box EXCEPT ![a].enabled = desk[r].enabled]
           \/ ~(box[a] # None /\ box[a].id = desk[r].id) /\ UNCHANGED box
        /\ UNCHANGED <<domain, alias, made, adrift>>

DeleteMailbox(r, a) ==
    /\ desk[r] = None /\ box[a] # None
    /\ box' = [box EXCEPT ![a] = None]
    /\ desk' = [Overtaken({a}) EXCEPT ![r] = [op |-> "unalias", address |-> a]]
    /\ UNCHANGED <<domain, alias, made, adrift>>

DeleteAliases(r) ==
    LET gone == AliasesTo({desk[r].address})
    IN  /\ Doing(r, "unalias")
        /\ Turn(r, None)
        /\ alias' = [s \in Addresses |-> IF s \in gone THEN None ELSE alias[s]]
        /\ adrift' = adrift \ gone
        /\ UNCHANGED <<domain, box, made>>

-----------------------------------------------------------------------------
(* createAlias and deleteAlias *)

CheckSource(r, source, a) ==
    /\ desk[r] = None /\ Usable(source.domain)
    /\ Turn(r, [op |-> "target", source |-> source, address |-> a])
    /\ UNCHANGED <<domain, box, alias, made, adrift>>

\* Mutant: any destination will do.
TrustTarget(r) ==
    /\ Doing(r, "target")
    /\ Turn(r, [op |-> "alias", source |-> desk[r].source, address |-> desk[r].address,
                late |-> FALSE])
    /\ UNCHANGED <<domain, box, alias, made, adrift>>

CheckTarget(r) ==
    LET a == desk[r].address
    IN  /\ Doing(r, "target")
        /\ \/ /\ box[a] # None /\ box[a].enabled
              /\ Turn(r, [op |-> "alias", source |-> desk[r].source, address |-> a,
                          late |-> FALSE])
           \/ ~(box[a] # None /\ box[a].enabled) /\ Turn(r, None)
        /\ UNCHANGED <<domain, box, alias, made, adrift>>

\* The insert fails if the domain has gone; nothing looks at the mailbox again.
InsertAlias(r) ==
    LET source == desk[r].source
        a == desk[r].address
    IN  /\ Doing(r, "alias")
        /\ Turn(r, None)
        /\ \/ /\ Live(source.domain)
              /\ alias' = [alias EXCEPT ![source] = a]
              /\ adrift' = IF desk[r].late /\ box[a] = None THEN adrift \cup {source}
                           ELSE adrift \ {source}
           \/ ~Live(source.domain) /\ UNCHANGED <<alias, adrift>>
        /\ UNCHANGED <<domain, box, made>>

DeleteAlias(r, source) ==
    /\ desk[r] = None /\ alias[source] # None
    /\ alias' = [alias EXCEPT ![source] = None]
    /\ adrift' = adrift \ {source}
    /\ UNCHANGED <<domain, box, made, desk>>

-----------------------------------------------------------------------------

\* A statement fails or the panel dies: what follows in the request is not done.
Fail(r) ==
    /\ desk[r] # None
    /\ adrift' = IF Doing(r, "unalias") /\ box[desk[r].address] = None
                 THEN adrift \cup AliasesTo({desk[r].address}) ELSE adrift
    /\ Turn(r, None)
    /\ UNCHANGED <<domain, box, alias, made>>

Request(r) ==
    \/ \E d \in Domains, yes \in BOOLEAN : StartSave(r, d, yes) \/ SetDomainEnabled(r, d, yes)
    \/ \E d \in Domains : CountBoxes(r, d)
    \/ \E a \in Addresses : \/ CheckDomain(r, a) \/ ReadMailbox(r, a)
                            \/ DeleteMailbox(r, a) \/ DeleteAlias(r, a)
    \/ \E s, a \in Addresses : CheckSource(r, s, a)
    \/ ClearPrimary(r) \/ InsertDomain(r) \/ DropDomain(r)
    \/ InsertMailbox(r) \/ WriteMailbox(r) \/ DeleteAliases(r)
    \/ CheckTarget(r) \/ InsertAlias(r) \/ Fail(r)

Next == (\E r \in Requests : Request(r)) \/ (\E d \in Domains : StartCrakmail(d))

Spec == Init /\ [][Next]_vars

-----------------------------------------------------------------------------
(* Properties *)

\* However two saves interleave, no two domains are primary.
OnePrimary == \A d, e \in Domains : domain[d].primary /\ domain[e].primary => d = e

\* An alias has the mailbox that createAlias has seen, until deleteMailbox, which then
\* has yet to remove it.  Three ways around this are open in the code: a deletion
\* between check and insert, one that is cut off between its two statements, and a
\* cascade that takes a mailbox made after the domain's were counted.
AliasesHaveMailboxes ==
    \A s \in Addresses : alias[s] # None /\ box[alias[s]] = None =>
        s \in adrift \/ \E r \in Requests : Doing(r, "unalias") /\ desk[r].address = alias[s]

\* The primary domain is lost only to its deletion, to another one that takes its
\* place at once, or to a save of its own that does not make it primary.
PrimaryStepsDown ==
    [][\A d \in Domains : domain[d].primary /\ ~domain'[d].primary =>
          \/ domain'[d].state = "gone"
          \/ \E e \in Domains : domain'[e].primary
          \/ \E r \in Requests : Doing(r, "insert") /\ desk[r].domain = d /\ ~desk[r].primary
      ]_domain

\* A domain takes with it only mailboxes that were made after its deletion had
\* counted them, and a mailbox is never replaced or brought back by an update.
BoxesLeaveAsked ==
    [][\A a \in Addresses :
          /\ box[a] # None /\ box'[a] = None /\ domain'[a.domain].state = "gone" =>
                \E r \in Requests : /\ Doing(r, "drop") /\ desk[r].domain = a.domain
                                    /\ box[a].id > desk[r].made
          /\ box'[a] # None /\ (box[a] = None \/ box[a].id # box'[a].id) => box'[a].id = made'
                                                                          /\ made' > made
      ]_box

=============================================================================
