------------------------------- MODULE Meters -------------------------------
(***************************************************************************)
(* The page of the meters and the service behind it: a list read by page    *)
(* from a query kept in the URL, a search box that reaches the URL after a  *)
(* pause, a form that creates and edits, a confirmation that deletes, and   *)
(* the refresh after a write of this page or the end of an analysis.  A     *)
(* request is sent, handled at the server and answered; every refresh       *)
(* belongs to the render that made it, whatever the URL has become.         *)
(***************************************************************************)
EXTENDS Naturals, FiniteSets, Sequences, FiniteSetsExt

CONSTANTS
    Codes,        \* codes of meters: numbers, in the order of the list
    Found,        \* the codes that match what the operator searches
    Seeded,       \* the codes of the meters there are at first
    PageSize,
    Slots,        \* writes of the page that can be in flight at once
    MaxRows,      \* bound: meters ever created
    MaxClicks,    \* bound: changes of the query and writes asked for
    MaxSurprises  \* bound: writes of others, analyses completed, errors

ASSUME MetersBounds ==
    /\ Codes \subseteq Nat /\ Found \subseteq Codes /\ Seeded \in Seq(Codes)
    /\ PageSize \in Nat \ {0} /\ Slots \subseteq Nat \ {0}
    /\ MaxRows \in Nat /\ Len(Seeded) <= MaxRows
    /\ {MaxClicks, MaxSurprises} \subseteq Nat

VARIABLES
    meter,      \* server: the table, a row for each id
    completed,  \* server: analyses completed
    url,        \* search, status and page of the query string
    input,      \* searchInput
    debounced,  \* debouncedSearch
    data,       \* the page on screen: the query it answers, rows and total
    failed,     \* meters.error
    load,       \* the GET of the controller in use
    form,       \* the form: what it edits and the write it waits for
    asked,      \* toDelete, or 0
    write,      \* the POST, PATCH or DELETE of each slot
    told,       \* the version of each row the operator was told of
    announced,  \* the newest analysis whose end refreshed the page
    dismissed,  \* TRUE once a dialog was left with its write in flight
    clicks, surprises

server == <<meter, completed>>
query == <<url, input, debounced>>
list == <<data, failed, load>>
dialogs == <<form, asked, write>>
vars == <<server, query, list, dialogs, told, announced, dismissed, clicks, surprises>>

Ids == 1..MaxRows
Queries == [search : {"", "text"}, status : {"any", "CRITICAL"}, page : 1..MaxRows + 1]
Home == [search |-> "", status |-> "any", page |-> 1]

NoRow == [code |-> 0, live |-> FALSE, status |-> "OK", version |-> 0]
NoPage == [of |-> [Home EXCEPT !.page = 0], rows |-> {}, total |-> 0, at |-> 0]
NoForm == [kind |-> "none", id |-> 0, slot |-> 0]
Free == [pc |-> "off", kind |-> "none", id |-> 0, code |-> 0, of |-> Home, version |-> 0, mounted |-> FALSE]

Created == {i \in Ids : meter[i] # NoRow}
Live == {i \in Ids : meter[i].live}
HasCode(code) == \E i \in Live : meter[i].code = code

-----------------------------------------------------------------------------
(* useFetch.                                                                *)

Idle == [pc |-> "off", page |-> NoPage]

\* Mutant: a GET in flight is left to finish in place of the new one.
SendUnlessLoading(q) == IF load.pc = "off" THEN [pc |-> "sent", page |-> [NoPage EXCEPT !.of = q]] ELSE load

Send(q) == [pc |-> "sent", page |-> [NoPage EXCEPT !.of = q]]

\* execute: aborts the GET in flight and sends another; the data stays.
Execute(q) ==
    /\ load' = Send(q)
    /\ failed' = FALSE
    /\ UNCHANGED data

\* A change of the query string runs the effect of useFetch again.
GoTo(q) ==
    /\ url' = q
    /\ IF q = url THEN UNCHANGED list ELSE Execute(q)

Init ==
    /\ meter = [i \in Ids |->
                  IF i <= Len(Seeded)
                  THEN [code |-> Seeded[i], live |-> TRUE, status |-> "OK", version |-> 1]
                  ELSE NoRow]
    /\ completed = 0
    /\ url = Home /\ input = "" /\ debounced = ""
    /\ data = NoPage /\ failed = FALSE /\ load = [pc |-> "sent", page |-> [NoPage EXCEPT !.of = Home]]
    /\ form = NoForm /\ asked = 0
    /\ write = [s \in Slots |-> Free]
    /\ told = [i \in Ids |-> 0]
    /\ announced = 0
    /\ dismissed = FALSE
    /\ clicks = 0 /\ surprises = 0

-----------------------------------------------------------------------------
(* The server.                                                              *)

Surprise == surprises < MaxSurprises /\ surprises' = surprises + 1

NewId == CHOOSE i \in Ids : meter[i] = NoRow

Insert(code) ==
    /\ Created # Ids
    /\ meter' = [meter EXCEPT ![NewId] = [code |-> code, live |-> TRUE, status |-> "OK", version |-> 1]]

SoftDelete(id) == meter' = [meter EXCEPT ![id].live = FALSE, ![id].version = @ + 1]

\* Another operator, or an import, creates or deletes a meter.
OtherWrites ==
    /\ Surprise
    /\ \/ \E code \in Codes : ~ HasCode(code) /\ Insert(code)
       \/ \E id \in Live : SoftDelete(id)
    /\ UNCHANGED <<completed, query, list, dialogs, told, announced, dismissed, clicks>>

\* An analysis completes: RefreshMeterStatuses sets every active meter.
CompleteAnalysis ==
    /\ Surprise
    /\ completed' = completed + 1
    /\ \E critical \in SUBSET Live :
         meter' = [i \in Ids |-> IF i \in Live
                                 THEN [meter[i] EXCEPT !.status = IF i \in critical THEN "CRITICAL" ELSE "OK"]
                                 ELSE meter[i]]
    /\ UNCHANGED <<query, list, dialogs, told, announced, dismissed, clicks>>

Matching(q) ==
    {i \in Live : /\ q.status \in {"any", meter[i].status}
                  /\ q.search = "" \/ meter[i].code \in Found}

\* ListMeters: by code, LIMIT PageSize OFFSET (page - 1) * PageSize.  A page
\* is the set of its rows.
PageRows(q) ==
    LET place(i) == Cardinality({j \in Matching(q) : meter[j].code < meter[i].code})
    IN {[id |-> i, version |-> meter[i].version] :
          i \in {j \in Matching(q) : place(j) \in (q.page - 1) * PageSize..q.page * PageSize - 1}}

\* The page is read; ...
HandlePage ==
    /\ load.pc = "sent"
    /\ load' = [load EXCEPT !.pc = "counting", !.page.rows = PageRows(load.page.of), !.page.at = completed]
    /\ UNCHANGED <<server, query, data, failed, dialogs, told, announced, dismissed, clicks, surprises>>

\* ... the total is another statement, later.
HandleCount ==
    /\ load.pc = "counting"
    /\ load' = [load EXCEPT !.pc = "answered", !.page.total = Cardinality(Matching(load.page.of))]
    /\ UNCHANGED <<server, query, data, failed, dialogs, told, announced, dismissed, clicks, surprises>>

LoadFails ==
    /\ load.pc \in {"sent", "counting"} /\ Surprise
    /\ load' = [load EXCEPT !.pc = "failed"]
    /\ UNCHANGED <<server, query, data, failed, dialogs, told, announced, dismissed, clicks>>

\* Answered as done, with the version of the row it leaves.
Done(s, id, version) ==
    write' = [write EXCEPT ![s].pc = "answered", ![s].id = id, ![s].version = version]

\* Answered with an error: version 0.
Refuse(s) == write' = [write EXCEPT ![s].pc = "answered"]

\* Create: the insert, unless an active meter has the code.
Create(s) ==
    /\ write[s].kind = "create"
    /\ \/ /\ ~ HasCode(write[s].code)
          /\ Insert(write[s].code)
          /\ Done(s, NewId, 1) \/ Refuse(s)
       \/ HasCode(write[s].code) /\ Refuse(s) /\ UNCHANGED meter

\* Update and Delete: the row, unless it is gone.
Change(s, id) ==
    \/ /\ id \in Live
       /\ \/ write[s].kind = "edit" /\ meter' = [meter EXCEPT ![id].version = @ + 1]
          \/ write[s].kind = "delete" /\ SoftDelete(id)
       /\ Done(s, id, meter[id].version + 1) \/ Refuse(s)
    \/ id \notin Live /\ id # 0 /\ Refuse(s) /\ UNCHANGED meter

\* The write is done and answered, or its answer is lost.
HandleWrite(s) ==
    /\ write[s].pc = "sent"
    /\ Create(s) \/ Change(s, write[s].id)
    /\ meter' = meter \/ write'[s].version # 0 \/ surprises < MaxSurprises
    /\ surprises' = IF meter' # meter /\ write'[s].version = 0 THEN surprises + 1 ELSE surprises
    /\ UNCHANGED <<completed, query, list, form, asked, told, announced, dismissed, clicks>>

\* The request never reaches the service.
WriteFails(s) ==
    /\ write[s].pc = "sent" /\ Surprise
    /\ Refuse(s)
    /\ UNCHANGED <<server, query, list, form, asked, told, announced, dismissed, clicks>>

-----------------------------------------------------------------------------
(* The query.  A dialog covers the page while it is open.                   *)

Click == clicks < MaxClicks /\ clicks' = clicks + 1
NoDialog == form = NoForm /\ asked = 0

\* What the panel shows below the toolbar.
View ==
    CASE data = NoPage -> IF failed THEN "error" ELSE "skeleton"
      [] data # NoPage /\ data.rows = {} -> IF url = [Home EXCEPT !.page = url.page] THEN "no meters" ELSE "no results"
      [] OTHER -> "table"

\* Reintentar: the refresh of the page on screen.
Retry ==
    /\ NoDialog /\ View = "error"
    /\ Execute(url)
    /\ UNCHANGED <<server, query, dialogs, told, announced, dismissed, clicks, surprises>>

Type(text) ==
    /\ NoDialog /\ text # input /\ Click
    /\ input' = text
    /\ UNCHANGED <<server, url, debounced, list, dialogs, told, announced, dismissed, surprises>>

\* Mutant: the pause takes the text but the effect is not run.
PauseOnly ==
    /\ input # debounced
    /\ debounced' = input
    /\ UNCHANGED <<server, url, input, list, dialogs, told, announced, dismissed, clicks, surprises>>

\* The 300 ms pass without another key: the effect puts the search in the
\* URL, from its first page.
Pause ==
    /\ input # debounced
    /\ debounced' = input
    /\ IF input = url.search THEN UNCHANGED <<url, list>> ELSE GoTo([url EXCEPT !.search = input, !.page = 1])
    /\ UNCHANGED <<server, input, dialogs, told, announced, dismissed, clicks, surprises>>

\* The pills of the toolbar: updateParams.  The headers that sort change the
\* query in the same way; the order of the rows is left to their codes.
Refine ==
    /\ NoDialog /\ Click
    /\ \E status \in {"any", "CRITICAL"} : GoTo([url EXCEPT !.status = status, !.page = 1])
    /\ UNCHANGED <<server, input, debounced, dialogs, told, announced, dismissed, surprises>>

\* The arrows of Pagination count from the page on screen.
Turn ==
    /\ NoDialog /\ View = "table" /\ Click
    /\ \/ data.of.page > 1 /\ GoTo([url EXCEPT !.page = data.of.page - 1])
       \/ data.of.page * PageSize < data.total /\ GoTo([url EXCEPT !.page = data.of.page + 1])
    /\ UNCHANGED <<server, input, debounced, dialogs, told, announced, dismissed, surprises>>

\* The link of the sidebar: the same page without a query; the effect puts
\* the search of the box back.
Sidebar ==
    /\ NoDialog /\ Click
    /\ GoTo([Home EXCEPT !.search = debounced])
    /\ UNCHANGED <<server, input, debounced, dialogs, told, announced, dismissed, surprises>>

InFlight == {s \in Slots : write[s].pc # "off"}

\* The operator leaves and comes back: a page mounted anew.
Reopen ==
    /\ Click
    /\ url' = Home /\ input' = "" /\ debounced' = ""
    /\ data' = NoPage /\ failed' = FALSE /\ load' = [pc |-> "sent", page |-> [NoPage EXCEPT !.of = Home]]
    /\ form' = NoForm /\ asked' = 0
    /\ write' = [s \in Slots |-> [write[s] EXCEPT !.mounted = FALSE]]
    /\ dismissed' = (InFlight # {})
    /\ UNCHANGED <<server, told, announced, surprises>>

-----------------------------------------------------------------------------
(* The dialogs.                                                             *)

IsDeleting == \E s \in InFlight : write[s].kind = "delete" /\ write[s].mounted
OnScreen == {row.id : row \in data.rows}

OpenForm ==
    /\ NoDialog
    /\ \/ form' = [NoForm EXCEPT !.kind = "create"]
       \/ \E id \in OnScreen : form' = [NoForm EXCEPT !.kind = "edit", !.id = id]
    /\ UNCHANGED <<server, query, list, asked, write, told, announced, dismissed, clicks, surprises>>

AskToDelete ==
    /\ NoDialog
    /\ asked' \in OnScreen
    /\ UNCHANGED <<server, query, list, form, write, told, announced, dismissed, clicks, surprises>>

NextSlot(s) == write[s].pc = "off" /\ s = Min({free \in Slots : write[free].pc = "off"})

\* The closure keeps the query of its render: refresh is that render's.
Request(kind, id, code) ==
    [pc |-> "sent", kind |-> kind, id |-> id, code |-> code, of |-> url, version |-> 0, mounted |-> TRUE]

\* The operator takes longer than the pause of the search to fill a dialog;
\* values that validate refuses send nothing.
Submit(s) ==
    /\ form # NoForm /\ form.slot = 0 /\ input = debounced
    /\ NextSlot(s) /\ Click
    /\ form' = [form EXCEPT !.slot = s]
    /\ \E code \in Codes :
         /\ form.kind = "edit" => code = meter[form.id].code
         /\ form.kind = "create" => Cardinality(Created) + Cardinality(InFlight) < MaxRows
         /\ write' = [write EXCEPT ![s] = Request(form.kind, form.id, code)]
    /\ UNCHANGED <<server, query, list, asked, told, announced, dismissed, surprises>>

Confirm(s) ==
    /\ asked # 0 /\ ~ IsDeleting /\ input = debounced
    /\ NextSlot(s) /\ Click
    /\ write' = [write EXCEPT ![s] = Request("delete", asked, meter[asked].code)]
    /\ UNCHANGED <<server, query, list, form, asked, told, announced, dismissed, surprises>>

\* Mutant: Cancelar is not disabled while the request is in flight.
CancelAnyTime ==
    /\ ~ NoDialog
    /\ form' = NoForm /\ asked' = 0
    /\ UNCHANGED <<server, query, list, write, told, announced, dismissed, clicks, surprises>>

\* Cancelar, disabled while the request of the dialog is in flight.
Cancel ==
    /\ \/ form # NoForm /\ form.slot = 0
       \/ asked # 0 /\ ~ IsDeleting
    /\ form' = NoForm /\ asked' = 0
    /\ UNCHANGED <<server, query, list, write, told, announced, dismissed, clicks, surprises>>

\* Escape, the cross and the backdrop close at any time.
Dismiss ==
    /\ ~ NoDialog
    /\ form' = NoForm /\ asked' = 0
    /\ dismissed' = (dismissed \/ InFlight # {})
    /\ UNCHANGED <<server, query, list, write, told, announced, clicks, surprises>>

-----------------------------------------------------------------------------
(* What the page does with the answers.                                     *)

DeliverLoad ==
    /\ load.pc \in {"answered", "failed"}
    /\ load' = Idle
    /\ failed' = (load.pc = "failed")
    /\ data' = IF load.pc = "failed" THEN data ELSE load.page
    /\ UNCHANGED <<server, query, dialogs, told, announced, dismissed, clicks, surprises>>

\* The toast of a write that was done.
Tell(w) == told' = IF w.version = 0 THEN told ELSE [told EXCEPT ![w.id] = w.version]

\* Mutant: the list is not asked for again.
DeliverWriteWithoutRefresh(s) ==
    /\ write[s].pc = "answered"
    /\ write' = [write EXCEPT ![s] = Free]
    /\ Tell(write[s])
    /\ IF write[s].version # 0 /\ write[s].mounted
       THEN form' = NoForm /\ asked' = 0
       ELSE form' = [form EXCEPT !.slot = IF @ = s THEN 0 ELSE @] /\ UNCHANGED asked
    /\ UNCHANGED <<server, query, list, announced, dismissed, clicks, surprises>>

\* handleSaved and confirmDelete: the toast, the dialog of its kind that is
\* open by now is closed, and the list is asked for again with the query of
\* the render that sent the request.  An error only ends the wait of the
\* form that sent it.
DeliverWrite(s) ==
    /\ write[s].pc = "answered"
    /\ write' = [write EXCEPT ![s] = Free]
    /\ Tell(write[s])
    /\ IF write[s].version # 0 /\ write[s].mounted
       THEN /\ Execute(write[s].of)
            /\ IF write[s].kind = "delete"
               THEN asked' = 0 /\ UNCHANGED form
               ELSE form' = NoForm /\ UNCHANGED asked
       ELSE /\ form' = [form EXCEPT !.slot = IF @ = s THEN 0 ELSE @]
            /\ UNCHANGED <<list, asked>>
    /\ UNCHANGED <<server, query, announced, dismissed, clicks, surprises>>

\* completedVersion changes: the page refreshes with the query it has.
Announce ==
    /\ announced < completed
    /\ announced' = completed
    /\ Execute(url)
    /\ UNCHANGED <<server, query, dialogs, told, dismissed, clicks, surprises>>
-----------------------------------------------------------------------------
Server ==
    \/ OtherWrites \/ CompleteAnalysis \/ HandlePage \/ HandleCount \/ LoadFails
    \/ \E s \in Slots : HandleWrite(s) \/ WriteFails(s)

Operator ==
    \/ \E text \in {"", "text"} : Type(text)
    \/ Retry \/ Refine \/ Turn \/ Sidebar \/ Reopen
    \/ OpenForm \/ AskToDelete \/ Cancel \/ Dismiss
    \/ \E s \in Slots : Submit(s) \/ Confirm(s)

Page == Pause \/ DeliverLoad \/ Announce \/ \E s \in Slots : DeliverWrite(s)

Next == Server \/ Operator \/ Page

\* Requests are handled and answered and timers fire; operators owe nothing.
Fairness ==
    /\ WF_vars(HandlePage) /\ WF_vars(HandleCount) /\ WF_vars(DeliverLoad)
    /\ WF_vars(Pause)
    /\ \A s \in Slots : WF_vars(HandleWrite(s)) /\ WF_vars(DeliverWrite(s))

Spec == Init /\ [][Next]_vars /\ Fairness

-----------------------------------------------------------------------------
(* Properties.                                                              *)

Resting == load.pc = "off" /\ ~ failed

\* Unless a dialog was left with its write in flight, a page at rest answers
\* the query of the URL, although every refresh after a write uses the query
\* of the render that sent it.
ListMatchesQuery == Resting /\ ~ dismissed => data.of = url

\* Unless a dialog was left with its write in flight, a page at rest shows no
\* version of a meter older than one the operator was told of, in particular
\* no meter told to be deleted; and statuses not older than the last analysis
\* announced.
NothingToldIsMissing ==
    Resting =>
        /\ dismissed \/ \A row \in data.rows : row.version >= told[row.id]
        /\ data.at >= announced

\* Unless a dialog was left with its write in flight, an answer closes only
\* the dialog that sent its request: no other form loses what was typed.
DraftKept ==
    [][\A s \in Slots :
         write[s].pc = "answered" /\ write'[s].pc = "off" /\ ~ dismissed =>
             /\ form # NoForm /\ form.slot # s => form' = form
             /\ write[s].kind # "delete" => asked' = asked]_vars

\* What is typed reaches the list: the page comes to rest, or shows an error,
\* with the query of the box.
SearchSettles ==
    input # debounced ~>
        input = debounced /\ url.search = debounced /\ load.pc = "off"

=============================================================================
