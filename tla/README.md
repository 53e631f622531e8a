# Azimuthal: a verification development

Azimuthal is a self-hosted Go server for service desks (tickets), wikis (pages) and projects
(items, sprints) over one PostgreSQL database, with River for background jobs and an S3-like object
store for attachments. This directory models the parts of it whose correctness depends on the order
in which concurrent requests reach the database, checks them with TLC on small instances, and proves
the properties that matter most with TLAPS for every instance.

Every definition is a translation of code; `PROJECT.json` maps each one to its source lines.

## 1. The system

A request is served by one goroutine: middleware authenticates and authorises it, a handler
(`internal/core/api/*`) reads rows, a service (`internal/core/*`) applies rules, and an adapter
(`internal/db/adapters`) runs statements or a transaction. Nothing is cached in memory between
requests and no lock is held between two statements outside a transaction, so the unit of atomicity
is one SQL statement or one transaction at READ COMMITTED, and everything between two of them
interleaves with every other request. Unique indexes and foreign keys (`migrations/`) are part of the
program: handlers rely on them to settle races. Beside the server run the commands of the same binary
(`backup`, `restore`, `admin`), which share its database and object store.

| component | state | operations | what makes it correct |
|---|---|---|---|
| workflow engine (`core/workflow`, `api/tiergate`, `adapters/workflow_transition_tx.go`) | states, transitions, guards, approvers, post-functions, approvals | Gate, Offer, Decide, ApplyTransition, DecideAndApply | a status moves along an edge whose guards held, once, with its effects and its audit row; a gated edge only with a verdict |
| workflow administration (`api/workflows`) | the same rows, by organization | create, update, delete workflows, states, edges, tiers; assign | no dangling row; nobody else's workflow is touched |
| tickets, items (`core/tickets`, `core/projects`) | rows with number or key, kind, assignee, rank, relations | create, PATCH, assign, move, re-rank, relate, delete | numbers are unique, relations read the same from both ends, a re-rank is what was asked for |
| sprints (`core/projects/sprint.go`) | status of each sprint, sprint of each item | start, complete with disposition, plan items | one active sprint per space, unfinished items go on |
| boards (`core/projects/board.go`) | columns, and a column per status | save, reset, delete a column | no status falls off a saved board |
| custom fields, item types (`core/customfields`, `core/itemtypes`) | definitions, scopes, values | define, archive, delete, put on a form, set a value | a value was accepted by the definition it is shown under |
| comments, attachments (`core/attachments`, `core/storage`) | rows and objects | comment, upload, download, delete | a listed file opens; an internal note stays internal |
| customer portal (`core/portal`) | portals, requesters, links, sessions | request link, redeem, submit, reply, sign out | a customer reads and writes his own thread |
| wiki (`core/wiki`, `adapters/publish_tx.go`, `content_tx.go`) | page version and tree, drafts, revisions, tags | save, draft, publish, restore, move, delete | no published text or preserved block is lost unsaid; paths stay a tree |
| access (`core/access`) | grants, shares, roles | grant, bulk-apply, share, resolve, explain | the explanation is the decision; a share opens what it says |
| spaces (`core/spaces`) | owner, visibility, members | create, update, delete | one owner team; made whole |
| teams, people (`core/teams`, `core/people`) | team tree, memberships, roles | reparent, delete, enrol, demote, deactivate | acyclic tree of bounded depth, one primary team each, a last administrator |
| invites, credential links (`core/invites`, `core/credlink`, `cmd/server/admin.go`) | hashed single-use tokens | issue, resend, revoke, consume | one effect per token, none after it expires |
| authentication (`core/auth`) | accounts with a generation, sessions | login, refresh, logout, revoke, check | a revoked session stops working and no old credential opens a new one |
| audit log (`core/audit`) | an append-only log, read in pages | log, batch, read | whoever reads to the end has seen it all, once |
| views, queues, dashboards, search (`core/views`, `core/dashboards`, `core/search`) | stored queries, layouts, positions | CRUD, order, page, count, find | each reader is shown his rows, once, and counted as many |
| notifications, jobs (`internal/jobs`) | queue and rows | enqueue, work | told of something true |
| server process (`cmd/server`) | advisory store lock, archives | serve, backup, restore | never serves a database a restore is rewriting; a restore brings every file back |
| email, SSO, analytics | none | send; stubs | - |
| assessment and bundles (`internal/assess`) | none | parse exports | - |
| web client (`web/`) | none the server trusts | - | - |

Interactions. Status changes of tickets and items arrive by four routes (two `/status`, two
`/workflow-state`) and by approving a request; all go through the gate. PATCH, assignment and
re-ranking write the same rows without it. The gate reads memberships that the teams pages change and
configuration that administrators change; deleting configuration cascades into approvals. Removing a
person, deleting a team, accepting an invitation and adding a space member all write team memberships,
from which grants, shares, audiences and approvers are resolved. A deactivation, a logout, a password
or an address that changes all advance or close what the middleware compares a token with. Deleting or
moving a page takes its shares; deleting a row leaves its files, comments and relations, which are
reached only through it. Moves write the audit log in their own transaction, other events afterwards.

What is hard to test here: reads of one request used after another's write; two transactions racing for
one row; configuration removed under a request in flight; lists and logs read a page at a time while
they change; a long sequence of legal calls; a process that dies between two steps. `PROJECT.json`
lists each hazard at its line with the property that would catch it.

## 2. Modules

Three families, each with its own state.

**The transition engine.** `TierRules` holds the stateless rules of `core/workflow`;
`Transitions` the state machine, `TransitionProps` the properties and the refinement mapping to
`StatusLedger`, the abstract promise: a status changes only by a ledger entry that leaves the status
the thing really had, and a grant pays for one move. `MCTransitions` is a workflow of three states for
TLC, `TransitionsProofs` the theorems.

**Sprints** (`Sprints`, `SprintsProofs`). It shares the items with `Transitions` but no
column: of an item it keeps its sprint and whether its status is one of `DoneStatuses`, and lets the
status change at any time.

**The organization.** `Server` is the frame of a request: `req[h]` is what the handler `h` holds in its
locals, `held[h]` the rows its open transaction has locked with SELECT ... FOR UPDATE. A transaction's
writes are one step at its commit; its reads, locks and refusals before it are steps of their own, and
PostgreSQL's choice of a victim in a deadlock is `Victim`. `Org` holds the rows that everything shares,
with one operator per SQL statement, named as the query is. The rest extends them along the code's own
dependencies:

| module | models |
|---|---|
| `People`, `Teams` | roles, removal, deactivation; the tree, members, leads, deletion |
| `Sessions`, `CredentialLinks`, `Invites` | sign-in, refresh, sign-out, the profile; reset, email change, sign-in links and the `admin` command line; invitations |
| `Access`, `AuditLog` | capabilities, the resolver, the explainer, single and bulk grants; events, batches, the paged viewer |
| `Spaces`, `Workflows` | creation with its owner team, members, visibility; workflows of several organizations and what hangs from them |
| `Shares`, `Tags`, `Wiki` | the tree of pages and shares of it; tags; saving, drafts, publishing, restoring, moving, deleting |
| `Items`, `Relations`, `Comments`, `Backlog` | items, tickets, types; relations; comments and files; the order of the backlog |
| `Portal`, `Fields`, `Boards` | customers; custom fields and forms; saved boards |
| `Views`, `Queues`, `Dashboards`, `Search` | stored queries, their results and counts; queues; layouts and Home; search |

Three modules compose them and state what must be true of the parts together: `Accounts` (People to
Invites, and Workflows), `Workspace` (Access to Wiki, and AuditLog), `Tracker` (Items to Search). `MCAccounts`, `MCWorkspace` and `MCTracker` give TLC the
populations and workloads. `AccountsProofs`, `PeopleProofs` and
`GraphsProofs` hold the theorems about `Accounts`, `WorkspaceProofs` those about `Workspace`,
`TrackerProofs` those about `Tracker`.

**Recovery** (`Recovery`, `RecoveryProofs`). Processes that start, take the store lock,
migrate, serve uploads, back up, restore and may die at any step.

How `Transitions` corresponds to the code:

| model | code |
|---|---|
| `row[e]` | a row of `tickets` or `project_items`: `status`, `workflow_state_id`, `assignee_id`, `due_at` set or not, `resolved_at` set or not, `deleted_at` |
| `wf`, `states`, `edges`, `guards`, `approvers`, `postFns` | `spaces.workflow_id` and the `workflow_*` tables; an id is never reused, so what it names is a constant |
| `teams`, `members` | live teams, and effective membership |
| `approvals[a]` | `workflow_approvals` with its captured from and to |
| `audit`, `notices` | status-change rows of `audit_log`; notification jobs |
| `StartMove`, `StartStateMove` -> `ResolveMove` -> `EvaluateGuards` -> `LoadApprovers` | the four routes, `Gate.Evaluate`, `TierService.resolveMove` and `evaluateTiers`, one step per group of reads |
| `RequestApproval`, `ReadExisting`, `NotifyApprovers` | `requestApproval`'s INSERT under migration 047's index, the re-read on conflict, `notifyApprovers` |
| `PlanEffects`, `ApplyTransition` | `planEffects`; the transaction of `workflow_transition_tx.go` |
| `LegacyCheck`, `LegacyWrite`, `LegacyAudit` | the route in a space with no workflow |
| `StartDecide`, `CheckAuthority`, `DecideAndApply`, `NotifyVerdict` | `DecideApproval` and the deciding transaction |
| `StartRewrite`, `WriteRow` | PATCH, assign, unassign, `RankItemRelative`: read, then UPDATE the full row by id |
| `StartCreate`, `InsertRow`, `DeleteEntity` | creation at the initial position, soft delete |
| the administrator's actions | `api/workflows` and the teams pages, each one statement or transaction |

How `Sprints` corresponds to the code:

| model | code |
|---|---|
| `sprints[s]`, `items[i]` | `sprints.status`; `project_items.sprint_id`, live or deleted, done or not; the space of each, which never changes, is a constant |
| `RequestStart`, `CheckActive`, `Activate` | the three statements of `StartSprint`; `IndexConflicts` is migration 034's index |
| `RequestComplete`, `CheckNext`, `CompleteWithDisposition` | the read and validation, `validateNextSprint`, the transaction |
| `AssignToSprint`, `MoveToBacklog` | the two scoped UPDATEs, from `/items/{id}/sprint` and the backlog pair; `MoveToSprint` first reads that the sprint exists in the space, which stays true |
| `CreateSprint`, `CreateItem`, `DeleteItem`, `Finish`, `Reopen` | one statement each; `CreateItem` stores the `sprint_id` of the body, of which `Nameable` says what clients put there |


How the modules of the organization correspond to the code:

| model | code |
|---|---|
| `req[h].op`, `req[h].pc` | the route, and the next statement or transaction of its handler |
| `Begin`, `Go`, `Commit`, `End`, `Serve` | a request arrives and its middleware reads; the next statement; a transaction ends and the handler goes on; it answers; a handler of one statement |
| `GoLocked`, `Free`, `Wanted` | SELECT ... FOR UPDATE: wait until nobody holds the rows, then read them again |
| `account`, `role`, `tm`, `team`, `grants`, `sess`, `space` | users, memberships, team_members, teams, space_grants, sessions, spaces |
| `link`, `invite`, `mlink`, `psession` | credential_links, invites, requester_magic_links, the portal's session tokens |
| `page`, `rev`, `draft`, `share`, `etag` | pages, page_revisions, page_drafts, entity_shares, entity_tags |
| `item`, `seqno`, `itype`, `rel`, `comment`, `file`, `object` | project_items and tickets, project_item_sequences, item_types, relations, comments, attachments, the object store |
| `fdef`, `scope`, `fval`, `cols`, `cmap` | custom fields, their scopes and values; board columns and the map from statuses |
| `view`, `dash`, `tile`, `trail` | saved_views (queues too), dashboards, dashboard_gadgets, audit_log |
| `uses`, `joined`, `assigned` and the fields `pw`, `at`, `awake` of a session, `base`, `how`, `over` of a revision | history variables, for the properties; nothing reads them but `assigned`, which is spaces.workflow_id |

Abstractions. Descriptions, wording, colours and avatars are left out, and so are titles, priorities and
renames but where lists are sorted by them; an operation that writes only such columns is not an action. Hashing, signing, mail, S3, the
dump and the ranking of text are external: a token is an id, a hash is its secret, a rank is a number.
Time is a clock of a few ticks in `AuditLog` and the expiry of one row elsewhere. A document is a text,
its preserved blocks and the tags typed in it. A query keeps modules, spaces, assignees, kinds,
negation and all six sort fields; its other filters (status, priority, sprint, text, dates) are clauses of
the same shape on other columns. The columns lists are sorted by are in every row of `item`: due date,
priority and title come with requests, `updated_at` is a stamp later than any before at each UPDATE of
the row, and `resolved_at` follows the status moves, which are in `Items` as what their UPDATE leaves in
these columns; a move's legality and its post-functions are `Transitions`, and the stamp that planning an
item on a sprint leaves is not modelled.
Pages stand for tickets and items in `Tags`, whose service is the same for all three. In
`Transitions` tags behave as the due date does, a second identical guard is left out, and the team
tree is effective membership. `CompleteWithDisposition` runs two statements at READ COMMITTED; what
commits between them leaves the rows as it would have just after, so the action is one step.

## 3. Runs

| run | question and answer |
|---|---|
| `TransitionsGuards` | Guards, approvers, post-functions and memberships change mid-flight: no gated edge is crossed unapproved, notices are true, effects ride the move, every step is one of the ledger's, and the picker offers exactly what the gate would put to the guards. |
| `TransitionsGraph` | States, edges and approvers are created and deleted, entities too: one pending request, approved exactly when moved, along its edge, status and state id in step, verdicts final. |
| `TransitionsBare` | The workflow is assigned after requests started on the no-workflow path: under weak fairness of each handler every request is answered. |
| `StaleRewrite` | *violated*: a PATCH that read before a move writes the old status text over the new one and leaves the new state id. |
| `SprintsRace` | Two handlers start and complete sprints of two spaces while items are created, planned, finished: one active sprint per space, every item on a sprint of its own space. |
| `SprintsDrain` | Completions race, with each other and with items being finished: a completed sprint neither keeps unfinished work nor receives it. |
| `Accounts` | Nineteen workloads: administrators remove each other, teams are reparented and deleted, sessions opened, refreshed and ended, links and invitations used twice, the command line used beside the owner, workflows edited from two organizations. |
| `LastAdmin` | *violated*: a member promoted after `RemoveFromOrg` read his role is removed without the lock, and no administrator is left. |
| `Workspace` | Sixteen workloads: grants single and in bulk beside the audit viewer, spaces, shares, moves, deletions, and two authors of one page. |
| `Tracker` | Thirty-two workloads: items to search; in one of them rows are edited, moved and resolved between the pages of lists that are sorted by what is written. |
| `DeadQueue` | *violated*: a deleted queue keeps its position, and the order of those that are left can no longer be set. |
| `Recovery` | Three processes, two files, two archives: no restore under a server, and every file the database lists opens. |

Bounds. A race has two sides: two handlers everywhere, three processes in `Recovery` (a server, a
backup and a restore). `Transitions` and `Sprints`: up to `MaxRequests` requests (a request, a decision
and an interfering move need three) and `MaxEdits` edits (delete and create again need two); two or
three approvals, so that a second request can follow a decision; three sprints, of two spaces, and five
requests where both are to be completed in turn. The organization runs are unions of small workloads.
A workload of `Mixes` names the operations it offers, `width`, how many handlers may be busy at once,
`budget`, how many requests are made, and the values requests may carry; `Casts` says what there is when
it begins. A workload of width 2 and budget 2 to 4 is for the operations that meet at one row and covers
each pair of them in every interleaving, with a third request to set the scene or to look afterwards; one
of width 1 and budget 3 or 4 is for sequences of legal calls. An initial state chooses the workload, so
a property is checked in all of them, and the passing runs together take every disjunct of every
next-state relation. Four ids of a kind are enough for the requests there are; ids that run out disable
creation only.

Races that are not offered to the runs, because there the code does not keep the property, or claims
nothing, are section 6.

Fairness. `Fairness`, in `Transitions`, is weak fairness of each handler's own steps: a goroutine
that has been scheduled runs its next statement, and no step waits for another request. Nothing is
assumed of clients or administrators. Only `TransitionsBare` uses it, without symmetry. Deadlock is
checked in the runs of `Transitions` and `Sprints`, where `Quiet`, the idle server, is the only way to
stop; the other runs stop when their budget is spent, and `Victim` is how row locks resolve.

Each property of a passing run has a mutant in its module, commented *Mutant*, that a plausible slip
in the code would amount to; substituted for the original definition it makes the run fail.

## 4. Properties

What the organization runs check, beyond the engine and the sprints:

| property | says |
|---|---|
| `AdminRemains` | an organization keeps an active administrator |
| `KillIsPermanent`, `NoSessionOutlivesItsCredentials` | a token once refused stays refused; an accepted session was opened under the password and address the account has now |
| `TeamsAreSound` | one live primary team per member, nothing for others, paths follow parents within the depth |
| `TokensSpentOnce` | each link and invitation has one effect, with its current token |
| `GraphsStayWhole`, `OnlyOwnAdministrators` | no dangling workflow row; a workflow changes by its own organization's requests |
| `ExplainAgrees`, `BulkLandsWhole`, `AuditTrailAddsUp` | the explanation is the decision; a bulk is all of its cells; a trail read to its end shows each event once |
| `SharesStayInSpace`, `CascadeCoversTheSubtree` | shares go with what they opened, and open the subtree by parents as by paths |
| `RevisionsTellTheStory`, `NothingLostSilently`, `GoesOnlyByRequest` | history has each version once and says what the page says, in both its forms; nobody overwrites a version or a preserved block he was not shown; drafts and tags go by their owners' requests |
| `LookupsAgree`, `RowsFitTheirConfiguration` | numbers, keys and relations; values fit their field, statuses their column |
| `TicketsTalkToTheirOwn` | a link opens one session, a customer sees his thread and no internal note, a listed file opens |
| `ResultsAddUp`, `SearchShowsTheReadable`, `AudienceIsOne` | pages come in the order asked for and never show one place twice, a row that stands still is on exactly one of them, counts and buckets agree, search shows what may be read, Go and SQL agree on an audience |
| `OrdersAreKept`, `LayoutsLandWhole` | queues and the backlog stay as they were put; a layout is one person's |
| `NoRestoreUnderAServer`, `EveryFileCanBeOpened` | the store lock; archives and restores keep files with their rows |

`CompleteSprint` validates its successor before the transaction, and yet in `SprintsDrain` nothing is
carried onto a completed sprint: to complete the successor another request must first have started
it, hence have completed this sprint and emptied it. Where an item is planned onto the completed
sprint, or reopened there, in the meantime, that argument fails, and so does the property;
`SprintsDrain` excludes both. `PositionInStep` and `LedgerRefined` are not checked where clients
rewrite rows, for `StaleRewrite` shows that they fail there; nor `GatedMovesWereApproved` where edges
are deleted (section 6). In `TransitionsGuards` an edge loses and gains approvers while moves are on
their way through it; no edge is created there, for a new one has no approver and is never under that promise.

## 5. Proofs

`TransitionsProofs` proves, for any sets of users, entities, handlers, approvals, states and edges,
any workflow, and any bounds:

| theorem | statement |
|---|---|
| `TypeCorrect` | `Spec => []TypeOK` |
| `OnePending` | `Spec => []OnePendingPerEntity` |
| `ApprovedExactlyWhenMoved` | `Spec => []ApprovedIffMoved` |
| `DecisionsFinal` | `Spec => DecisionIsFinal` |
| `NoticesTrue` | `Spec => []NoticesAreTrue` |
| `RecipientsMayDecide` | the recipients of a request are the users who may decide it |
| `GatedEdgesNeedVerdicts` | `Spec => []GatedMovesWereApproved`, if no edge is deleted (`EdgesStay`) |
| `PositionsAgree` | `Spec => []PositionInStep`, if every writer of a status is the engine (`EngineWrites`) |
| `MovesAreEdges` | `Spec => []MovesFollowEdges`, if moreover a name belongs to one state (`NamesStand`) |
| `EffectsRide` | `Spec => EffectsRideTheMove` |
| `EngineKeepsALedger` | `Spec => LedgerRefined`, if every writer of a status is the engine (`EngineWrites`) |

`SprintsProofs` proves, for any spaces, sprints, items, handlers and bounds:

| theorem | statement |
|---|---|
| `SprintsTypeCorrect` | `Spec => []TypeOK` |
| `OneActive` | `Spec => []OneActivePerSpace` |
| `ItemsStayHome` | `Spec => []ItemsStayInTheirSpace`, if clients create items on sprints of their own space |
| `LifecycleInTurn` | `Spec => SprintLifecycle`, if there is one handler |
| `CompletedSprintsAreEmptied` | `Spec => []NoWorkOnACompletedSprint`, if no request creates an item on a sprint, plans one onto it or reopens one (`NobodyPlans`) |
| `CarriedWorkLandsOpen` | `Spec => CarriedWorkLandsOnAnOpenSprint`, likewise |

`RecoveryProofs` proves, for any processes, files and archives:

| theorem | statement |
|---|---|
| `RestoresRunAlone` | `Spec => []NoRestoreUnderAServer` |
| `FilesStayWithTheirRows` | `Spec => []EveryFileCanBeOpened` |
| `RecoveryTypeCorrect` | `Spec => []TypeOK` |

`AccountsProofs` proves of the organization, for any number of people, sessions, links, invitations,
handlers and workloads:

| theorem | statement |
|---|---|
| `TokensAreSound` | `AccountsSpec => []Sound` |
| `KillsLast` | `AccountsSpec /\ []AllOpenedAwake => KillIsPermanent` |
| `CredentialsEndSessions` | `AccountsSpec /\ []AllOpenedAwake /\ []ProfilesWriteBackWhatStands => []NoSessionOutlivesItsCredentials` |
| `LinksAreSpentOnce` | `AccountsSpec => []LinksSpentOnce` |
| `InvitesAreAcceptedOnce` | `AccountsSpec => []InvitesAcceptedOnce` |
| `TokensAreSpentOnce` | `AccountsSpec /\ []NoResendMeanwhile => []TokensSpentOnce` |

`PeopleProofs`, of its people and teams:

| theorem | statement |
|---|---|
| `AnAdminRemains` | `AccountsSpec /\ NobodyIsRaisedMeanwhile => []AdminRemains` |
| `PathsFollowTheirParents` | `AccountsSpec /\ []SubtreesSeenWhole => []PathsFollowParents` |
| `TeamsStaySound` | `AccountsSpec /\ []SubtreesSeenWhole /\ []WhatWasReadStands => []TeamsAreSound` |

and `GraphsProofs`, of the workflows beside it:

| theorem | statement |
|---|---|
| `GraphsAreWhole` | `AccountsSpec => []GraphsStayWhole` |
| `OnlyOwnersAdminister` | `AccountsSpec => OnlyOwnAdministrators` |

`WorkspaceProofs` proves of spaces, teams and pages, for any number of people, organizations, teams, spaces,
pages, handlers and workloads:

| theorem | statement |
|---|---|
| `ContentIsSound` | `WorkspaceSpec => []ContentInv` |
| `HistoriesTellTheStory` | `WorkspaceSpec => []RevisionsTellTheStory` |
| `NobodysWorkIsLost` | `WorkspaceSpec => []NothingLostSilently` |
| `WhatGoesWasAskedFor` | `WorkspaceSpec => GoesOnlyByRequest` |
| `SharesFollowTheirPages` | `WorkspaceSpec /\ []SharesLandWherePagesAre => []SharesStayInSpace` |
| `ExplanationsAgree` | `WorkspaceSpec /\ []GrantsAreRoles => []ExplainAgrees` |

`TrackerProofs`, of items, tickets, comments, files, customers and dashboards, for any number of each, of people,
spaces, handlers and workloads:

| theorem | statement |
|---|---|
| `TalkReachesItsOwn` | `TrackerSpec => []TicketsTalkToTheirOwn` |
| `LookupsAlwaysAgree` | `TrackerSpec => []LookupsAgree` |
| `RowsKeepWhatTheyAre` | `TrackerSpec => [][RowsStay]_trackerVars` |
| `LayoutsAlwaysWhole` | `TrackerSpec => []LayoutsLandWhole` |
| `OneAudience` | `TrackerSpec => []AudienceIsOne` |

All of these assume the named `ASSUME`s on constants: that NULL is no id, that edges join states, that the
initial rows are typed and satisfy their foreign keys, that the teams above a team are of its organization,
that pages at the start are in their first version and shares where their pages are, that links and invitations that are there at the
start have not been used, that items at the start are numbered as the counter numbers them, a customer's session
has its consumed link and a dashboard one whole layout, that an organization starts with an active administrator, live teams start on
paths of live teams and each member with one primary team, and that every workload has a population and
asks for roles and teams there are. Where a theorem needs more, the
condition is part of its statement and explained below.

*Transitions.* `TypeOK` is not inductive: a step that dereferences `req[h].edge` needs it not to be
NULL, which follows from where the handler is (`Carries`), and a notice of a verdict needs the approval
to name its requester (`ApprovalsCarry`). That `NotifyVerdict` finds such an approval follows only from
what the handler remembers of it: `Remembers` says that the approval a request carries is the one whose
entity, status and target it carries, and it survives other handlers because an approval that was asked
for keeps them (`Keeps`). `Inv`, the conjunction of these, is inductive. `DecisionIsFinal` is `Keeps`;
`OnePendingPerEntity` is inductive beside `Inv` since only an INSERT that found no pending request makes
one; `ApprovedIffMoved` since only the approving step writes an audit row that names an approval, and
what it writes is what it remembers.

`GatedMovesWereApproved` is inductive with `GateInv`: an edge that the gate let through without an approval
had no approver at that moment (`EdgesOnRecord`, `Opened`), so it is in `opened`, which only grows. Deleted
edges break it, as section 6 says, hence `EdgesStay`. `PositionInStep` is a consequence of `StepInv`: a request
aims at the state its target names (`Aimed`), the approval it serves does too (`Served`), and rows agree
(`Agrees`). Since the write compares only the text it read, the state that goes with the text cannot be
deleted while a row holds it, which is a foreign key. `EngineWrites` says that the space has its workflow
from the start and no client rewrites rows; `StaleRewrite` shows what happens without. `MovesFollowEdges` is
the strongest: between the gate's read of the current state and the write, other requests move the row and
administrators delete and create states. `FollowInv` says that what a request carries leaves the state its
edge leaves, or else the name it read belongs to no live state any more (`NoLonger`), in which case no row
holds it and the write finds nothing. That needs a name not to come back, `NamesStand`: TLC finds the
counterexample when a deleted state's name is given to a new one.

`EffectsRide` needs that the row a creation inserts is unborn until it does (`Births`: an id is minted for one
request) and that a move without an edge carries no post-functions (`Planned`), which is the no-workflow
path. `EngineKeepsALedger` is the refinement. The steps that move an entity are the ledger's moves: the
compare-and-swap makes the audit row leave the status there was, `Agrees` makes it the entity's, and an
approving step adds exactly the approval that its audit row names, which was pending, to those that are
spent. An insertion is the ledger's creation and every other step stutters.

*Sprints.* `StatusChanges` lists the ways a step can change a sprint's status, and the rest follows from
it. `OneActive` needs nothing of what requests have read: the index is enough. `ItemsStayHome` needs
that an accepted successor is in the space of the sprint it succeeds (`SuccessorsAtHome`), because the
statement that moves the items has no space predicate. `LifecycleInTurn` is inductive with
`ReadsAreCurrent`, what a request read is still so, which is what a second handler breaks.
`CompletedSprintsAreEmptied` is the argument of section 4 made exact. An item comes onto a sprint only by a
completion that has work to carry; the sprint completed is active or completed by then, its successor was
not completed when it was checked, and a space has one active sprint, so the successor is active or completed
only when nothing unfinished is left to carry (`CompletionsInTurn`). A stale start that makes a completed sprint active again does no harm: it
was emptied, and stays so.

*Recovery.* The lock alone gives the first theorem: `Locks` says that who runs holds it shared, who
rewrites holds it exclusively and then nobody else holds it. The second needs to know what an archive
holds while it is written. The dump is taken before the objects are listed, an object is put before its
row and never taken away once it has one, so what was dumped is in the store when it is listed and in
the archive when it is copied (`Backups`); for that a key between its object and its row must be its
server's alone, or another's failed upload could take a listed object away (`Keys`). `Restores` says what
is still to be put back; since a restore overwrites objects and removes none, it harms no archive. `Named`
says which processes may hold an archive, without which a damage of the archive could not be told from
that of another.

*Accounts.* `Sound` is the common ground: rows and requests keep their shape, and whoever holds a token, or
has read an account to open a session for it, holds a generation that the account has reached, and has still
only while it is active (`Opened`). It is inductive because every write to an account moves its generation
on or leaves its activity, password and address alone (`TokensAge`), whatever was read before it. From it,
a token that was refused is refused for good: a generation that is behind stays behind, a session that was
revoked stays revoked, and a link that was consumed or superseded never comes back (`LinksAge`).
`CredentialsEndSessions` adds `Fit`: while an account keeps the generation of a session, or of a sign-in in
flight, it keeps the password and the address that it was opened with. `LinksAreSpentOnce` follows from
`Burns`, the row lock's doing: who is between the consumption and its effect holds the link's row alone, and
the effects counted are one if the link is consumed and none before. `InvitesAreAcceptedOnce` follows from
`Joins`: an invitation that was accepted has one acceptance and any other none, for `MarkInviteAccepted`
finds the row pending or rolls the membership back.

Three theorems have premises on the behaviour, because the code keeps less without them and section 6 says
how. `AllOpenedAwake`: no session is opened for a deactivated account, which a sign-in link does when it is
consumed beside a deactivation. `ProfilesWriteBackWhatStands`: no profile change writes back an address that
has changed since it was read. `NoResendMeanwhile`: an invitation is not resent between the load and the
acceptance, which is guarded by its id alone. The workloads of the run satisfy all three.

*Administrators.* `Staffed` says what the locks give each of the requests that are to take somebody away. It has
chosen the row of its own person, if he is an administrator (`TargetChosen`); of two such requests one has chosen the
other's person's row too, since each chooses every administrator that it finds (`OneChoseBoth`); so two that are ready to write
would both hold one row, and one that is ready to write has counted another administrator, whom nobody
takes away before it does (`OthersCounted`). That needs an administrator to be one from the moment a request
looks: `NobodyIsRaisedMeanwhile`. A person promoted after `RemoveFromOrg` has read his role as a member's
is removed with no lock held, which is the run `LastAdmin`; the other administration workloads satisfy the premise.

*The tree of teams.* `ForestInv` says that a live team is at the end of its path, that each team on a path is
live, of the same organization, and has the path down to itself (`Forest`), and what a request that rearranges the tree still
has of it: the rows that it has locked are live and are the whole subtree (`Rearranging`), which nobody else
can extend, for to come under a team one locks it. A move rewrites the paths of a subtree with one prefix, and
the team it goes below is not in it, being locked and not on it. The premise `SubtreesSeenWhole` is the gap in this:
before a deletion has its lock, a team may come under the one it waits for.

*Members.* `Enrolled` says of everybody where he sits (`Seats`: one live primary team for a member, no team row
and no grant for anybody else, and a default team in each organization that lives), of an invitation that its team is of its organization, and of
a request what it has read. Each write either moves one person (`OneMoves`) or nobody (`SeatsKept`). That two
writers never give a person two primary teams is the unique index's doing: a statement that would is rolled back
(`AtMostOne`), so what is left to show is that he has one. The index does not say that the team lives, that the person is a member,
or that a primary team which goes is replaced; for these the handlers rely on a read made in a statement of
its own, of rows that it does not lock. `WhatWasReadStands` is the premise that, at the first write, the person is still a member, the
team is still live, and the primary teams are those that were read. Section 6 says what happens otherwise; the workloads of the run
satisfy the premise, and the deletions, removals and acceptances that they do interleave keep the invariant.

*Workflows.* `GraphInv` is `Sound` with `Graphs` and `FlowRequests`. `Graphs` is what the foreign keys and the guarded
statements keep: states are of live workflows, an edge joins live states of its own workflow, guards and the
like hang from live edges, a workflow has one initial state at most, and a space follows a live workflow of
its organization. `FlowRequests` is what a handler still has of the ids it has checked when it comes to write:
a row may be gone but, ids not being used again, is no other organization's (`RowsAge`). `OnlyOwnAdministrators`
rests on it, since the write does not repeat the check.

*Pages.* `ContentInv` says what the two-statement writers leave true between their statements. A version-guarded
update writes the page and its history row in one transaction, so the history ends in what the page says
(`RevisionsTellTheStory`) wherever no creation is half done; for that one, `Unborn` says that the history has no
first row yet and that the page says what its creator wrote until somebody else saves, and `OneCreator` that
there is one such request of a page. `RequestSound` is what an author carries from his reads to his
publication: the version he started from is in the history, its preserved blocks are in what he publishes or
given up (`AllKept`), and a history row is never rewritten, so other people's writes do not disturb it. Drafts
and tags are lost only in three actions, each of which names its page and its author. Since a request on other
rows says nothing of these, the lemmas of the first part set it aside once (`Aside`).

*Shares.* Nothing but an insert makes a share active, and a deletion or a move revokes those of every page it
reaches, by the same path. The insert does not ask for the page again, hence `SharesLandWherePagesAre`:
no page goes while a share of it is being made. Section 6 says what happens otherwise; no workload offers it.

*The explanation.* The resolver asks for the teams of one organization, the explainer does not. They agree
since the teams on the path of a live team are of its own organization (`PathsAtHome`), which holds while a team
is created below another and while a subtree is moved, because the new parent is read, under its lock, in the
organization of the request (`TreeRequest`). `GrantsAreRoles` is the CHECK on `space_grants.role`; it is a
premise because a bulk application folds over a set of cells, which is induction over data. TLC explores one
organization here, and the theorem covers several.

*Items and tickets.* `NumbersKept` says that a space's items are numbered from one to its counter, a row's number
and key are its own, and a request that will write a whole row back has read it of a row that still says the same of its
type, space, number, key and author (`ReadRow`). An item takes its number from the counter in the statement that
inserts it, and a ticket reads the highest there is and finds it taken at the insert, so no lock is needed; what a stale
row can undo is only what the columns besides say. That no column of the first kind ever moves is `RowsStay`, proved of
every step along the way. `RelationsKept`, that a relation joins two different entities, is all that reading it
from both ends needs beside the definitions.

*Talk.* `LinksKept` says that who is between the consumption of a link and its session is alone with it, and that the link
is consumed by then. A newer link's invalidation would be in the way, since it chooses its rows first and writes them later: but it
holds their locks in between, and the conditional UPDATE of a redemption waits (`LinkRow(l) \in held[h]`). `ThreadsKept` says of a customer's
comment, and of a reply in flight, that it is on a ticket he asked for, whose author `RowsStay` keeps. `FilesKept` gives an
upload its key for itself, and the object before the row.

*Dashboards.* `LayoutsKept` numbers the saves. The transaction that replaces a layout deletes the tiles it saw and
inserts its own; the invariant says that what it saw is whole layouts of its dashboard (a tile of a save is among them
with every other tile of that save), that the save's number is on no tile yet and no other save has it, and that what a
dashboard shows is one whole layout, from position 0 up. So a save that deletes late finds either everything of what is shown
among what it deletes, or nothing; and in the second case the unique index on the position refuses its first
tile, unless one of the two layouts is empty. That nobody has two defaults is the other index's doing. `OneAudience` needs of
the invariant only that a tile names a view where its kind shows one.

Not proved, only model-checked: `OffersMatchTheGate`, which compares two evaluations of the guards;
of `Workspace`, `CascadeCoversTheSubtree`, which needs a
transitive closure, `AuditTrailAddsUp`, which needs sorting, and `BulkLandsWhole`, a fold over a set; and of `Tracker`,
`ResultsAddUp` and `SearchShowsTheReadable`, whose pages and sums are sorts and folds over rows, hence induction over
data, `OrdersAreKept`, whose ranks come from a sort too, and `RowsFitTheirConfiguration`, which is
true of what the workloads of the run interleave and not of everything: a value that is being set can land
after its field was deleted and made anew. Liveness under fairness and ENABLED are beyond the prover and stay with TLC.

## 6. Where the code keeps less

The three violated runs are disagreements with what the repository says of itself, quoted in
`PROJECT.json`. The models also have, or would have if their inputs allowed it, these behaviours,
about which no run makes a claim:

*The engine.* On the no-workflow path nothing compares the status read with the one replaced: two
changes, each legal from what it read, compose into one `validTransitions` forbids, and an audit row can
name a status that was no longer there. Deleting a transition strands the requests that ask for it: the
foreign key sets them to NULL and they block the entity's next one. A gated edge deleted between two
reads of the gate is crossed unapproved. A state deleted under a request in flight whose name is given to a new state lets
the request land along no edge: with its state gone, the gate read the initial state for it. An edge from a
state to itself is offered with an approval the
gate never asks for. A verdict counts though its approver was removed after he was checked.

*Sprints.* `StartSprint` updates by id, so a start that was validated before the sprint was completed makes
it active again. An item may be created on another space's sprint: the body's `sprint_id` is stored as
it comes.

*Items and backlog.* A full-row update undoes a concurrent assignment. Two overlapping rankings of one
backlog leave ties, and overwrite edits made meanwhile; equal ranks come in any order, for `sort.Slice` is
not stable, so a re-rank among ties may shuffle those it was not asked about. An item type deleted between the check and the
insert of an item leaves the item with a type that is gone. Two tickets created at once may draw one
number; the loser is refused and not retried. A space that takes over the key of a deleted one cannot
create items whose keys exist.

*Fields and boards.* A field deleted and defined again under its slug while a value is being set, or made
required while it is cleared, leaves a value the new definition never saw. `ListColumns` is two statements,
so a board may be read half before and half after a rewrite, though `board_config.go:69-70` says a reader
never does; a workflow state added after a board was saved has no column.

*Wiki and shares.* Two moves at once of a page and its new parent, and a page created under a parent that
is moving, leave a path that is not the parent's. A share made while its page is moved out or deleted
stays. A publish beside an autosave of the same author deletes the newer draft. Two replacements of a
page's tags may end in the union. `CreatePage` inserts its first revision in a second statement, which
may fail alone. A save may land after the page left the space it was checked in.

*Views, queues, dashboards, search.* A page of results that ends on a row without the sort column starts
over, since an empty key reads as no cursor (`NextPage`). The cursor compares with the sort column as it is at each
page, so a row whose column is written between two pages may pass the reader: sorted by `updated_at`
descending, the default, a row that any UPDATE touches before it was reached is on no page; ascending, a
row already shown is shown again; and both hold of `due_at`, `resolved_at`, `priority` and `title` when
they change. Of the rows that answer the query
throughout, `ResultsAddUp` excepts these and no others. A count and its buckets are two statements. Concurrent
creations draw one position, and the second is refused with 500; so is the second of two who press
*create defaults*. Deleting the starter dashboard has it seeded again at the next visit, though
`dashboard.go` says once. Updates of views and dashboards are last-writer-wins. A row whose rank changes
between two pages of a search may be missed or shown twice, and excerpts are fetched by id.

*Accounts.* An invitation resent while it is being accepted is accepted with the old token, though
`queries/invites.sql` says that the previous link stops working. Two requests for a reset leave two links; a reset from the command line leaves an outstanding
one. A profile change beside the consumption of an email change, and a sign-in link consumed beside a
deactivation and reactivation, leave a session under older credentials. Adding a member beside the
deletion of the team, his own removal or the acceptance of an invitation may leave him without a live
primary team, or with one while he is no member; a grant made beside either outlives its subject. A team
created below one whose deletion waits for its row, or moved there, keeps a deleted parent, though
`adapters/teams.go:251-254` says a team with children is not deleted: `ListSubtreeForUpdate` looks for them
before it waits. A person made by registration or on the command line has a membership before a team. `ProvisionOrg` joins an
organization whose slug exists and does not repair one half seeded. A team deleted while a space is
created or given to it owns it.

*Workflows.* A space assigned between `CountSpacesUsingWorkflow` and the delete loses its workflow. Two
workflows may both become the default of one kind. A workflow may lose its initial state.

*Portal and files.* Two requests leave two live links; signing out leaves outstanding ones; enabling a
portal again revives its sessions. An upload whose commit is ambiguous may leave a row whose object was
removed.

*Audit and jobs.* An event outside a batch is logged best effort after what it records. A trail filtered by
action shows a batch's size as the filter counts it, and the expansion has more. River works a job at least once,
and a notification may be inserted twice.

*Recovery.* A lock whose connection is lost is not taken again, though the server runs on. A backup beside
a restore dumps a torn database and reports success; the model marks such archives, and their restores,
`torn`. A server boots on a database a restore left half loaded. A restore that is killed ends here with its
process; the `psql` it forked may still run what was already piped to it, after the lock is gone, and that tail is
not modelled.

## 7. Not modelled, and why

The conversions of `wiki/doc` and the parsers of `internal/assess` and JQL are pure transformations of
trees and text, tested by golden files. Email is I/O; SSO and analytics are stubs. Self-registration, the
roadmap, avatars, the text of sprints and notification inboxes are single statements on rows nothing
else here reads, or transactions of the same shape as modelled ones. Configuration is read once at
start. Migrations as a process, generated row scanning, the web client, and test tooling are outside.
