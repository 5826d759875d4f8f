# Stampyx API: formal model

Stampyx API is the control plane of a small mail provider: accounts register
domains and mailboxes, mailboxes are read and written through HTTP, and the mail
itself is carried by Postfix, Dovecot and Sieve, which read the API's Postgres
tables and call it back. This directory holds TLA+ modules of the parts whose
correctness depends on the order in which things happen, the TLC runs that check
them on small instances, and TLAPS proofs of theorems about them for instances of
any size.

Run in this directory:

    tlc -workers 2 -config <run>.cfg <MC module>.tla
    tlapm <Module>Proofs.tla

`PROJECT.json` lists the runs, the source lines each definition stands for, the
hazards each property is for, the mutants that show each property can fail, the
findings and the theorems.

## 1. The system

Everything runs in one Node process over one Postgres database. A request is a
chain of awaits; between two of them any other request, callback or external actor
may act. No request holds a lock across an await, and only `RuleRepository.reorder`
opens a transaction. So the unit of atomicity is one SQL statement (or that one
transaction), one IMAP command, one file operation, and everything between two
awaits.

| Component | State | Operations | Talks to |
|---|---|---|---|
| Warmup (`src/warmup`) | `send_counter` | `consumeAllowance`, `status` | reads `domain`; called by every send |
| Domains (`src/domains`) | `domain` (DKIM key, `verified_at`) | create, verify, delete, DNS report | DNS; its cascade deletes mailboxes |
| Mailbox authentication (`src/auth`) | `mailbox` lockout columns, `mailbox_session` | login, refresh, logout, change password | `mailboxes`, `accounts` (standing) |
| Mailboxes (`src/mailboxes`, `src/me`) | `mailbox` | create, claim platform address, set password, delete | Dovecot (maildir, Sieve), `rules` |
| Message sending (`src/messages`) | `sent_message`, IMAP Sent and Drafts | send, save draft, discard draft | SMTP, IMAP, warmup, attachments |
| Received messages (`src/messages`) | `received_message`, a projection of IMAP | list, read, mark, move, remove, thread | IMAP |
| Attachments (`src/attachments`) | `attachment`, files | upload, remove, claim, attach | file system |
| Internal notifications (`src/internal/mail.controller.ts`) | rows of the two tables above | `mailReceived` (Sieve), `mailSent` (milter) | gateway |
| Gateway (`src/internal/mail.gateway.ts`) | socket rooms | connect, push | browsers |
| Rules (`src/rules`) | `folder_rule`, Sieve scripts on disk | create, update, reorder, delete, reconcile at start-up | `sievec`, file system |
| Folders (`src/folders`) | IMAP folders, rows of `received_message` | list, create, rename, delete | IMAP, rules |
| Accounts, provisioning (`src/accounts`) | `account` | register, self-provision | Keycloak, webhook |
| Administration (`src/admin`) | `account.status`, mailboxes | set status, reset password, delete | all of the above |
| Identity and guards (`src/auth`) | none | resolve a principal | reads the above |
| DNS checks, DKIM, HTML sanitising, aliases, config, logging, metrics | none or one table | pure functions, one statement each | - |

What is hard here, and which property of which module is about it, is the
`hazards` list of `PROJECT.json`. In short: values read in one statement and
enforced in a later one (the cap, the lockout, the attachment ceiling, UIDs);
three-statement operations that fail or are overtaken in the middle (token
rotation, saving a draft over another); two writers of one row in either order
(`recordSent` and the milter); one staging file for all regenerations of a
mailbox's script; a projection of a store that changes by itself; a reply lost
after the deed.

What makes each component correct:

- *Cap*: an account's counter of a day stays within the curve; nothing an account
  can do raises its cap, only time does; three awaits amount to one atomic quota.
- *Sessions*: the lockout bounds wrong guesses though it is checked before the slow
  hash; replaced passwords end sessions, up to those under way.
- *Sending*: what the MTA took was charged for, is within the attachment limit and
  is recorded; the milter's report is never overwritten; saved writing is never
  lost while drafts replace each other; a row always has its bytes.
- *Rules*: at rest, Dovecot runs the script of the rules there are unless edits
  overlapped or a regeneration failed; a restart repairs it. The script is a whole one
  at every moment unless two regenerations shared the staging file, and then one of
  them is answered an error.
- *Projection*: an operation on a row never reaches another message; where a folder is
  Trash, removing twice destroys only what was in it already; a quiet listing repairs
  everything.
- *Tenancy*: the rows that Postfix, Dovecot and the API join belong together in
  whatever order they come and go; overlapping claims of an address are bounded; an
  account's standing is an administrator's word, whatever event comes twice or late.
- *Gateway*: mail news reach the mailbox's own session and its account only, also
  after the mailbox and its address changed hands.
- *Folders*: rows follow a renamed or deleted folder and those below it; a deletion
  that nothing overlaps leaves alone a folder that a rule files into.
- *Threading*: an opened conversation is one conversation; once mail is left alone its
  rows agree on their thread, in whatever order they were written.
- *Filters*: the script does with a message what the rules say, announces every copy
  where it is stored, and the preview finds what the script will.
- *DNS report*: whoever follows the report ends with an ok that stays.

## 2. The modules

| Module | Models | State (code) | Actions (code) |
|---|---|---|---|
| `WarmupCurve` | `curve.ts` and the upsert's condition | - | `dailyCapFor`, `Permits` |
| `SendQuota` | the abstract promise: one atomic charge, within the curve | `used`, `first`, `clock` | `QTick`, `QStartCurve`, `QGrant` |
| `SendCap` | `consumeAllowance` step by step, and the domain operations the cap depends on | `owner`, `verifiedAt`: `domain`; `sent`: `send_counter`; `oldest`, `cap`, `day`: locals | `ReadOldest`, `ComputeCap`, `Upsert`; `CreateDomain`, `BeginVerify`, `RefuseVerify`, `MarkVerified`, `DeleteDomain`; `Tick` |
| `MailboxAuth` | one mailbox's login, refresh, logout, password changes | `failedLogins`, `lockedUntil`, password `version`: `mailbox`; `session`: `mailbox_session` | one action per await of each operation, `Tick`, `ToggleStanding`, `DeleteMailbox` |
| `Sending` | uploads, sends, drafts, milter reports of one mailbox | `boundTo`: `attachment.message_id`; `disk`; `drafts`, `filed`: IMAP; `status`: `sent_message`; `accepted`: the MTA | one action per await; `Fail` at any of them; `MailSent` |
| `RuleScript` | the rules of one mailbox and its Sieve script | `table`: `folder_rule`; `staged`, `live`: the two files, by what they hold; `fd`: the file each has open, by its present name; `snapshot`: the script it writes | the edits, `ListRules`, `IsCurrentCheck`, `OpenStaging`, `WriteStaging`, `Rename`, `FailRegenerate`, `Crash` |
| `Filters` | what a script does with one message, and the preview of a rule | `rules`: `folder_rule`; `message`; `at`, `left`: where the script is, and the rules whose blocks it has not reached; `result`: what was stored, announced, forwarded | `SpamBlock`, `RuleBlock`, `End`; `condition` and `preview` as operators, on texts as sequences of characters |
| `Projection` | one mailbox's folders and `received_message` | `mail`, `uidNext`, `trash`: IMAP; `rows`; `row`, `opened`, `listing`: locals | `MailReceived`; `ListMessages`, `Upsert`, `Prune`; `Begin`, `Resolve`, `SetImapUid`, `Require`, `SetSeen`, `RecordRead`, `Move`, `Remove`, `Forget`, `Fail`; external: `Store`, `OtherClientMoves` |
| `Threading` | thread ids and opened conversations | `thread_id`: `received_message`; `mail`, `notices`: what is stored and announced | `threadOf`, `insert`; `listMessages`, `threadsOf`, `upsert`, `prune`; `requireMessage`, `listThread`, `fetchThreadBodies`, `Fail`; external: `Arrive`, `OtherClientRemoves` |
| `Folders` | one mailbox's folders as they change | `folders`, `mail`: IMAP; `rows`: `received_message`; `target`: a rule's folder | `create`, `createFolder`; `rename`, `renameFolder`, `renameSubtree`; `delete`, `ruleTargets`, `deleteFolder`, `deleteSubtree`; `listMessages`, `sync`; `mailReceived`, `PointRule`, `Fail`; external: `Deliver` |
| `Tenancy` | accounts, domains, mailboxes, the mail servers' views | `account`, `domain`, `mailbox`; `req`: each request's step and ids | `userRegistered`, `SelfProvision`, `FindAgain`, `createDomain`, `verify`, `seed`, `deleteDomain`, `createMailbox`, `createOnPlatform`, `describe`, `platformAddressFor`, `existsAt`, `insertMailbox`, `deleteMailbox`, `setStatus`, `deleteAccount`, `Fail`, ... |
| `Gateway` | sockets and rooms, over the rows of `Tenancy` | `socket`: principal, rooms, a join under way | `handleConnection`, `join`, `joined`, `leave`, `disconnect` |
| `DnsReport` | one check of a domain's report and the owner who follows it | `key`: `domain.dkim_*`; `records`: DNS; `line`: the report | `runDnsCheck`, `LookupFails`, `Recreate`; external: `Follow` |

How they go together. `SendCap` implements `SendQuota` (the refinement mapping is the
`INSTANCE` at its head), and `Sending` uses the cap as the one atomic step that
`SendQuota` promises. `Gateway` extends `Tenancy`: its steps are the API's, which
close or strand sockets as rows go, and the sockets' own. The notifications'
controller is divided: `mailSent` is in `Sending`; `mailReceived` is in `Projection`
(its row has no UID yet), in `Threading` (its thread id) and in `Folders` (its folder
may be gone). Drafts live in two modules: `Sending` follows their writing,
`Projection` their copies, UIDs and rows; `Projection`'s operation `"discard"` is
`discardDraft`. Rules too: `RuleScript` follows their table and file, `Filters` their
meaning, and `Folders` has the one folder a rule points at.

The `MC*` modules give instances to TLC: symmetry sets and the constants a cfg
cannot write. The `*Proofs` modules hold the theorems of section 5. A definition
whose comment starts with "Mutant:" stands before the definition it could replace;
no specification uses it, and each shows one property that it can be violated.

Conventions. `pc` (in the later modules a request's field `at`) says at which await a
request is; an operation's locals are variables by request, reset when it ends.
History variables say what the code does not remember (how often a token was traded,
what the milter said last, what was pushed, whether a request was cut short); a guard
reads one only to keep ids fresh, or, as `Sending.work`, to say which piece of writing
a Message-ID was drawn for. Ids, tokens and Message-IDs are random in the code: here
they come from a finite set and are drawn again only when nothing recalls them, or
never; `Tenancy` names a row by its key and turns an id that outlives its row into
`Gone`. `Gateway`, `Filters` and `DnsReport` carry their own name in their definitions'
(`FiltersInit`, `DnsNext`, ...), since a module holds their proofs together with
another's.

## 3. The runs

| Run | Instance | Question |
|---|---|---|
| `send_cap` | 2 senders, 2 domains, weeks of one day, 2 days and midnight in two ticks each | Is the counter within the curve, does only time raise a cap, is the quota atomic? |
| `mailbox_auth` | 2 requests, 3 tokens, a limit of 2, locks of 2 ticks of 4, 2 passwords | How many guesses does the lockout let in, how many sessions is one refresh token worth; what may outlive a password change? |
| `sending` | 2 requests, 2 files of which one fits, 2 Message-IDs of one piece of writing, a cap of 1, failures anywhere, under fairness | Do rows keep their bytes, messages their limit, reports their word, saved writing its copy; is what was taken recorded in the end? |
| `rule_script` | 2 requests and the start-up, 2 rules, 2 bodies, 2 crashes, any step failing | Is the script the rules' at rest; is it whole at every moment unless its file was shared, and who learns of that? |
| `uids` | 2 requests, 2 messages, 2 folders, one of them Trash or none, 2 UIDs a folder, 2 rows | Can an operation reach another message; what can overlapping removals destroy? |
| `listing` | 2 requests, 1 message in up to 2 copies, 2 folders, 2 UIDs a folder | Does a quiet listing make the rows the folder again? |
| `tenancy` | 2 identities of which one administers, a platform domain and a customer's, 2 local parts, 2 requests, 1 socket, 2 mailboxes at a time | Do the planes agree, are claims bounded, whose word is a standing, whom do news reach? |
| `dns` | each of the 5 checks on every zone, 2 creations again, 2 failed lookups, under fairness | Does following the report end? |
| `folders` | 2 requests, `inbox`, `a`, `b`, `a/c`, `b/c`, 1 message | Do rows follow the folders; does a rule's folder stay? |
| `threads` | 2 requests; one message replies to another that never arrives and is answered, the answer in Inbox and in Sent; 1 removal, 1 failure, under fairness | Is an opened conversation one; do its rows agree in the end? |
| `filters` | every two rules of every kind, in both orders and of one position, over messages of up to two letters; one rule of every operator with every value up to 2 and text up to 3 characters of a letter, `"`, `%` and `_` | Does the script what the rules say; does the preview agree? |
| `sieve_wildcards` | one rule as above, with `*`, `?` and a backslash | The violation of section 6. |

Why the instances are large enough. The races are between two requests, or a request
and one other actor. Two messages suffice to mistake one for the other, two copies to
choose one, two UIDs a folder for a message to leave a folder and come back. The clock
of `mailbox_auth` outlasts two locks, so that one lockout follows another and a failure
can come late for the first. `send_cap`'s two ticks a day let a verification fall
between two midnights, so that "whole days since" and "date" disagree. `rule_script`'s
two crashes let one interrupt the repair of the other, in the middle of a write. A
write there is one step between the file's truncation and its last byte, and a failure
or a crash may cut it short (`CutShort`); two requests are enough to share the staging
file in every way, since a rename leaves the file open under its new name. `uids` has
two rows at a time, in any two of the four places that two messages have in two
folders. `sending` has two files because `claim`'s sum needs one to fit and two not to,
and two Message-IDs so that one version replaces another. `folders` has a folder below
each of two, so that a rename meets a target with rows of its own. `threads` has one
conversation: a fourth copy is beyond TLC here, and that several do not mix is a
theorem (`OpensOneConversation`). `tenancy` bounds mailboxes at two, enough for an
account's two addresses and for an address that changes hands; while a socket is
connected its requests come one after the other (`OneByOneUnderSockets`), which
`NewsReachOwner`'s theorem does without. The bounds (`MaxTime`, `MaxSent`,
`MaxVerifying`, `MaxVersion`, `MaxFailures`, `MaxPos`, `MaxCrashes`, `MaxUid`,
`MaxAnnounced`, `MaxMailboxes`, `MaxKey`, `MaxRemovals`, `Asked`, `Paths`, `Targets`,
`Cases`, the sets of ids) are each marked "bound" where they are declared. `Asked`
divides the operations on rows between `uids` (list, move, remove) and `listing` (list,
mark, open a conversation); `read` and `discard` are in the module and in its proofs,
and take the same steps.

`Sending.cfg`, `Filters.cfg` and `FiltersWildcards.cfg` say `CHECK_DEADLOCK FALSE`:
Message-IDs are never drawn twice, so a finite instance comes to an end when they are
used up, and a script ends with its message. The other instances never stop.

Fairness is assumed in three places, and `Fail` is never fair.

- `Sending!FairSpec`: every request takes its next step sooner or later. Node runs the
  continuation of every settled await; Postgres and files settle theirs while the
  process and the database are up. For IMAP and SMTP the code sets no time limit of
  its own: that a call to a silent server ends at all rests on the libraries' socket
  timeouts, which the fairness takes for granted. An await may settle by failing, which
  is the action `Fail`, at any step; so `SendGetsRecorded` promises the record unless
  some request was cut short.
- `Threading!FairSpec`: the same for steps, and each folder is opened again and again,
  strongly fair because a request that is busy cannot list. That an inbox is opened is
  the client's doing, not the code's: `ThreadsConverge` says what opening it achieves.
- `DnsReport!FairDnsSpec`: the owner goes on running the check and doing what it says,
  which is replacing the record shown, not adding one beside it. The PTR record is not
  the owner's: the reverse zone is the platform's, `requiredRecords` lists none, and
  the one who follows that check is the platform's operator.

## 4. What the runs show

- The cap holds across every interleaving of the three statements, with domains
  verified, verified twice and deleted in between, and across midnight. A stale cap
  is never larger than some cap in force that day, because only time raises one.
- The lockout admits `MAX_ATTEMPTS - 1` wrong passwords before the first lock and,
  for each lockout, at most one for every concurrent request, with lockouts at least
  `LOCK_MS` apart: `registerFailedLogin` extends the lock without looking whether
  one is in force, which is what keeps late failures from being free.
- A refresh token is worth at most one session for each concurrent request, and none
  more once its row is deleted. A session opened with an older password survives
  `changePassword` only if its own login or refresh was overtaken by it.
- Attachment rows keep their bytes whatever dies where; `claim` keeps the limit that
  concurrent uploads exceed. A draft that replaces another is written before the other
  is discarded, and every order of two such replacements keeps some version.
- Where regenerations do not share the staging file, the script in force is whole at
  every moment, failures and crashes included: truncating and writing are done under
  another name. Where they do, one may install what another has just truncated, or its
  own script with the tail of a longer one, and that may stay (section 6, 16). It is
  not unnoticed: each rename takes the staging file away, so when all have ended some
  rename found none, and its request was answered an error. The next regeneration that
  has the file to itself makes the script whole again.
- Removing destroys only what is in Trash, however removals overlap. A mailbox in which
  no folder has the special use `\Trash` has no such protection: there
  `message.service.ts:118-134` destroys from whatever folder the row is in, and what
  holds is that it destroys that row's message and no other.
- A row's UID never becomes another message's: rows are deleted, not moved, with
  their message, and a server gives a UID out once. What a race leaves in the rows ends
  with the next undisturbed listing.
- The mail servers' views and the API admit the same mailboxes in every order of
  registering, verifying, claiming, suspending and deleting: the foreign keys and the
  unique keys carry this, not the checks in the services. The check that an account
  has a platform address already is two awaits before the INSERT, so it is worth as
  many addresses as there are requests. A registration event never reopens what an
  administrator decided.
- A socket stays in the room of a mailbox that is deleted. It hears nothing of the next
  owner of the address, because a room is named by the row's id.
- A change of folders is two steps, IMAP first. Undisturbed and complete, the rows
  follow, with the folders below; otherwise some are astray until the folder is listed
  or deleted.
- Each listing takes threads from the rows that were there before it. A
  reply that came before its parent is corrected by later listings, folder by folder.
- The script stores and announces every copy once, in the order of blocks, with `stop`
  and the implicit keep; the preview agrees with it on every short text, with its own
  escapes for LIKE.
- Following the DNS report ends in an ok that stays, though only the first SPF, DKIM or
  DMARC record counts and failed lookups read as missing ones.

## 5. What is proved

For every value of the constants, under the assumptions named in the modules
(`CurveAssumption` and its like: sets are finite where they are counted, sentinels
are not members of the sets they extend, bounds are natural numbers).

- `SendCapProofs`: the curve is a natural number or unlimited and never falls
  as days pass if the table does not (`CurveMonotone`); types; `SentWithinCurve`;
  `OnlyTimeRaisesCap`; and that every step of `SendCap` is a step or a stutter of
  `SendQuota`. The inductive invariant says of a request in the middle of
  `consumeAllowance` that the cap it holds is at most the curve's for some instant of
  the day it will be charged to, counted from the first verification ever, and that
  every domain verified now was verified no earlier than that.
- `MailboxAuthProofs`: types; `GuessBudget` by `LockInv` (counter and lock are
  reset together, lockouts are `LOCK_MS` apart, and while a lock is in
  force no login starts, so the failures that came late for it and the logins still
  verifying together never grow); `RotationBudget` by `RotationInv` (the sessions a
  token was traded for and the refreshes that still hold its row are at most the
  requests, and there are no such sessions while the row stands);
  `StaleOnlyIfOvertaken` by `SessionInv` (an older version is only in the hands of
  overtaken requests).
- `SendingProofs`: types; `RowHasBytes` by `FileInv` (an upload's file is its own
  until its row is there, a removal's file has no row when it is unlinked);
  `SentWithinLimit`; `AcceptedWithinCap` by `ChargeInv` (messages taken and
  requests charged but not yet answered are together within what was charged);
  `LatestReportStands`; `WorkNeverLost` by `WorkInv`: versions are numbered in the
  order in which they were drawn (`Numbered`), a request replaces an older version of
  what it carries (`Replacing`), and when it discards that one, its own or a later one
  is in Drafts or was taken (`Landed`). So the latest version that landed is never the
  one discarded.
- `RuleScriptProofs`: types; `WholeUnlessShared` by `WholeInv` (a staging file that was
  not shared is in the hands of the only one who stages, truncated until written and
  whole after; a live file that was not is whole and open to nobody);
  `SharingIsAnswered` by `AnswerInv`, which counts: from a meeting on, those between
  open and rename are more than the staging files there are for them, one or none
  (`TooMany`), and each success takes one file and one of them away, so that the last
  can only fail; `RulesInForce` by `ForceInv` (a regeneration that no
  edit overlapped carries the table's script from its listing through its file to the
  live name, step by step).
  And for `Filters`: types; `AnnouncedWhereStored` and `FiledAsMeant` for any number of
  rules, by `ScriptInv`: the blocks reached come before the others (`InOrder`), and
  unless the message is spam either none of them has decided and the message is only
  marked, or one has, the last reached, and the script has stopped after doing what it
  says (`ByTheBook`). The tests are left open there: `FiledAsRulesSay` asks that they
  hold where the values say (`WildcardsAreLiteral`). When they do is a theorem about
  texts of any length: `PlainRulesLiteral`, for every rule but the `starts_with` and
  `ends_with` ones whose value has `*`, `?` or a backslash, so that the finding of
  section 6, 1 is about these only; and `PreviewFindsWhatIsFiled`, since ILIKE with
  `patternFor`'s escapes takes every value literally (`LikeIsLiteral`). `PlainRulesKept`
  puts them together.
- `ProjectionProofs`: types; `UidNamesItsMessage`, by: UIDs are unique and below the
  folder's next one (`UidsOnce`); every UID held, in a row, a local or a listing, was
  issued, and to its message (`RowsIssued`, `LocalsIssued`); and a row keeps its folder
  and message for life (`SameRow`), without which `setImapUid` would write a UID into
  another message's row. From the same invariant, `DestroyedOnlyFromTrash`: a move, a
  flag and a delivery never lessen the number of copies, since a folder and UID hold
  one copy at most; and what a removal destroys at its row's folder and UID is a copy
  of its row's message. It holds of a mailbox with any folder as Trash or with none;
  `trash` does not change, since no folder does here. And `ListingRepairs` by `Quiet`:
  until something else happens, what was listed is what the folder holds, and after
  `Upsert` the rows that are listed are as listed.
- `TenancyProofs`: types; `PlanesAgree` by `Housed` (a mailbox's account is there, and
  its domain is that account's or the platform's) and `Requested` (an id a request
  holds names a live row, or is `Gone`); `StandingIsAdmins`; `AddressBudget` by
  `Budgeted`.
  And for `Gateway`, `NewsReachOwner` by `Entitled`: a socket is in the rooms, or past
  the check for a room, of mailboxes that are there and its own, whatever `Tenancy`'s
  steps delete; it rests on `Tenancy`'s invariant.
- `ThreadingProofs`: types and `OpenedConversation`, by `Labelled` (a row's thread
  id is a message of the row's conversation) and `Fits` (so are the thread ids a request
  holds, and where it is says what it holds).
- `FoldersProofs`: types, with INBOX among the folders because no path that is to be
  renamed or deleted is INBOX and INBOX is below none (`InboxBelowNone`), and because a
  path that is taken along has a path to go to (`Shaped`); `TargetOutlivesDeletion` by
  `Awaited`: when a rule is pointed at the folder of a deletion that has asked the rules
  already, that is on record (`suspect`), and stays so while the deletion is under way.
  `RowsKeepUp` by `FollowInv`: an announcement and a listing under way are true of the
  mail (`Announced`, `ListingTrue`), and a row is where its message is, or will be there
  after the second step of the rename that its request is in, or has lost it to the
  first step of a deletion (`Follows`), all but on suspect paths. A change of folders
  that is not on record as overlapped is alone (`Watched`), so one request's two steps
  are all there is to show. The theorem has the hypothesis `NoWildcards`, that
  LIKE takes a name for itself only: without it the statement is false (section 6, 15);
  with it the rows that `renameSubtree` finds are those of the folders that RENAME took
  along (`SubtreeExact`, a lemma about prefixes of sequences). Type correctness and
  `TargetOutlivesDeletion` do without it.

`Escape`, `Unquote` and `Glob` are recursive functions on texts, and what they compute
is proved without the library's induction theorems, which take an operator as a
parameter. `TextInduction` has a set in its place: a set of texts that has every text
whose shorter texts it has is all of them, because the lengths of the texts outside it
would have a least one (`Least`, from the library's theorem that < is well-founded on
the naturals). `TextRecursion` shows from the same fact that a function defined from its
values on shorter texts exists, so that the three definitions mean their equations
(`EscapeEquation`, `UnquoteEquation`, `GlobEquation`). From there: unquoting takes off
what escaping put on, whatever else was escaped (`UnquoteEscape`); an escaped value before
a pattern takes itself and leaves the rest (`GlobLiteral`); so the four kinds of patterns
mean a prefix, a suffix, an occurrence and equality (`Patterns`).

`TenancyProofs` also has `DnsReport`'s types: a line shows records of the answer it
judges (`LinesShow`), and an answer is what is published or nothing.

What the theorems assume of data: `Filters` takes its rules and messages from a set of
cases whose values are texts and whose enumerations are `ruleSchema`'s. It does not
assume that positions differ, since nothing in the code makes them (section 6, 6):
`FiledAsMeant` is about tables whose positions do, `AnnouncedWhereStored` about any.

Only model-checked: the liveness properties `SendGetsRecorded`, `ThreadsConverge` and
`RepairEnds`. Liveness under fairness and ENABLED are out of the prover's reach. Every
other property of a passing run is the subject of a theorem. No module declares a
RECURSIVE operator; the sum of file sizes is a fold that the proofs use only through
`claim`'s own guard.

## 6. Where the code and its documents part

Each of these is a property stated in its module. Most quote a test or a document;
numbers 3 and 12 say what the reader of an answer would take it to mean, and number 16
what a staging file is for.

1. `Filters!WildcardsAreLiteral`, the run `sieve_wildcards`
   (`src/src/rules/sieve.ts:13`): `quoteMatch` puts one backslash before `*` and `?`,
   and a Sieve quoted string takes it away again, so `:matches` sees the wildcard;
   `sieve.test.ts:134` "escapes wildcards in :matches so a literal asterisk is not a
   pattern". A rule for subjects that start with `*` applies to every message.

TLC also violates each of these when it is given as an INVARIANT (the third and the
twelfth: as a PROPERTY) of the configuration named:

2. `MailboxAuth!RefreshTokenGoodOnce` (`MCMailboxAuth.cfg`): `deleteByHash` does not
   look whether the row was still there (`mailbox-auth.service.ts:92`), so two
   refreshes at once trade one token for two sessions; `mailbox-auth.test.ts:105`
   "rotates the refresh token so a captured one is good once". `RotationBudget` is what
   does hold.
3. `Tenancy!AskedOnlyWithout` (`Tenancy.cfg`): `describe` asks an account to choose an
   address although it holds one, when another claim of the account came between
   `describe`'s read and its own claim, whose refusal it swallows (`me.service.ts:36`).
4. `Sending!BoundMeansSent` (`Sending.cfg`): saving a draft binds its attachments, so
   they cannot be claimed for the message (`message.service.ts:308`);
   `attachment.test.ts:101` "leaves an upload unbound until the message actually goes
   out".
5. `RuleScript!ScriptFollowsRules` (`RuleScript.cfg`): of two edits at once the older
   listing may be installed last, and both succeed (`rule.service.ts:130`);
   `rule.test.ts:60` "creates a rule and regenerates the Sieve script". `RulesInForce`
   holds.
6. `RuleScript!PositionsDistinct` (`RuleScript.cfg`): two rules created at once share
   a position (`rule.repository.ts:29`); `rule.test.ts:79` "appends each new rule after
   the last".
7. `Projection!ReadOnBothSides` (`ProjectionListing.cfg`): opening the conversation of
   a message whose UID is not known yet marks it in Postgres only
   (`message.service.ts:93`, called at 388); `message.test.ts:180` "marks a message read
   on both sides when it is opened".
8. `Projection!PushedOnce` (`ProjectionListing.cfg` with `MaxAnnounced = 2`): a
   notification repeated after a listing or a move deleted the row is pushed again
   (`mail.controller.ts:67`); `mail.test.ts:91` "is idempotent, because Sieve runs
   before delivery is confirmed".
9. `SendCap!CapCountsFromFirstVerification` (`MCSendCap.cfg`): the cap counts from
   the oldest verified domain the account still has (`warmup.service.ts:83`), and
   deleting or re-verifying that domain moves it; the repository's README says "counted
   from the account's first domain verification" (lines 91-92). It only ever falls
   (`OnlyTimeRaisesCap`).
10. `MailboxAuth!PasswordChangeDropsSessions` (`MCMailboxAuth.cfg`): a login that
    verified the old hash before `changePassword` deleted the sessions inserts its own
    after (`mailbox-auth.service.ts:113`, `:136`); `mailbox-auth.test.ts:128` "changes
    the mail password and drops every other session". `StaleOnlyIfOvertaken` is what
    does hold.
11. `Sending!DraftsWithinCeiling` (`Sending.cfg`): two uploads at once each
    pass the check (`attachment.service.ts:42`); `attachment.test.ts:91` "refuses an
    upload that would push the draft over the ceiling". `SentWithinLimit` holds.
12. `DnsReport!OkMeansPublished` (`DnsReport.cfg`): `spf.includes` compares text
    (`dns-check.ts:96`), so an SPF record for `10.0.0.11` passes for a server at
    `10.0.0.1`.
13. `Sending!DeniedMeansUnsent` (`Sending.cfg`): a connection lost after the MTA
    took the message is answered "is not reachable, so nothing was sent"
    (`message.service.ts:229-235`).
14. `Tenancy!OnePlatformAddress` (`Tenancy.cfg`): two claims at once both find no
    address (`mailbox.service.ts:105`); `me.test.ts:124` "refuses a second, different
    address on the same account". `AddressBudget` holds.
15. `Folders!RowsKeepUp` with `Like <- Wildcard` and `Paths <- WildPaths`
    (`Folders.cfg`): the subtree of a renamed or deleted folder is found by LIKE with
    the folder's name as the pattern (`folder.repository.ts:46`), so that `_` in it
    takes the rows of a sibling's subfolders; `folder.test.ts:146` "carries the messages
    along when a folder is renamed". With names that have no `_` or `%` it holds, which
    is what the run `folders` checks and `RowsFollow` proves.
16. `RuleScript!WholeAtRest` (`RuleScript.cfg`): two regenerations share one staging
    file (`sieve.writer.ts:54-57`). One truncates or overwrites what the other is about
    to rename, and `writeFile` writes at its own offset, so that a shorter script is
    left with the tail of a longer one; what the rename installs then stays until the
    next regeneration or restart. `WholeUnlessShared` and `SharingIsAnswered` hold.

And one that is not stated as a property: the preview of a rule on the sender compares
the address alone (`imap.client.ts:181` keeps nothing else), while the script's
`header "from"` sees the display name too. `PreviewAgrees` is checked for From headers
that are nothing but an address.

## 7. What is left out

- *SendCap*: an account's deletion, which deletes its counters with it; senders on
  the platform's own domain, which stay on day 0 for good; the clock of the database
  against that of the process.
- *MailboxAuth*: access tokens and their lifetime (a token outlives logout and a
  password change until it expires, since guards look at the mailbox's standing
  only); one mailbox, one client address.
- *Sending*: a mailbox or domain that is deleted or unverified during a send; the
  user deleting a draft on purpose; attachments of the received side.
- *RuleScript*: the output of `sievec`, which may refuse any script and here also lets
  any pass; writes of a script in several pieces, between which others' could fall, and
  whose outcomes `Broken` stands for; the script of a deleted mailbox, which stays on
  disk and is still there for the next owner of the address if installing the empty one
  fails (`mailbox.service.ts:159`).
- *Filters*: headers with several addresses or encoded words; `fileinto` a folder that
  is gone (a rename leaves the rule's `target_folder` behind).
- *Projection*: a MOVE that the server refuses without an error, which the code does
  not notice and which is here the move of a copy that is no longer there; UIDVALIDITY;
  messages without a Message-ID, which never get a row (`message.service.ts:471`); the
  bulk operations, which are the single ones one after the other
  (`message.service.ts:139-193`). A conversation's other rows are resolved by the same
  two steps as its own.
- *Threading*: UIDs and read flags, which are `Projection`'s; the body text.
- *Folders*: rules other than by the one folder they point at; folders that are system
  folders for their special use (`folder.service.ts:193`), which the code refuses to
  rename or delete and the model does not.
- *Tenancy*: Keycloak itself and the token cache of its client; signature and age of
  the registration event; `seed` refusing to start on a name a customer has registered
  (`platform.service.ts:32`) is only its guard; what an administrator or owner lists;
  aliases, which no code writes.
- *Gateway*: a suspended account's sockets, which stay in their rooms until they
  disconnect; resolving the announced address to a mailbox; rooms of mailboxes that are
  gone, to which nothing is ever sent.
- *DnsReport*: records other than those a check reads; the checks of one report
  together, since each judges its own records.
- Not modelled at all: the IMAP client's connection handling and MIME parsing,
  sanitising (a library call), aliases (only listed), configuration, logging,
  metrics, health, the controllers' request parsing, test fixtures: I/O, pure plumbing
  or no state of the domain.

## 8. Plan

What would come next, in this order:

1. `Folders` and `RuleScript` composed: a rename that meets a regeneration of the rules
   that name the folder.
2. An abstract mailbox that `Projection` implements up to listings under way, and an
   abstract script store that `RuleScript` implements up to overlapping edits.
3. `Sending` beside `Tenancy`: a mailbox, a domain or an account that goes while a send
   is under way.
