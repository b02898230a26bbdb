# TLA+ models of ZaloHub

ZaloHub (OmniSocial in the code) is a multi-tenant messaging product. A browser
talks to a Next.js client, the client to a NestJS API, the API and a scheduler
write PostgreSQL rows (through Prisma) and BullMQ jobs in Redis, and a worker
takes the jobs and calls the Zalo OA platform. Nothing but PostgreSQL and Redis
is shared between the processes. Almost every handler reads a row, awaits, and
writes a row by its id later, so the behaviour that is hard to get right is the
interleaving of those reads and writes with each other, with BullMQ's retries and
with a platform call that cannot be rolled back. That is what these modules model.

## 1. Inventory of the system

| Component | Code | State it keeps | Operations |
|---|---|---|---|
| Message safety rules | `packages/shared/src/index.ts` | none (pure) | `evaluateMessageSafety`, called by the API and by the worker with different facts |
| One-to-one delivery | `apps/api/src/messages`, `apps/worker` `processMessage` | `Message`, `MessageEvent`, `BackgroundJob`; a job in `message.send` with the message id as job id | `send`; the processor with its re-checks, token, platform call and record; the `failed` listener |
| Campaigns | `apps/api/src/campaigns`, `apps/worker` `processCampaign`, `updateCampaignProgress` | `Campaign`, `CampaignContact`, `CampaignMessage`; a fan-out job in `automation.execute` | create, approve, schedule, launch, pause, resume, cancel; fan-out; progress report |
| Scheduler | `apps/scheduler/src/main.ts` | none of its own | every 30 s: due posts, due campaigns, warnings and expiry of subscriptions, retention of webhook events |
| Queue library | `packages/queue`, `apps/api/src/common/queue.service.ts` | job options: 5 attempts, exponential backoff, finished jobs kept 1 day (completed) or 7 days (failed) | add, pause, resume; the worker's dead-letter copy |
| Outbound policy and quotas | `common/subscription-policy.service.ts`, worker `outboundBlockReason` | `SystemControl`, `Subscription`, `Plan` | daily and monthly message quota; account, contact and campaign capacity; usage |
| Contacts, consent, suppression | `apps/api/src/contacts/contacts.service.ts`, worker `processContactImport` | `Contact`, `ContactConsent`, `SuppressionEntry` | create, consent update, bulk actions, suppress, unsuppress, the older import |
| Contact import | `import-engine.service.ts`, worker `processStagedContactImport` | `ImportJob`, `ImportRow`, counters | upload, mapping, commit, cancel; the import itself; its `failed` listener |
| Account credential and OAuth | `apps/api/src/accounts`, worker `accessTokenFor` | `SocialAccount`, `PlatformCredential`, `PlatformOAuthState` | connect, callback, refresh, disconnect, pause and resume |
| Login sessions | `apps/api/src/auth` | `RefreshToken` families, `User` | register, login, refresh with rotation, logout, password reset |
| Webhook intake | `zalo-webhook.service.ts`, worker `processZaloWebhook` | `WebhookEvent` (unique external id), a job in `webhook.process` | receive, check, deduplicate, process |
| Subscriptions and administration | `apps/api/src/admin`, scheduler | `Subscription`, `Workspace`, `SystemControl`, `SupportSession` | extend, suspend, reactivate, archive, emergency stop, account pause, global suppression, support sessions |
| Posts | `apps/api/src/operations`, worker `processPost` | `Post`, a job in `post.publish` | create, schedule, publish; the scheduler's due posts; the processor and its `failed` listener |
| Workspaces and permissions | `apps/api/src/workspaces`, `packages/auth` | `WorkspaceMember` | membership, permission matrix, role checks at the start of each handler |
| Platform adapters | `packages/platform-*` | none | capability matrices, `configured`, `sendMessage`, `refreshAccessToken`, `authenticate`; the base class answers the rest |
| Web client, templates, automations, groups, proxies, secrets, audit, health | `apps/web`, `apps/api/src/*` | their own rows | user interface, plain create/read/update/delete, pure functions |

How they interact:

- The API creates a row and then adds a job whose id is derived from the row
  (`message.id`, `launch-campaign-<id>`, `schedule-post-<id>`, `file-import-<id>`). The
  two steps are not atomic, and an add whose id Redis still knows does nothing.
- The worker trusts nothing the API decided: it reads the row, the account, the
  contact, the policy and the suppression entries again. Those reads are spread over
  several awaits, so each can be stale when the platform is called.
- Operators, webhooks and the scheduler change consent, account, subscription,
  the emergency stop and the campaign's status at any of these awaits.
- BullMQ hands a job out again after an exception (with backoff, counted), after
  the worker died (stalled, counted separately) and after `moveToDelayed` (not
  counted). The `failed` event comes after every failed attempt; the listeners act
  on the last one only.
- A campaign is told of its messages by `updateCampaignProgress`, from the
  processor and from the `failed` listener, while the fan-out may still be running.
- API and worker refresh the same credential without a lock between them: each joins the
  refreshes of its own process (`refreshing`, `refreshingTokens`) and no other's.
- A message that the worker sends comes back as an `oa_send_*` event, possibly before
  the worker has recorded it.

What makes each component correct, in a sentence:

- Delivery: a message leaves at most once for each result that is recorded, never on
  facts that were withdrawn before the attempt read them, never beyond the day's
  quota; a pause of the account is undone by nobody but who lifts it and a token refresh
  that was under way; a final status is final, and every job ends.
- Campaigns: what is reported of a recipient follows that recipient's message, and falls
  behind it only where an attempt broke off after the send; a pause or a cancellation
  holds every attempt that starts after it; nobody in the audience is forgotten.
- Import: the counters never promise more than the rows hold, a finished import has
  dealt with every valid row, no two of its contacts share a phone number or a Zalo id.
- Credential: an OAuth state is exchanged once, a spent refresh token is never put
  back, and only a new connection brings a deleted credential back.
- Sessions: the right to continue a session exists once, a compromised family is dead,
  and an ended session lives on only through a call that was already issuing.
- Webhooks: what is completed has had its effect, a message is announced once, a queued
  event settles, and an opt-out survives every other event, in the contact and in the
  suppression list.
- Subscriptions: a tenant that has paid is locked out only by a write that was under way
  when the term was extended, and an expiry that the tick marks is announced and
  pauses the campaigns.
- Posts: changed by those with access only, failed early only by an older job, never
  left SCHEDULED.

`PROJECT.json` lists the hazards of the code at the lines where they bite, with the
properties that would show each going wrong or the reason why none does.

## 2. Modules

| Module | Models | Extends |
|---|---|---|
| `BullQueue` | The life of one BullMQ job as operators on a job record: added, taken, deferred, promoted, completed, thrown, stalled. External: written from how the repository uses the library. | |
| `MessageSafety` | `evaluateMessageSafety` as a set of blocking reasons, and the facts the API and the worker call it with. | |
| `ReliableSend` | Abstract: what sending with an idempotency key promises, without rows, jobs and attempts. | |
| `OutboundDelivery` | `MessagesService.send`, `processMessage`, its `failed` listener, and everyone who withdraws something meanwhile. Implements `ReliableSend`. | `BullQueue`, `MessageSafety` |
| `CampaignRun` | One campaign: the API calls on it, scheduler, fan-out, sends, progress reports, and the outside pause. | `BullQueue` |
| `ImportRows` | How a column finds its target, and by which keys a row is recognised under a mapping (pure). | |
| `ImportPipeline` | One import file: upload, mapping, commit, cancel, the worker that makes contacts of its rows, and other writers of contacts. | `BullQueue`, `ImportRows` |
| `SessionTokens` | The refresh tokens of one user under register, login, refresh, logout, logoutAll and password reset. | |
| `AccountCredential` | The credential of one official account under OAuth callbacks, refreshes by API and worker, disconnect, pause and resume. | |
| `WebhookIntake` | `accept` and `processZaloWebhook`, with deliveries that are refused, duplicated and lost, beside the sender's own record. | `BullQueue` |
| `TenantLifecycle` | The subscription of one tenant under the tick, administrators, entitlement checks and fan-outs. | |
| `PlatformRules` | The adapters' capability matrices, what `configured` asks of the environment, and the base class's answers (pure). | |
| `AccessRules` | The permission matrix, `assertMembership` and `assertPermission` (pure). | |
| `PostPublish` | One post: requests of members and support staff, the tick, `processPost` and its `failed` listener. | `BullQueue`, `PlatformRules`, `AccessRules` |
| `*_proofs` | The theorems about each of the eight modules with a specification of the code. What BullQueue's operators do to a job is two lemmas at the top of each that has jobs. | the module |
| `MC*` | The instances for TLC. | the module |

`OutboundDelivery` and `CampaignRun` are two views of the same `processMessage`.
The first keeps everything between reading the message and sending it, for messages
without a campaign; the second abstracts that stretch to "lets through or blocks"
and keeps the campaign branch (paused: deferred, cancelled: blocked) and the report.
`GetToken` and `TokenRefused` of `OutboundDelivery` are what `AccountCredential` looks
like from one send; its `SetEntitled` is what `TenantLifecycle` looks like; and
`ImportContacts`, `UpsertContact` and `WebhookOptOut` are what the import and the webhook
do to a contact.

### OutboundDelivery and the code

A message is identified with its `idempotencyKey` (unique index). `status`, `today`
and `job` are the row, its creation date and the job. `request[r].at` and
`attempt[m].at` say at which await the API call and the attempt are:

| `attempt.at` | In `processMessage` | Left by |
|---|---|---|
| `read` | message with account and contact is read (160-167) | `CheckPolicy` |
| `gated` | `outboundBlockReason` has passed (169-173) | `CheckSafety` |
| `cleared` | suppression entries read, safety decision ALLOWED (179-207) | `DeferForRate`, `MarkSending` |
| `sending` | SENDING is recorded (215) | `GetToken`, `TokenRefused` |
| `tokened` | `accessTokenFor` has returned (217) | `PlatformAccepts`, `AnswerLost`, `AttemptFails` |
| `accepted` | the platform's answer is there (218) | `RecordSent` |
| `settled` | the result is recorded, the report is to come (219-231) | `FinishAttempt` |
| `onFailed` | the `failed` listener of a last attempt (461-468) | `OnFailed` |

`attempt.saw` is the snapshot of contact and account that the attempt carries from
the first read to the end. `AttemptFails` and `WorkerLost` may strike at each of
these places. `overtaken` is a history variable: the running attempts that had
already read something that was withdrawn since; `unconfirmed` counts the copies the
platform accepted and the worker could not record; `pause` is the administrator's pause of
the account as it was ordered, "standing" until it is "lifted" or a token refresh, which
writes CONNECTED, has "undone" it. What an attempt may send on "now" asks for the pause and
not only for the account's status, which no longer shows it. Everything that a person, an import
or a webhook writes into a contact's consent is an action of its own, with the row each
leaves (`Consenting`).

`DeliversReliably` is the refinement: `outcome` is the status with QUEUED and SENDING
read as PENDING, `inHand` the messages whose attempt is at `accepted`, `copies` and
`lost` the two counters. Under it a retry of a message that was sent is visible as
`SendAnswered` after `LoseAnswer` or `SendUnanswered`, and as nothing else.

### CampaignRun and the code

`campaign`, `row` and `link` are `Campaign.status`, `Message.status` and
`CampaignMessage.status`; `runJob` holds the jobs of `automation.execute`
(one id for launches, one for the scheduler, one per resume) and `sendJob` those of
`message.send`. `call`, `tick`, `run` and `send` are the places in
`campaigns.service.ts`, the scheduler's tick, `processCampaign` and `processMessage`
with `updateCampaignProgress`. `run[r].member[c]` is where the fan-out's loop is with
recipient `c`; the guard `NextMember` keeps it to one recipient at a time.
Whom `create` excludes follows from the contacts' consent and suppression at that moment
(`Excluded`). All writes of the campaign's status are unconditional updates by id in the
code (`SetStatus`), except the one in `updateCampaignProgress` (`WriteProgress`).
`delivered` and `cutOff` are history variables: the copies a recipient has got, and the
recipients of whose message an attempt broke off after the platform had accepted it,
before the result was recorded or before it was reported.

### ImportPipeline and the code

`status`, `valid`, `imported` and `failed` are columns of `ImportJob`, `row[r]` is
`ImportRow.status`, `job` is `file-import-<id>`. `call[k].at` is the await at which an
API call is: `found` after it has read the status, `mapping`, `rewriting` and `mapped` in
`applyMapping`, `checked`, `queued` and `refused` in `commit`; the upload is a caller of
its own that goes through `staging`, the same mapping, and `recording`. `work.at` is the
place in `processStagedContactImport`: `read`, `loop` (before the query for the next
batch), `batch`, `absent` or `present` (the contact was looked up), `finishing`, `done`.
Which rows a mapping makes valid is computed: `ImportRows` has the header's aliases, the
refusals of `updateMapping`, and `normalizeRow`, with two columns that claim the same
target, blank and malformed cells, and spellings of one phone number. What it yields, and
all that rows and contacts are ever compared by, is a set of keys: the normalised phone
number and the Zalo id, each if it is present. `norm[r]` are the keys of
`ImportRow.normalized`, `contacts` the keys of each contact the import has made, and
`elsewhere` those of contacts somebody else has made, so that `KnownKeys` is what the
lookups of `applyMapping` and of the worker can find. `call[k].taken` is the set of keys
`applyMapping` has seen and grows with the rows; nothing relates the phone number of one
row to the Zalo id of another. `IndexRefuses` is the unique index on contacts, which covers
the Zalo id only. `disturbed` is a history
variable: a mapping that had read the status before the commit wrote while the import
was queued, running or over.

### SessionTokens and the code

A token is its `RefreshToken` row: `family`, `live` (`revokedAt` null), `reused`,
`expired`. `call[c].at` names the await: `read`, `vetted` (the family has no recorded
reuse) and `claimed` (the conditional `updateMany` revoked exactly this row) are the three
steps of `refresh`, `replay` the branch that revokes the family, `verified` the point at
which register and login may issue, `resetting` a password reset whose link is good.
`ended` and `overlapped` are history: tokens of sessions that were ended since, and those
among them that a call issued which had the right to issue when the session ended.

### AccountCredential and the code

A number stands for one grant of the platform: access token, refresh token and expiry.
`stored` is the grant in `PlatformCredential`, `account` the status, `metadata.adminPaused`
and whether `tokenExpiresAt` is set. `task[p]` is the entry of `refreshing` (API,
`zalo-oauth.service.ts`) or `refreshingTokens` (worker) in process `p`, which a second
caller joins; `held[m]` is the grant in the snapshot a message job read with its message,
which may be old by the time it is presented. `valid` is what the platform still accepts:
a refresh token is spent by its use. `lost` are the grants whose successor was issued and
never stored, because the process died or the write failed.

### WebhookIntake and the code

Keys are external event ids: `msg_id`, or `event_name:timestamp` when there is none.
`accept` runs its checks in the code's order (`Answer`): probe, configuration, app,
timestamp, signature with setup mode, OA and account. `Envelopes` are the deliveries as far
as these tell them apart. The account need only be a row that is not deleted
(`zalo-webhook.service.ts:54`), and no code ever sets `deletedAt`: the events of an OA that
is DISCONNECTED, or was created and never connected, are stored and processed like any
other. `Storable` are the envelopes that get past the checks, and `Receive` stands for one
of them.

`at[k]` is the await of the attempt at the event's job: contact upserted, suppression entry
looked for, opt-out written (`list` with a new entry, `relist` with one that was found),
message row looked up, created, logged, notified, event completed. `ownRow` is the message
that `processMessage` has sent and may not have given its platform id yet, `message` the
row the webhook made and what has followed it, `notices` the number of its notifications.
`Reconsent` and `RemoveEntry` are the two ways in which operators take an opt-out back.
History: `applied`, `lifted` and `removed` (the opt-outs written and what was taken back
since), `overtook` (messages looked up too early), `cut` (keys with an attempt that broke off
between the creation of the message row and its last follow-up), and `abandoned`.

### TenantLifecycle and the code

`subscription`, `workspace`, `campaign` and `notices` are rows, `tick` is the scheduler's
tick with the subscription it read, `call` a request (an extension is one update; a status
call, an entitlement check and a campaign launch or schedule have several steps) or a
fan-out. Any request may record an expiry it meets (`ResolveEntitlements`); only one for a
campaign that can be started goes on. A fan-out writes the campaign's status twice, RUNNING
before its messages (`fanning`) and the outcome of its count after them (`counting`, worker
`main.ts:274`), neither time with a condition; ENDED stands for COMPLETED and FAILED. One
campaign stands for all the tenant's.
The life-cycle functions of `packages/shared` are operators on days.

### PostPublish and the code

`call[c].at` is `admitted` after the permission check, `allowed` after
`assertOutboundAllowed`, `found` after the post and its account were read, `approved`
before the job is added. `job` holds `schedule-post-<id>` and `publish-post-<id>`.
`support` are the support sessions through which staff without a membership get in.
`overtaken` holds the requests whose user lost the access after the check; `madeFor` and
`failedFor` are the schedules a job was queued for and the post was failed by.

## 3. Runs

| Run | Question | Bounds | Result |
|---|---|---|---|
| `outbound_gates` | What happens to one promotional message under every withdrawal, failure, retry, stall and deferral? Safety, the refinement of `ReliableSend`, and `EveryJobEnds`. | 1 message, 1 request, 2 attempts, 1 stall | holds |
| `outbound_quota` | Do concurrent requests break the quota? | 2 messages, 3 requests, limit 1, new days | holds |
| `campaign_faults` | Are reports true and stops effective under every failure? | an included and an excluded recipient, 3 calls of approve, launch, pause or cancel | holds |
| `campaign_concurrent` | What do a launch and a scheduled fan-out do to each other? | 1 recipient, 3 calls, retention forgets jobs | holds |
| `campaign_live` | Is everybody dealt with? | 2 recipients; approve, launch, pause, resume at any time | holds under fairness |
| `import_calls` | What do mapping, commit, cancel and retries of one import do to each other? | 2 rows with a phone number and a Zalo id apart or together, 4 columns, 3 mappings, the upload and 2 calls of any kind, the Zalo id also elsewhere, 2 attempts, retention | holds |
| `sessions` | Can a session fork, survive its end or a recorded reuse? | 3 tokens, 3 calls | holds |
| `credential_races` | What do refreshes, reconnects, disconnects and pauses do to one credential? | 1 API process, the worker, 1 message job, 2 OAuth states, 2 callbacks, 3 grants | holds |
| `webhook` | What do duplicated, lost and retried deliveries do? | a text, an echo and an opt-out with a key each, 2 deliveries at a time, 2 stored, 2 attempts, 1 stall | holds, liveness under fairness |
| `tenant` | Who locks a paying tenant out, and what does the tick see through? | 1 scheduler, 2 calls, terms of 1 and 2 days, a warning 1 day ahead, 2 days, 1 break | holds |
| `posts` | Who changes a post, what fails it early, does a due post end? | 1 request at a time of a manager, an operator or support staff, a Facebook account that may publish and a Zalo account that is not configured, 2 attempts, 1 hour, 1 break | holds, liveness under fairness |
| `campaign_once` | "A retry does not create a second send." | 1 recipient | violated |

Why the bounds are enough: two attempts distinguish a last attempt from one that is not the
last, which is all the code asks of `attemptsMade`, so five would only repeat the first; one
stall distinguishes "handed out again" from "failed for good". With one message every pair
of steps inside its own attempt and of an operator is there; the code relates two messages
only through the quota, which has a run with two messages and one request more. A campaign's
recipients meet in the link counts and in the loop, for which two are enough to have one
before and one behind; the excluded recipient takes a branch of its own. Calls are made once
each, and with three or four of them in any order each handler meets each other handler at
each of its awaits. An import gets two rows: as uploaded one has a phone number and the
other a Zalo id, under the other mapping the first is malformed and the second has both
keys. So a contact that was made of either row can meet the second row mapped anew, and a
contact made elsewhere has the Zalo id. A duplicate within the file is a branch of the same
test (`taken`); in this instance the duplicates come from contacts. The upload and two calls
are enough for a mapping that overlaps with a commit, a second commit, and a cancel that
overlaps with either, and retention lets a second commit run the file again. Three tokens
are a first token, its successor and a second family or a third generation, and three calls
are two that race and one that ends the session under them. Three grants are one that is
spent, its successor and a reconnect beside both. Three events cover the kinds that write a
contact, a message and an opt-out; two stored at a time because events meet in pairs, in the
contact or in the message. Two days let terms of one and of two days run out, and the
shorter be extended to the longer, or cut back to it, before, at and after its end, so that
a term can be over twice under two causes. One hour has a schedule that is still to come and
one that is due.

`MaxStalls` is 0 where a lost worker may fail its job for good, because the retry after
a failed attempt is the way back already. Symmetry is used for
recipients, calls, requests, messages, tokens and processes where no liveness property is
checked and the instance treats them alike. `CHECK_DEADLOCK FALSE` stands in every
run because the system may really stop: when all calls have returned and all jobs have
ended there is nothing to do.

The type invariant of every module is a theorem; where no run lists it, TLC agrees on
the instances above with `INVARIANT TypeOK` in the place of their properties.

### Fairness

- `OutboundDelivery!FairSpec`: the worker keeps taking steps for a job it can work on and
  BullMQ promotes delayed jobs and returns stalled ones (weak), and a message that is
  deferred for the rate limit minute after minute is let through in some minute (strong
  for `MarkSending`), because `accountRateAllowed` counts per minute with a fresh key.
- `CampaignRun!FairSpec`: the same of fan-outs and sends, and an API call that has read the
  campaign is carried through.
- `WebhookIntake!FairSpec`: weak fairness of the attempt at each stored event (`Progress`)
  and of BullMQ (`QueueStep`). None of deliveries, operators or failures.
- `PostPublish!FairSpec`: weak fairness of the tick (a `setInterval` of 30 s), of the
  worker and of BullMQ, for each job.

Failures, deferrals, operators and requests have no fairness anywhere. The liveness
properties except the behaviours in which the queue, or the campaign, stays paused, and
`DuePostEnds` those in which a process broke off.

### What the runs show about the code

Violated: `AtMostOneDelivery`. `docs/ARCHITECTURE.md` says of the idempotency keys that a
retry does not create a second send. The key prevents a second row and a second job.
`processMessage` only leaves a message alone that is SENT or BLOCKED, so a message
that the platform accepted and whose answer or record was lost is sent again.
`ExtraCopyNeedsUnconfirmedSend` and `DeliversReliably`, which are checked and proved, say
what does hold: each further copy follows one the platform accepted and nobody could
record.

The properties that hold are stated with the exceptions the code makes. What those
exceptions are, for a reader of the code:

- Delivery. `docs/PHASE_REPORT.md:19` has the account pause stop the worker. It stops every
  attempt that reads LIMITED; but an attempt that had read CONNECTED and refreshes the token
  writes CONNECTED over the pause (worker `main.ts:92`, `zalo-oauth.service.ts:194`), and
  from then on later attempts send, too. `WithdrawalStopsLaterAttempts` says both halves:
  while the pause stands no later attempt sends, and nothing but such a refresh undoes it.
  `metadata.adminPaused` records the pause, but no code reads it.
- Campaigns. `processCampaign` writes RUNNING, PAUSED and the final status by id with what
  it read at the start, so a cancellation in between is overwritten, and messages
  queued later are sent; `StopHoldsLaterAttempts` is about attempts that start while the
  status is still CANCELLED. The report of the first recipient may write COMPLETED while
  the fan-out has not linked the second. A campaign can end as FAILED although a message was
  sent: when SENT is recorded and the report throws (`main.ts:231`) in the last attempt, or
  the record itself is lost, the listener (`main.ts:467`) writes FAILED into the link, and
  the fan-out that counts no SENT link (`main.ts:270-274`) writes FAILED.
  `LinkFollowsMessage` says that a link falls behind its message in no other way, and
  `FailedCampaignSentOnlyCutOff` that nobody else has got a message of a FAILED campaign. The
  latter holds for one fan-out job with its retries; with two at a time the count of
  one may be overtaken.
- Import. `cancel` leaves the job of a QUEUED import in the queue, and the worker skips only
  COMPLETED and PARTIAL, so the import runs; `QuietCancellationIsFinal` needs that nothing is
  under way. A malformed phone number makes a row invalid that has a Zalo id. A person whose
  phone number is in one row and whose Zalo id is in another becomes two contacts, and so
  may a row that was imported and is mapped anew: `ContactsShareNoKey` speaks of keys, not
  of persons.
- Consent. An import or a creation with OPTED_IN lifts the flag of an opted-out contact; its
  suppression entry remains and blocks it. A retried import writes its consents again.
- Credential. A job's snapshot may present a refresh token that another process has rotated;
  the refusal writes REAUTH_REQUIRED into a healthy account. A resume turns REAUTH_REQUIRED
  into CONNECTED. A disconnect that overlaps an OAuth callback may leave a credential with
  `tokenExpiresAt` null, which the worker never refreshes.
- Sessions. A logout with a token that was rotated meanwhile revokes nothing, and a refresh
  that had claimed its row when the session ended issues the successor all the same;
  `EndedSessionNeedsOverlap` says that this is the only way.
- Webhooks. The age check is about the event's own time, so a redelivery more than ten
  minutes late is refused. Two events without `msg_id` and with the same name and time share a
  key. A retry that finds the message row skips its RECEIVED event and notification: they are
  lost when an attempt broke off just between the row and them, and only then, and no
  notification is made twice (`AnnouncedOnceUnlessCut`). Events of DISCONNECTED accounts are
  stored. An echo that is processed before the sender recorded the
  platform id makes a second row (`SecondRowNeedsOvertaking`).
- Tenants. An entitlement check that records EXPIRED before the tick (or an administrator
  who does) hides the subscription from the scheduler, which looks for ACTIVE and
  EXPIRING: nobody is told and no campaign is paused; `MarkedExpiryIsSeenThrough` is about
  the expiries the tick marks. An extension between the tick's query and its update is
  overwritten with EXPIRED and stays so (`EarlyExpiryNeedsOvertaking`). Extending a
  suspended tenant opens the subscription and not the workspace.
- Posts. No adapter implements `createPost`, so no job makes a post PUBLISHED; no code
  writes the permissions that `publishPost` asks of an account. `processPost` asks no
  outbound policy and the tick queues due posts of suspended tenants. A publish job that
  is still trying fails a post scheduled since (`EarlyFailureIsAnOlderJobs`). A post that is
  scheduled again after its job failed stays SCHEDULED while Redis keeps that job, which is
  why `DuePostEnds` asks for a due post without one.

## 4. Proofs

TLAPS checks, for every value of the constants that satisfies `QueueAssumption`,
`DeliveryAssumption`, `CampaignAssumption`, `ImportAssumption`, `SessionAssumption`,
`CredentialAssumption`, `WebhookAssumption`, `LifecycleAssumption` and `PostAssumption`
(positive number of attempts, finite audience and message set, each message has a
recipient, a file has rows, each event has a key and a
kind, terms are days from the first on and some days give a warning, there is somebody to
make requests), these theorems about `Spec`:

| Module | Theorems |
|---|---|
| `OutboundDelivery_proofs` | `TypeCorrect`, `FailureIsFinal`, `CompletionSettles`, `CopiesAreAccountedFor`, `QuotaHolds`, `FinalStatusHolds`, `WithdrawalHolds`, `DecisionsFollowTheRules`, `ImplementsReliableSend` |
| `CampaignRun_proofs` | `TypeCorrect`, `ReportsAreTrue`, `JobsAreLinked`, `OrphansAreKnown`, `StopHolds`, `FailureIsTrueOfWhatIsCounted`, `FailureIsTrueOfOneFanOut` |
| `ImportPipeline_proofs` | `TypeCorrect`, `ContactsAreDistinct`, `FinishedIsThrough`, `CountersHold`, `CancellationHolds` |
| `SessionTokens_proofs` | `SpecTypeOK`, `SpecSessionNeverForks`, `SpecCompromised`, `SpecEndedSession` |
| `AccountCredential_proofs` | `SpecTypeOK`, `SpecOAuthStateUsedOnce`, `SpecStoredToken`, `SpecConnected`, `SpecRefreshNeverReconnects` |
| `WebhookIntake_proofs` | `SpecTypeOK`, `SpecCompletedMeansDone`, `SpecOptOutSurvivesEvents`, `SpecSecondRowNeedsOvertaking`, `SpecAnnouncedOnceUnlessCut` |
| `TenantLifecycle_proofs` | `SpecTypeOK`, `SpecEarlyExpiryNeedsOvertaking`, `SpecMarkedExpiryIsSeenThrough`, `SpecSplitStatusNeedsOverlap` |
| `PostPublish_proofs` | `SpecTypeOK`, `SpecPostChangesNeedAccess`, `SpecEarlyFailureIsAnOlderJobs` |

Each module proves one inductive invariant, `IInv`, and derives the rest. Every safety and
action property that a run checks is stated by one of these theorems.

For delivery the strengthening ties the attempt to the job and to the row: an attempt
that runs has an active job, an attempt at `accepted` has one copy nobody counted,
`onFailed` means the job has used all attempts, a settled attempt has a settled row.
`FailedOnlyAfterLastAttempt`, `CompletedJobSettledMessage` and the fact that final
statuses stay follow from those ties; the count of copies follows from the status being
SENT only when one copy was confirmed. The quota follows because `CheckPolicy` counts the
rows of the day again, and the rows that are dispatched are among them.
`WithdrawalHolds` rests on `Fresh`: an attempt that is not overtaken has, for each gate it
has passed, facts that are still true; each withdrawal either leaves the fact alone or
puts the attempt into `overtaken`; a pause, too, overtakes all that run, so an attempt that
still undoes it is an overtaken one. The refinement has one lemma per kind of step: under
`IInv` each step of `OutboundDelivery` is a step of `ReliableSend` on the mapped state or
leaves that state alone.

For campaigns the invariant ties each fan-out's place with a recipient to the row, the
link and the job of that recipient, and each report to the outcome recorded before it.
`ReportsAreTrue` also rests on `cutOff`: a copy that was sent is on its way to the link, is
in the link, or its attempt was cut off. `FailedCampaignSentOnlyCutOff` needs more, because
FAILED is written after it was counted: from the count on every recipient is `Hopeless`,
reported as BLOCKED or FAILED, or without a link and with nobody left who would link it and
queue its job, and nothing undoes that. A hopeless recipient has got a message only if
an attempt at it was cut off (`DoomedSentOnlyCutOff`). This rests on rows being linked by the
fan-out that created them and no other (`OneCreator`), and on reports other than FAILED coming
from a job that is still active. The one step that needs a hypothesis is the count itself:
`CountSeesAll`, no other fan-out holds a row it created and has not linked.
`FailureIsTrueOfWhatIsCounted` takes it as a hypothesis about the behaviour;
`FailureIsTrueOfOneFanOut` derives it where only a launch fans the campaign out, as in
`campaign_faults`. Without it the property is false, and TLC finds the two fan-outs.

For an import the invariant says what the worker knows at each await: between lookup and
creation no contact this import has made has a key of the row at hand (`LookupInv`: a worker
that is alive is the only one, it looks up the keys it creates the contact with, and
`contacts` grows in no other step), and, as long as no mapping has
interfered, the rows at hand are all valid rows that are left (`ValidInv`) and the local
counters are at most the numbers of rows in the two statuses (`CountInv`); that is why
the guard on `rowNumber` skips nothing. `CancellationHolds` needs one more step
invariant, that nothing happens before the upload.

For sessions `SessionNeverForks` is almost inductive: what is missing is that a call
carries a token that was issued (`CallTokens`), that families are named by a member
(`Rooted`), and, for the second theorem, that a call which is past the reuse check and
can still win its claim belongs to a family without recorded reuse (`VettedClean`): who
records a reuse revokes the whole family, so the claim fails.

For the credential the heart is that a grant leaves the platform to one process only:
`Fresh` and `Distinct` say that the grants in flight, in tasks and callbacks, differ from each
other and from the stored one, hence a write stores a grant nobody has spent, or one whose
spender is about to replace it.

For the webhook the invariant is about one key at a time (`KeyInv`): an attempt works on
a stored event under an active job; at the mark, and once the event is COMPLETED, what
the event asks for is done (`EffectBeforeMark`); a message that the sender recorded too
late was looked for too early (`SecondRow`); and a message row lacks just what its attempt
has still to do, unless an attempt was cut there, and was announced as often as it says, once
or not at all (`FollowUp`). Only the contact is shared: an attempt that found a suppression
entry need not add another, because the entry is there still or an operator removed one
(`EntryFound`).

For a tenant the invariant says what each actor still knows of the row it read: a tick
about to mark a term, or a request about to record an expiry, holds a term that is over
(`DueTicks`, `DueCalls`), an unlock writes a status that was right for the term it read
(`StatusToWrite`), an expiry marked by a tick is announced or there is a tick that owes
the notice and the pause (`MarkedExpiryIsOwed`), two status calls at work have overlapped
(`StatusCallsTakeTurns`), and without an overlap a suspension at work finds the workspace
no longer active (`SuspensionHolds`).

For posts, a request that was let in keeps its access or is overtaken: the role lists of
`OperationsService` and the permission matrix agree (`ManagersManagePosts`), a new
support session only adds (`SupportOnlyAdds`), and every other change of clock, session or
workspace is recorded. Early failures rest on `DueInv`: nothing is ever queued for a
schedule still to come.

The finite instances and the theorems complement each other: the theorems have any
number of attempts, messages, recipients, calls, tokens and fan-outs; TLC checks that
the situations the theorems speak of really occur, and refutes each property under a
plausible change of the code (the mutants).

Model-checked only: liveness (`EveryJobEnds`, `EveryRecipientSettles`,
`QueuedEventSettles`, `DuePostEnds`), which TLAPS does not reach. The pure modules
`ImportRows`, `PlatformRules` and `AccessRules` are used by the runs of the modules that
extend them.

## 5. Abstractions and what is left out

Everything the models leave out on purpose:

- Rows that no decision reads: `BackgroundJob` other than the webhook's, `AuditLog`,
  `MessageEvent` and `Notification` other than the webhook's and the tick's,
  statistics columns, attempt numbers in payloads.
- The daily limit stands for both message quotas of a plan; both are the same
  comparison with a count over a different period.
- Reads that follow one another without a write between them and guard the same step
  are one step: the message and its campaign (worker 160-165), the rows
  `assertOutboundAllowed` reads.
- A worker that is alive and whose lock is lost is not modelled: BullMQ renews locks
  from the event loop, and no processor blocks it. A stalled job is one whose process
  is gone. A job that stalls too often is failed by BullMQ without the attempts
  being used up, so the listener returns early and the message stays SENDING.
- The queue operation of the emergency stop is not ordered with that of another call
  (`PauseOrResumeQueue`), which covers overlapping calls and a call that died between
  the control row and the queue. Suppression by phone, Zalo id, tenant or platform is one
  fact per contact. Its second write may be lost, or come later (`FlagContact`).
- An import's batch of 500 rows is the whole file. Contacts are not deleted while an import
  is open. Other imports and users are one step, `ContactElsewhere`: the same phone number
  may become a contact in two imports, and `ContactsShareNoKey` is about the contacts of
  one. The refusals of `assertContactCapacity` and of the worker's subscription and capacity
  checks are failures of the call and of the attempt (`CallAborted`, `ImportFails`); numbers
  of contacts are not counted. `skippedRows` and `progress` are shown and never read.
- PKCE, token encryption and hashes: a verifier, a ciphertext and a hash stand for what
  they were made of. Access tokens leave no row; they work until they run out, whatever
  happens to the session.
- Webhook signatures are absent, right or wrong, timestamps fresh or stale; the payload is its kind.
- Time is counted in days (`TenantLifecycle`), in hours (`PostPublish`), or is a choice
  (tokens that come due, states and refresh tokens that run out).
- `changePlan` and `updateTenantQuota` read and write the overrides of a subscription in two
  steps, so that one may lose the other's change; plans are not in the models.
- One tenant, one account, one campaign, one post, one user: nothing in this code relates
  two of them other than quotas.

### Not modelled

- Web client: user interface; all state is the server's. It does not refresh its session.
- Templates, automations, groups, proxies, tags, segments, analytics: create, read, update
  and delete of rows without interaction.
- Workspaces and members: the role matrix and the checks are modelled; creating a workspace
  and inviting a member are single writes, and no code accepts an invitation.
- File parsers (csv, xlsx, json, xls), HTTP formats of the adapters, OpenAPI, health, secrets,
  the audit log: input, output and pure functions. The parsers appear by their outcome.
- Capacities for accounts and campaigns: check and create in two steps; concurrent calls
  overshoot them, as with the message rows in `outbound_quota`, and nothing counts them again.
- Retention of finished rows (scheduler 63-76): they are days old, and nothing decides by
  them any more; a webhook whose key was deleted is long outside the replay window.
- Dead-letter copies, e-mail verification tokens.

## 6. Plan

Done: the delivery of messages, campaigns, imports, sessions, credentials, webhooks,
subscriptions and posts, with one abstract specification; every safety and action property
of the runs is proved.

Next, in this order:

1. `CampaignRun`'s sends against `ReliableSend`, composed per recipient.
2. `OutboundDelivery`'s account as an abstraction of `AccountCredential`: `GetToken`,
   `TokenRefused` and `SetAccountPaused` as the image of its steps.
