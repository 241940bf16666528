# TLA+ models of OTPasswd

These modules model the one-time-password engine of OTPasswd (PPP, "Perfect
Paper Passwords") and the state file it keeps, from the C sources under `src/`.
TLC checks them. `PROJECT.json` lists every component, run, mutant,
source mapping, finding and hazard.

## The system

Each part is listed with its source, its state and its operations.

- **PPP engine** (`src/libotp/ppp.c`)
  - State per process: a `state` structure (`src/src/state.h`). It holds the
    key, `counter`, `latest_card`, `code_length`, `alphabet`, `flags`, and
    the values derived by `ppp_calculate`: card, row, column, `max_card` and
    `max_code`.
  - Operations:
    - `ppp_load`: lock, load, calculate, `verify_range`, unlocking on failure.
    - `ppp_release`: store and/or unlock.
    - `ppp_increment`: load, store counter+1, unlock, restore the in-memory
      counter.
    - `ppp_decrement`: a second state; load; compare fresh−1 with
      `s->counter`; store.
    - `ppp_authenticate`: derive the passcode of `s->counter` and compare.
    - Pure arithmetic: `ppp_calculate`, `ppp_get_passcode_number`,
      `ppp_add_salt`, `ppp_verify_range`, `ppp_alphabet_verify`, and the
      digit loop of `ppp_get_passcode`.
- **State file back end** (`src/src/libotp/db_file.c`)
  - Files: `<db>` holds one line per user. It is `~/.otpasswd` when
    `cfg->db = user`, and a single global file otherwise.
  - Lock: `db_file_lock` opens or creates `<db>.lck` and tries an fcntl
    write lock 20 times. `db_file_unlock` first unlinks `<db>.lck`, then
    unlocks it.
  - `db_file_load` finds and parses the user's line.
  - `db_file_store`:
    1. copies the lines before the user's line to `<db>.tmp`;
    2. writes the new line;
    3. copies the rest;
    4. renames `<db>.tmp` over `<db>`.
- **PAM helpers** (`src/pam/pam_helpers.c`)
  - `ph_init` creates the state.
  - `ph_increment` maps `ppp_increment`'s errors to PAM results.
  - `ph_out_of_band` forks a child that drops privileges and runs the OOB
    script. It waits 200 × 7 ms, then kills the child.
  - The retry loop of `pam_sm_authenticate` is not under `src/`. Its
    behaviour is taken from spec §4.7 and `cfg->pam_retry` (`config.h`):
    - mode 0: no retry;
    - mode 1: retry with a new passcode;
    - mode 2: retry with the same passcode, rolled back by
      `ppp_decrement`.
- **Agent interface** (`src/src/agent/agent_interface.c`): the client side of
  the agent pipe protocol, made of `agent_connect`'s INIT handshake and one
  request wrapper per opcode.
- **Headers and the legacy tree**: `config.h`, `state.h`, `print.h`,
  `passcards.h`, `actions_helpers.h`, and the old `src/ppp.c` and
  `src/state.h`.

How the parts interact: several PAM processes (one per login) may
authenticate the same user at once. They meet only in the state file, which
the lock file serialises.

Each login:

1. takes the lock;
2. loads the counter and shows the prompt for it;
3. stores counter+1 before asking;
4. unlocks.

Advancing the counter before the check is what prevents the replay of one
passcode by two concurrent logins (spec §4.6, §5).

## Modules

Modules are listed in build order. Each `MC*.tla` module gives a module its
bounds and model values for TLC.

### `PPPSession`: concurrent logins of one user

- **Variables:**
  - `disk`: the counter in the state file.
  - The lock file, as in `StateLock`: `lckPath` (the inode `<db>.lck`
    names), `created` (inodes created), `fd` (the inode each process has
    open) and `owner` (the fcntl owner of each inode).
  - Per process:
    - `pc`: the step of its session;
    - `mem`: `s->counter`;
    - `fresh`: `s_tmp->counter` in `ppp_decrement`;
    - `attempts`: fcntl tries;
    - `tries`: PAM retries;
    - `sessions`: logins started.
  - `accepts`: a history of accepted counters.
- **Actions:**
  - `StartSession`: `ph_init`.
  - `LockStep`: `db_file_lock`'s `open(O_CREAT)` of `<db>.lck` (once, on
    the first attempt) and one `F_SETLK` on the inode it opened. After
    `LockAttempts` failures, `ph_increment` fails the login and
    `ppp_decrement` gives up.
  - `IncLoad`: `ppp_load`. The NUMSPACE path unlocks.
  - `IncRelease`: the rest of `ppp_increment` through `ppp_release`. The
    store may fail; the lock is released either way. Every unlock is
    `Release`, `db_file_unlock`: unlink `<db>.lck` (when `UnlinkLock`),
    then `F_UNLCK`.
  - `Authenticate`: `ppp_authenticate` on any typed passcode, then the
    retry decision `AfterFailure`.
  - `DecLoad` and `DecStore`: `ppp_decrement`.
  - `Crash`: the kernel drops the fcntl lock of a dead process; the lock
    file stays.
- **Modelling choices:**
  - A passcode is abstracted to its counter. The derivation is a function
    of the counter, and `PPPPasscode` checks it.
  - The constant `UnlinkLock` chooses the lock. `TRUE` is the code:
    `db_file_unlock` unlinks the lock file before the unlock, so a
    process that opened the old inode and a newcomer that creates a new
    one can both hold a lock. `FALSE` leaves the file in place, a single
    inode, which gives the exclusive lock spec §4.10 and §5 describe. The
    `session` run uses `FALSE`, so its `NoReplay` holds only under that
    contract; `session_race` uses `TRUE` and shows it failing.

### `StateLock`: the lock-file protocol

- **Variables:**
  - `lckPath`: the inode the name `<db>.lck` denotes.
  - `created`: inodes created so far.
  - `fd`: the inode each process has open.
  - `owner`: the fcntl lock owner of each inode.
  - `pc`, `attempts` and `rounds`.
- **Actions:**
  - `Begin`
  - `OpenLockFile` (`open(O_CREAT)`)
  - `TryLock`: one `F_SETLK`, with LOCK_ERROR after `LockAttempts` failures.
  - `Work`: the caller's load and store.
  - `UnlinkLockFile`
  - `Unlock`
  - `Crash`
- `StateLock` has no run of its own: `StateStore` composes it
  (`L == INSTANCE StateLock`) with the store steps and checks the two
  together. `PPPSession` carries the same lock-file state, with the open
  and the fcntl attempt merged into `LockStep`.

### `PPPCard`: passcard arithmetic

- **Variables:** `counter`, `salted`, `codeLength` and `latestCard` (the
  furthest card printed, `s->latest_card`).
- **Operators:**
  - `Position` (`ppp_calculate`)
  - `GetPasscodeNumber` (with `ppp_add_salt`)
  - `MaxCard` and `MaxCode`
  - `VerifyRange`
  - `Warnings` (`ppp_get_warning_conditions`, card part) and
    `WarningMessage` (`ppp_get_warning_message`: one bit cleared per call,
    `assert(0)` for a combination the switch does not name); `Drain` is the
    caller's loop until NULL.
- **Steps:**
  - `Init`: a freshly generated key, with counter 0 or any salt in the
    high bits, nothing printed.
  - `Increment`: `ppp_increment`'s +1 after the load's range check.
  - `UpdateLatest`: `update_latest_card` of spec §4.8 (the agent side is
    not under `src/`), LP = max(LP, n) for the current or next card.
  - `Exhausted`: STATE_NUMSPACE from then on.
- **Widths:** scaled from 128/64 bits to `CounterBits`/`CodeBits`.
- `MCPPPCard` also takes in `LegacyPPP` and checks, as `ASSUME`s, that
  its `ppp_calculate` gives the positions `ppp_testcase` in `src/ppp.c`
  and spec scenario E expect, and that its `ppp_get_passcode_number` maps
  every position of every counter of the model back to that counter.
- `MCPPPCard` instantiates `PPPPasscode` for `EncodeMatchesReference`
  (see below), so the card run checks the digit loop too.

### `LegacyPPP`: the older engine of `src/ppp.c`

Pure operators, no variables: `AddSalt`, `GetPasscodeNumber`, `Calculate`
and the digit loop of `ppp_get_passcode` (`Digits`, RECURSIVE). Its flags
are a set of `Flags` (`src/state.h`): salted unless `NOT_SALTED`, the
88-character alphabet with `ALPHABET_EXTENDED`. Its two alphabet tables are
character for character alphabets 1 and 2 of `src/libotp/ppp.c`, so a
passcode is compared as its digit sequence. It is checked only
by `ASSUME`s, which TLC evaluates before any run: in `MCPPPCard` (the test
vectors and the round trip above) and in `MCPPPPasscode` (its digit loop
equals spec §4.1's closed form for both alphabet lengths). It has no
variables, so no run of its own.

### `PPPPasscode`: derivation and checking of a passcode

- `Encode` (RECURSIVE) is the digit loop of `ppp_get_passcode`.
  `EncodeReference` is the closed form of spec §4.1.
- `AlphabetVerify` is `ppp_alphabet_verify`.
- `GetPasscode` gives the possible results of `ppp_get_passcode`,
  including the uninitialised buffer of the failed-alphabet path as a
  nondeterministic choice.
- `Authenticate` is `ppp_authenticate`.
- `EncodeMatchesReference`, checked in the `card` run through `MCPPPCard`,
  compares `Encode` with `EncodeReference` for ciphers at digit
  boundaries, every built-in alphabet length and the key's passcode
  lengths up to 4. `MCPPPPasscode` has only the `passcode_accept` run.

### `StateDB`: load and store of state files

- **Variables:**
  - `dbMode`: `cfg->db`, fixed at start.
  - `exists` and `file`, per path (`_db_path`): the global path and one
    per user.
  - `last`: the last call and its result.
- **Operators and actions:**
  - `StoreFile`: steps 1–4 of `db_file_store`, including the duplicate-entry
    path.
  - `Store`: store or removal, with every failure path leaving the file
    unchanged.
  - `Load` (`db_file_load`).
- Each call is one step because it runs under the lock; crashes inside a
  store leave the file unchanged, since only the rename changes it.

### `AtomicStore`: what a store promises (abstract)

- **Variables:** `kv`, each user's entry as a load returns it; `acked`,
  the stores that returned success.
- **Action:** `Store(p, v)`: caller `p`'s store of `v` succeeds, and only
  its user's entry changes. A failed store is a stuttering step.
- Taken from spec §4.10 (tmp file, then rename) and §5 (every load/store
  window is ordered); it is the contract `StateDB`'s per-call model assumes.

### `StateStore`: `db_file_store` step by step, inside the lock

- **Variables:** `StateLock`'s, plus:
  - `db` and `dbExists`: the lines of the global database;
  - `tmpName`: the inode the name `<db>.tmp` denotes; `tmpData` the lines
    of each tmp inode; `tmpCreated` the inodes created;
  - per process: `spc` (its step in `db_file_store`), `snap` (the lines it
    read), `out` (the tmp inode it has open);
  - `acked`: the history of stores that returned 0.
- **Actions:** `Begin` and `LockStep` (the lock, from `StateLock`),
  `ReadDb` (`fopen(db, "r")`), `OpenTmp` (`fopen(tmp, "w")` truncates the
  existing inode or creates one), `Chown` (root's `stat` + `chown`),
  `Flush` (steps 1–3 and `fflush`, written at offset 0 by `Overwrite`),
  `Rename` (publishes whatever inode `<db>.tmp` names now) or `UnlinkTmp`
  (error path), then the unlock; `Crash` anywhere.
- The entries written are computed with `StateDB`'s `StoreFile`, through
  `DB == INSTANCE StateDB WITH ...` on the global path.
- **Refinement:** `Atomic == INSTANCE AtomicStore WITH kv <- [u \in Users
  |-> Entry(u)], acked <- acked`, where `Entry(u)` is what `db_file_load`
  finds for `u` in `db`. `StoreIsAtomic == Atomic!Spec` is checked as a
  `PROPERTY`: every step either leaves every load result alone or is the
  successful store of its caller's entry.
- **Liveness:** `LockReleased`: every fcntl lock taken is eventually
  released.

### `DbPermissions`: `_db_file_permissions`

- A pure operator, `Permissions(in)`, over the inputs of one call: `cfg->db`,
  whether the caller is root, and `stat()` of `CONFIG_DIR`, of the database
  and of the home directory, reduced to existence, type, expected owner and
  the group/other write bits; plus whether root's repairing `chown`
  succeeds. It returns `OK`, `IO_ERROR`, `NO_USER_HOME` or `NON_EXISTENT`.
- `SafeGlobal` and `SafeUser` state spec §4.10's policy. `MatchesPolicy`
  compares the two over every input of a mode.
- `MCStateDB` instantiates it. `PermissionsMatchPolicy` checks the mode the
  run's `dbMode` configures, so the `db` run covers both.

### `StateEntry`: the text of one entry

- Pure operators over one entry's text, a sequence of one-character
  strings. `GenerateUserEntry` is `_db_generate_user_entry`: the fields
  joined with `:`, a newline, `snprintf` into `STATE_ENTRY_SIZE` bytes, and
  only `tmp < 10` and `tmp == buff_length` refused, so a longer entry is
  written cut short. `ReadLine` is the `fgets` and the line checks of
  `_db_find_user_entry`; `Strtok` is `_strtok` (`strsep`, tokens cut at a
  newline); `ParseUserEntry` is `_db_parse_user_entry`; `LoadEntry` is the
  rest of `db_file_load` for the free-text fields. The `strncpy` copies of
  label and contact never write the byte the "too long" checks read, so
  that check is a nondeterministic choice.
- Numeric fields (key, counters, times, lengths, flags) are opaque tokens:
  their hex/decimal conversions are not modelled. Username, static
  password, label and contact are free text over `a`, `:` and a newline.
- `MCStateDB` instantiates it with 2-character fields and a 31-byte entry
  buffer, where the longest entries hit the `snprintf` limit exactly or
  overrun it. `EntryRoundTrip` says that an entry written for a state
  whose label and contact pass `state_validate_str` is read back as that
  state or refused, and is read back when it fits the buffer. A label or
  contact holding `:` is always refused.

### `OutOfBand`: `ph_out_of_band`

- **Parent** (`ppc`, `ret`, `times`):
  - `Check`: the enabled, stat and permission checks.
  - `Gather`: `ppp_get_current` and the contact.
  - `Fork`
  - `Poll`: one `usleep` + `waitpid(WNOHANG)` of the 200-iteration loop.
    It reaps a dead child, counts down while it lives, or returns 1 on -1.
    With `WNOHANG`, -1 is `ECHILD` only, so that branch needs a child that
    has already been reaped elsewhere (state `reaped`).
  - `Kill`, `ReapOnce`: the timeout path.
  - `ReportStatus`: the child was reaped; return 0.
- **Child** (`cpc`, `uid`, `gid`, `status`, `ran`, `sigkill`):
  - `ChildRelease`, `ChildSetGid`, `ChildSetUid`, `ChildExec`, with exits
    11, 12 and 13.
  - `UtilityExits`: the script ends.
  - `ChildKilled`: SIGKILL takes effect.
  - The script may also hang: no action is forced on the child.

### `AgentClient`: `agent_connect` and `agent_disconnect`

- **Client** (`cpc`, `ret`, `allocated`, `fds`): `Alloc`, `Pipes`, `Lookup`
  (`_get_agent_executable`), `Fork` (whose -1 is not checked), `CloseEnds`,
  `Wait` (`agent_wait`, whose timeout comes from spec §4.12), `Recv` (`agent_hdr_recv` and the
  checks of the INIT frame), `Disconnect`. `Cleanup1` is the `cleanup1`
  label.
- **Child and agent** (`child`, `pipe`, `sent`):
  - `ChildSetup`: the child's descriptor rewiring and `execl`, or the
    emergency INIT frame.
  - From spec §4.12 and §5, since the agent is not under `src/`:
    `AgentStart` (its INIT frame, or anything a wrong executable writes),
    `AgentDies`, `AgentEof` (exit on a closed pipe).
- `sent` is a history variable: the first frame the child wrote.

## Runs

| run | cfg | expect | what it shows |
|---|---|---|---|
| session | `PPPSession.cfg` | pass | Conditional on an exclusive lock (`UnlinkLock = FALSE`, the lock file left in place). With 3 processes, 2 logins each, one same-passcode retry, 2 lock attempts and MaxCode 3, no passcode is accepted twice (`NoReplay`). The lock is held only inside load/store windows (`LockHeldOnlyInWindow`). The stored counter never exceeds `max_code` (`TypeOK`). About 1.26 M distinct states in 40 s. |
| session_race | `PPPSession_race.cfg` | violation | The code's lock (`UnlinkLock = TRUE`). p2 opens the lock file while p1 holds it; p1's unlock unlinks it, p1 logs in again and locks a new inode, p2 locks the old one. Both load counter 0 and both accept its passcode (`NoReplay`). |
| card | `PPPCard.cfg` | pass | Every passcode-length class, salted and unsalted, over a key's whole life: the prompt's card, row and column map back to the counter and lie on a valid card; +1 never carries into the salt. The digit loop of `ppp_get_passcode` equals the closed form for every alphabet length (`EncodeMatchesReference`). The warnings can always be drained without the `assert(0)` (`WarningsDrain`), and no increment takes the user past the latest printed card without a LAST_CARD warning first (`WarnedBeforeNothingLeft`). About 144 k states in 1 min. |
| passcode_accept | `PPPPasscode_accept.cfg` | violation | With a rejected alphabet id, `ppp_authenticate` can succeed against an uninitialised buffer. Id 6 gets through `ppp_alphabet_verify` (off by one) and reads past the table. |
| db | `StateDB.cfg` | pass | In both configurations (`cfg->db` global or user, chosen at start), with 3 users, 2 values and files of up to 3 lines, stores and removals read back correctly and leave other users' entries untouched. In user mode, removal unlinks the file. The permission check accepts exactly the files spec §4.10 allows, for all 57,600 inputs of each mode (`PermissionsMatchPolicy`). One entry's text is read back as the state written or refused, never as another; entries that overrun the buffer are refused, not misread (`EntryRoundTrip`). |
| store | `StateStore.cfg` | pass | Two sessions of two users storing into the global database through the lock, with every failure path, failed renames and crashes: `db_file_store` refines `AtomicStore` (`StoreIsAtomic`), and every lock taken is released (`LockReleased`, liveness). About 6.6 k distinct states. |
| store_race | `StateStore_race.cfg` | violation | A third session makes the lock race possible. Two stores are in the window; the second's `fopen(tmp, "w")` truncates the tmp file the first has flushed, and the first's rename publishes an empty database, without the entry it wrote, and returns 0. |
| db_duplicate | `StateDB_duplicate.cfg` | violation | With a duplicate line, a store "succeeds" and drops everything after the duplicate. |
| oob | `OutOfBand.cfg` | pass | The OOB script never runs before setgid and setuid both succeeded (`ExecOnlyUnprivileged`); `ph_out_of_band` returns even when the script hangs (`ParentReturns`, liveness). |
| oob_reap | `OutOfBand_reap.cfg` | violation | After the polls, `ph_out_of_band` sends SIGKILL, sleeps 100 µs and polls once with `WNOHANG`; when the child has not died yet, it returns 2 and the child is left unreaped. |
| agent | `AgentClient.cfg` | pass | `agent_connect` connects only after an INIT frame with status OK, whatever the child or a wrong executable writes. |
| agent_leak | `AgentClient_leak.cfg` | violation | With no agent executable found, `agent_connect` returns with four pipe descriptors open and the structure allocated. |

Each property of a passing run has a mutant in `PROJECT.json`. The mutant is
a plausible bug of the mapped code that TLC finds violating the property.

## Bounds, and why they are enough

- **PPPSession:**
  - 3 processes let one process's rollback race two others.
  - 2 logins each, and one retry in mode 2, so `ppp_decrement` runs after
    another login has moved the counter.
  - `LockAttempts = 2` makes lock timeouts reachable.
  - `MaxCode = 3` is enough for the counter to reach NUMSPACE.
  - Lock-file inodes are created on demand; with 3 processes and 2 logins
    each there are enough lock rounds for the unlink race (three: the
    holder, a waiter on the old file, a newcomer on a new one).
  - The run takes about 40 s and finds about 1.26 M distinct states.
  - Processes are symmetric.
- **StateStore:** users u1, u2 and one initial value; processes p1 (u1),
  p2 (u2), p3 (u1); one session per process; `LockAttempts = 2`. The lock
  race needs three lock rounds: the holder, a waiter on the old lock file,
  and a newcomer on a new one. With two processes (`store`) it cannot
  happen, so that run checks the store steps under a working lock; with
  three (`store_race`) it happens, and TLC shows what it does to the data.
  One session each keeps the stored values distinct (`Val(p)`), so a lost
  update is visible.
- **PPPCard:**
  - Counter widths are 12 and 8 bits, where the code uses 128 and 64.
    These keep every row size of `_len_to_card_size` (11, 8, 7, 5, 4, 3,
    2 per row) with more than one card. At 8 bits every division
    `code_mask / codes_on_card` is inexact, as at 64 bits.
  - All 16 salts are covered.
  - `MaxPrinted = 2`: the latest printed card grows 0, 1, 2, so the
    counter crosses a printed card, the last printed card and the first
    unprinted one.
- **PPPPasscode:** the cipher values cover digit boundaries (0, 53, 64,
  4000, 5000, 300000, 59969535, 2^30+12345) for passcode lengths 2 to 4
  and the alphabet lengths 54, 56, 60, 64, 77 and 88. Alphabet ids 0–7
  cover the table, the first id past it, and one beyond.
- **OutOfBand:** `Polls = 3` in place of 200. The loop's behaviour does not
  depend on the count beyond "some polls, then the kill", and 3 lets the
  child finish before, during and after the loop.
- **AgentClient:** no constants; every frame type and status is enumerated.
- **StateDB:** 3 users, 2 values, files of up to 3 lines, in both
  configurations. The initial files are every well-formed file whose lines
  belong to the file's path, and for `db_duplicate` every global file.
  About 138 k distinct states in 30 s. `EntryRoundTrip` covers every
  username/static-password/label/contact combination over `a`, `:` and a
  newline up to 2 characters (338 states), in a 31-byte buffer that the
  longest of them fill exactly or overrun.

## Fairness

- `StateStore` assumes weak fairness of each process's store steps
  (`WF_vars(StoreSteps(p))`): the lock loop is bounded (20 attempts), and
  the others are system calls that return (`fopen`, `chown`, `fflush`,
  `rename`, `unlink`, `fcntl`). Starting a session and `Crash` get no
  fairness: a process may die anywhere, and the kernel then drops its lock.
- `PPPSession`, `StateLock`, `PPPCard`, `PPPPasscode` and `StateDB` check
  safety only and assume no fairness. A login may stop at any step, which
  the `Crash` actions model explicitly.
- `OutOfBand` assumes weak fairness of the parent (`WF_vars(Parent)`).
  Each of its steps is a sleep or a non-blocking system call (`stat`,
  `fork`, `waitpid(WNOHANG)`, `kill`), so it always completes. The child
  and the script get no fairness: they may hang, which is what the timeout
  is for.
- `AgentClient` checks safety only. Its blocking call, `agent_wait`, is
  not under `src/`; its timeout is known only from spec §4.12, so that
  `agent_connect` returns is not claimed of the code.

## What is not modelled, and why

- AES and the bignum library are not under `src/`. They are abstracted to
  functions of their inputs.
- `ppp_get_prompt` and the wording of the warning messages are formatting.
  One formatting defect is listed as a hazard without a property:
  `failures_buff` is sized by `sizeof` of a pointer, so the recent-failures
  message is cut to 17 characters.
- The numeric fields of an entry (hex key and counters, decimal counts and
  times) are not parsed in `StateEntry`; they are single tokens, and their
  conversions (`num_import`, `crypto_hex_to_binary`, `sscanf`) are not
  under test. A file of several text lines is not modelled at the text
  level, so the damage a cut-short entry does to the next user's line
  (hazard at `db_file.c:777`) is listed, not checked. A newline in a label
  or contact is also left out: spec §3 forbids it in the state value, and
  the code that sets labels is not under `src/`.
- The CLI utility, passcard printing (LaTeX/ASCII) and logging have no state
  to check.
- Of the legacy `src/ppp.c` (superseded, spec §9), `ppp_get_prompt` is
  formatting and `_ppp_testcase_authenticate` calls `state_load_inc_store`,
  which is not under `src/`.
- `ppp_increment` stores counter+1 without `verify_range` (spec §4.7 says
  verify, then store), so the last passcode stores `max_code`; the next
  `ppp_load` reports NUMSPACE. It loses or replays nothing, and is left as
  a hazard rather than a run.
- `PPPSession` states no liveness. The login waits for the user's input
  (`ph_query_user`), which no fairness of the code guarantees. The lock
  window contains no user input, and its release is checked in
  `StateStore` (`LockReleased`). `PPPSession`'s run also relies on
  symmetry of the processes, which TLC does not support for liveness.
- The agent request wrappers (`agent_state_load` … `agent_clear_recent_failures`,
  `agent_set_user`) only fill a request header, call `agent_query`, and
  copy an argument of the reply. `agent_query`, the framing
  (`agent_private.c`) and the agent server are not under `src/`, so a
  model of them would check the spec rather than the code.
- The `alphabet_extended_no_vowels` table has 77 characters, while its
  comment and spec §3 say 78. `BuiltinLen` uses the counted length.
