# CryptoSec in TLA+

A verification development of [CryptoSec](../src/README.md), a command line
tool that replaces a file or directory by an encrypted container and a
container by what it held. The code of interest is about 3500 lines of Rust;
paths below are relative to the repository, whose crate lives in `src/`.

AES-GCM, ChaCha20-Poly1305, Argon2id, HKDF, X25519, ML-KEM and RSA are library
calls and are trusted to do what they promise. What is modelled is everything
the program builds from them and around them that can lose or mix up data:
chunking and nonces, what binds a container's parts together, how a data key
gets through a key pair, the program's own cipher, the order of writing,
moving, checking and removing files, the read-back of a tree, and the key
store.

## The system

| Part | State | Operations | What is hard about it | What makes it correct |
| --- | --- | --- | --- | --- |
| Chunked stream, `src/stream.rs` | `Sealer` counter and prefix; `EncWriter` buffer; `DecReader` opened chunk, position, done flag | `write`, `flush_full`, `finish`; `fill`, `read` | chunk boundaries, an empty last chunk, stored bytes cut or rearranged, counter overflow | a reader gets a prefix of what was written and sees the end only behind all of it; no nonce twice |
| Runs, `src/ops.rs` | files, scratch files, the data key of the run | `encrypt`, `decrypt`, `verify`, `shred`, `remove`, `sync_parent`, `Scratch::drop` | failures and crashes between any two steps, edits meanwhile, overlapping runs, options that combine | the newest data can always be had from somewhere; an input goes only for its equal |
| Directory read-back, `src/ops.rs:380-460`, `723-770` | archive and tree, entry by entry | `verify_directory`, `count_entries`, `walkdir_files`, `shred_file`, `remove` | a tree that changes while it is walked, symlinks, FIFOs | a tree that passes is all in the archive; nothing outside of it is touched |
| Key store, `src/keys.rs`, `src/commands.rs` | `NAME.pub`, `NAME.key` | `keygen`/`save`, `list`, `find_by_fingerprint`, `resolve`, `load_public`, `load_private` | two files written one after the other, no lock, failures and crashes between them | no keygen damages another's private key; what is encrypted for a key of the store opens with it |
| Container format, `src/format.rs` | the bytes before the stream | `write_header`, `read_header`, `looks_encrypted` | versions, six schemes with one gate, altered headers, parts of other containers | nothing opens but what was written, and for whom; what is intact opens |
| Key derivation and exchange, `src/kdf.rs`, `wrap`/`unwrap` in `src/keys.rs`, `src/radix/hybrid.rs` | key files, headers | `generate`, `save`, `load_*`, `wrap`, `unwrap`, `obtain_dek`, `encapsulate`, `decapsulate` | no checksums, several encodings of one value, implicit rejection | a wrapped key comes out only of what it was put into; a key that loads works |
| Radix, `src/radix/aead.rs`, `cascade.rs`, `permutation.rs` | the state of the duplex | `absorb_ad`, `encrypt`, `decrypt`, `tag`; `seal`, `open` of the cascade | padding, domain separation, order of the layers and checks | one layer that holds is enough; opening inverts sealing; the text commits to its key |
| Command line, `src/main.rs`, `src/cli.rs`, `src/ui.rs` | none | parsing, prompts, `open` | interactive | the options reach `ops` as given |
| Packaging | none | scripts | | no program logic |

How they interact: `main` turns the command line into one call of
`ops::encrypt`, `ops::decrypt`, `ops::info` or a key store command. `encrypt`
asks the key store for a public key (and may run `keygen` on the way), draws a
data key, writes the header and feeds manifest and contents through
`EncWriter`; `verify` and `decrypt` read them back through `DecReader`, each
chunk through one of the ciphers. `decrypt` finds the private key through the
fingerprint in the header. Processes share nothing but the file system, and
nothing takes a lock: two invocations meet in the names of files.

## The modules

| Module | What it is |
| --- | --- |
| `Pipe` | what the stream promises: bytes go in, a prefix comes out, the end means all of them, a failure means damage |
| `Stream` | `src/stream.rs`, action by action; implements `Pipe` |
| `FileSystem` | names, inodes, and what a crash leaves of both; external to the repository |
| `Replacement` | what encrypting and decrypting promise about the user's data: no place of it is given up when a crash could then leave it nowhere |
| `Ops` | `encrypt` and `decrypt` of `src/ops.rs` as steps over `FileSystem`; implements `Replacement` |
| `ReadBack` | packing, comparing, counting, shredding and removing a directory, entry by entry |
| `Container` | the header, the wrapped key, `obtain_dek`, and the read-back's part in them |
| `Hybrid` | X25519, ML-KEM by what they give, and Radix-Hybrid made of both |
| `KeyWrap` | the key files, `wrap`, `unwrap` and `obtain_dek` over `Hybrid`, with damage in storage |
| `KeyStore` | `keygen`, `save`, the lookup by fingerprint, crashes |
| `Duplex` | Radix-AEAD over any permutation |
| `Cascade` | the three layers and the commitment, with `Duplex` as the innermost |
| `StreamProofs`, `OpsProofs`, `ReadBackProofs`, `ContainerProofs`, `KeyWrapProofs`, `KeyStoreProofs`, `CascadeProofs` | theorems about the module each is named after |
| `DataProofs` | continues `OpsProofs`: the input goes for its replacement, the data survives, and the runs implement `Replacement` |
| `MCStream`, `MCOps`, `MCReadBack`, `MCContainer`, `MCKeyWrap`, `MCKeyStore`, `MCCascade` | the small instances TLC checks |

Where one module stands for another's outcome, the other is its refinement in
words: the chunks of a container's body are `Stream`'s, a chunk of
Radix-Cascade is sealed and opened as `Cascade` has it, the equality in
`Ops`'s `ReadsBack` is what `ReadBack` decides for a tree, the wrapped keys in
`Container` are those of `KeyWrap`, whose files `KeyStore` writes. Two of
these are composed in one specification: `Ops` runs on `FileSystem`, and
`KeyWrap` on `Hybrid`, as `Cascade` does on `Duplex`.

A definition whose comment begins with "Mutant:" is not part of the
specification. It is a plausible mistake in the definition that follows it,
and putting it in that definition's place makes the property violated that
`PROJECT.json` lists with it: this is how each property is shown to depend on
the code.

### Stream

`taken`, `bufLen` and `wctr` are the writer's accepted bytes, buffer and
counter; `sealed` and `file` its chunks and their bytes; `rpos`, `rctr`,
`plain`, `pos` and `done` the fields of `DecReader`; `delivered` what its
caller has got. A plaintext byte is its own position, so bytes out of order,
missing or repeated are all visible. The bytes of a chunk are units that carry
the chunk; a piece of the file opens exactly when it is all the units of one
chunk, in order, under the nonce (counter and flag) the reader expects. That
is the assumption on the AEADs. `Damage` changes the stored bytes once, before
or between two reads, to anything `Damaged` allows made of the units that are
there and of garbage: it cannot seal. A turn of `flush_full`'s loop is an
action, one call of `fill` is `EndsEarly`, `OpenChunk` or `RejectChunk`, and
the read behind the final chunk is `CheckTrailing`, so the file may change in
between. Failures of the disk are not here: in `Ops`, every step may fail.

### FileSystem, Ops and Replacement

`entry` maps a path to an inode, `content` an inode to what it holds. `saved`
and `onDisk` are what a crash may leave of an inode or a directory: the
changes of one directory reach the disk in order (as a journal does),
different directories independently, and an inode's bytes are certain only
after `sync_all`. This is what POSIX file systems with ordered metadata give;
a weaker one could only add crashes that lose more.

A run goes through `create`, `copy`, (`clear`,) `rename`, (`verify`,)
(`sync`, `remove`, `unlink`), as the lines of `encrypt` and `decrypt` follow
one another; `job` is its command, output and open container. Packing and
unpacking are a step each: the scratch file is `Partial` from its creation on,
which a failure or a crash in the middle leaves, and a source that changes
while it is read differs from what was packed, which is what the read-back
decides. `ReadsBack` is the whole of `verify`: data key, name, kind and every
byte. A directory is one inode that can be `Gutted`; what happens inside is
`ReadBack`'s. The scratch directory that remains for a moment after an
unpacked tree was moved out of it is left out. `Refuse` stands for every early
return before the scratch file exists. A command that is `blind` has a sync
before the removal that has no effect: its output is a bare file name, whose
parent is the empty path, or the sync fails, and `sync_parent` ignores both. A
run whose move fails is `stranded`, because the scratch file was handed over
before and stays. Edits by the user are durable at once and come at any time.

Three history variables say what is promised. `version` is the newest version
of the user's data, `promised` the newest that was there before a run compared
its source: an edit behind the comparison goes with the source, so only what
was compared has to be kept. `waived` ends the promise when the user has
asked for it or nothing can be asked any more: a run has gone on without the
sync, or has put something else in the newest data's place, with `-f` or
because it packed what another run's removal had left (`GivesUp`).

`Replacement` knows only the places the newest data can be had from (`held`)
and the sets of places a crash may leave it at (`after`). A place may be
dropped only if no crash can then leave the data nowhere. `AbstractView` maps
`Ops` to it: `Held` are the user's paths that lead to the promised version or
a newer one in the open or in a container, `After` is computed from `onDisk`
and `saved`.

### ReadBack

`disk` is the tree: a file with its contents, a symlink with its target, a
FIFO, a directory or nothing at each path. `pending` is what tar has listed
and not yet packed, `archive` what it has written, `at` and `seen` the loop of
`verify_directory`, `stack` and `onDisk` that of `count_entries`, `files` what
`shred` has still to overwrite. Listing one directory is a step, and so is
packing, comparing, overwriting or removing one entry; the user may change,
create, replace or remove any entry between two of them. Where a symlink leads
is not known, so a lookup through one (`ByLink`) may find anything. `late` are
the paths changed after they had been looked at.

### Container

`stored` are the container files, each a preamble, the JSON (its spelling and
what it means) and a body; `written` remembers each as `encrypt` wrote it and
for whom, `verified` as it was when the read-back passed. Everything random a
container draws (data key, salt or ephemeral key, nonce prefix) is fresh, so it
goes by the container's name. A derived key is what it was derived from; a
wrapped key or a body is the set of what opens it, and an alteration can move
or empty such a set but not fill it: that is the assumption on the AEADs, on
Argon2id and on the key exchanges. `Alter` may change header, body and
preamble at once, field by field or with those of the other container.
`Encrypt` may `slip`: the key derived from the password is not the one the
password gives, which is the mistake `verify` says it derives the key again
for. The preamble is not authenticated, and the model lets it be edited.

### Hybrid and KeyWrap

A scalar, a point, an ML-KEM key or ciphertext is named by whom it was drawn
for, with a flag for each part that can change without changing its meaning
(the top bit of a point, the clamped bits of a scalar) or that a check looks
at (coefficients below q, the embedded hash). A derived key is the record of
everything that went into HKDF. `pubs`, `keys` and `headers` are the files;
`DamagePub`, `DamageKey` and `DamageHeader` change a part, put another pair's
or container's in its place or name another algorithm. `broken` says whether
ML-KEM is broken, in which case it decapsulates damaged ciphertexts as well.
`LoadsPublic`, `LoadsPrivate`, `Fits` and `Unwrap` are the checks of the code
in its order; there are no others, which is what the properties are about.

### KeyStore

A key pair is the keygen that drew it. `Check` to `SyncKey` are the steps of
`keygen` and `save`: the existence check, the `.pub` emptied and written by
`fs::write`, the `.key` created with `create_new`, written and synced. What may
not be on disk is kept per name: the `.pub` altogether (`unsettled`), the
contents of the `.key` (`unsynced`, which `sync_all` ends) and its directory
entry (`unnamed`, which nothing in `save` ends, only the system's writing back,
`Settle`). A crash may leave each file without its name or damaged accordingly
(`Left`), every one by itself. A file that is `Damaged` is one `Armor::parse`
or `KeyAlgo::parse` refuses, as an empty or short one; files that parse and are
damaged are `KeyWrap`'s. `containers` are the fingerprints that things were
encrypted for until the first mishap, and `Opens` is `obtain_dek` without
`--key`. `here` are the names that a file in the working directory bears, which
`resolve` prefers. `overlapped` are the names that two keygens were at at once,
and `mishap` is set by what containers may not survive: such an overlap, a
failed write, a crash, a `.key` file given as a public key. `lost` are the
pairs whose `.key` a crash took out of the directory.

### Duplex and Cascade

The permutation is a parameter, so what is shown holds for whatever
`permutation.rs` computes. The state has four rows, two of them the rate; a
row is the set of what was added up in it, so adding twice cancels out, and a
block is two pieces where the code has sixteen bytes. `NewDuplex`, `Absorb`,
`Separate`, `Encrypted`, `Decrypted` and `Tag` are the functions of
`aead.rs`, `AbsorbAd` and `TakeBlock` the turns of its loops. A standard layer
that holds opens what it sealed, under the same master key, nonce and
associated data; a `broken` one passes everything. `Alter` changes the
contents, the tag or the commitment of a text or cuts it short; whatever the
new contents are, they come in whole blocks and a rest.

## What is checked

| Run | Bounds | Distinct states |
| --- | --- | --- |
| `stream` | chunks of 2 bytes, overhead 1, 4 counter values, 7 bytes, 4 stored pieces | 18 000 |
| `ops_file` | 2 successive runs, 1 edit, 1 crash, 2 directories | 84 000 |
| `ops_dir` | the same for a tree, and 1 foreign file | 647 000 |
| `ops_concurrent` | 2 overlapping runs, 1 crash | 38 000 |
| `readback` | 5 paths, 1 of them a subdirectory; 2 edits | 562 000 |
| `container` | 2 containers, 2 passwords, a key of each algorithm and a second X25519 key, 1 alteration | 214 000 |
| `keywrap` | a pair of each algorithm and a second one of Radix's, 2 containers, 2 damages | 737 000 |
| `keystore` | 2 names, 3 keygens, 1 crash, 1 file in the working directory | 752 000 |
| `cascade` | 2 master keys, 3 sealings and openings, messages of up to 2 blocks and a rest, 1 alteration | 527 000 |

What they show:

- `stream`: nonces differ (`NoncesDistinct`), whatever becomes of the stored
  bytes the reader delivers a prefix (`DeliveredIsPrefix`), the end means all
  (`EofMeansComplete`), what nobody touched opens (`IntactReadable`), the
  reader ends (`ReaderEnds`), and `Stream` implements `Pipe`.
- `ops_file`, `ops_dir`: the promised data survives every failure, edit and
  crash (`DataSurvives`), the input goes only when its equal is in place
  (`InputGoesForItsReplacement`), `-k` and `--no-verify` keep it
  (`KeptInputUntouched`), nothing is replaced without `-f`
  (`NothingOverwritten`), no scratch file stays (`NoLeftovers`), no name leads
  to half a file (`NamesShowWholeFiles`), runs end (`RunsEnd`), and `Ops`
  implements `Replacement`. `ops_file` has `-f` over something unrelated and
  over the original, and blind syncs; `ops_dir` has retries with `-f` over a
  container whose source was half removed.
- `ops_concurrent`: neither of two runs takes away what the other relies on,
  with any options but `-f`: together they implement `Replacement`.
- `readback`: when the removal begins, all that is there is in the archive or
  changed late (`RemovedIsSaved`); a tree nobody touches passes
  (`UndisturbedPasses`); nothing outside is touched (`OutsideIntact`); the
  run ends (`RunEnds`).
- `container`: what opens is what was written, and for whom
  (`OnlyWrittenOpens`); what is intact opens (`WrittenOpens`), also after
  `verify` when a key derivation went wrong (`VerifiedOpens`).
- `keywrap`: a data key comes out only of what it was put into
  (`OnlyWrappedUnwraps`), a private key that loads and fits works
  (`LoadedKeyUnwraps`), and what is encrypted for a `.pub` opens exactly if
  that file was whole (`OpensIfPubWhole`).
- `keystore`: nothing but a crash touches a private key that is there
  (`PrivateKeysKept`); one that was reported is never replaced and never
  damaged, though a crash may take it away whole (`SuccessMeansStored`); pairs
  match (`PairsMatch`), without a mishap all containers open
  (`ContainersOpen`), keygens end (`KeygensEnd`).
- `cascade`: while one layer holds, what opens was sealed (`OnlySealedOpens`);
  what was sealed opens (`SealedOpens`); no text opens under two master keys,
  even if no layer holds (`OneMasterKey`); Radix is given only what passed
  both standard tags (`RadixSeesOnlySealed`).

Why the bounds are enough. Seven bytes in chunks of two make an empty stream, a
partial chunk, an exact boundary (an empty last chunk), three full chunks, so
that two of them can change places, and a rest, with the counter reaching its
last value; writes and reads of every size
up to the whole stream cross the boundaries in every way. Two successive runs
are what it takes to encrypt and decrypt again, to encrypt twice, to encrypt a
container, and to retry after a crash or a failure; two overlapping runs are
one more than the code was written for. Two directories are what durability
tells apart. In the tree, two entries and one in a subdirectory are a packed
entry, one that was not packed and one that a change of its parent takes
along, and two edits are what it takes to make a count agree that should not.
One alteration of a container changes any field, the body and the preamble
together; two damages of key files and headers can be one on each side of an
exchange. Three keygens for two names put two of them on the same name next to
an innocent third, or all three on one. One file in the working directory can bear
either name, and a lookup asks for one. A message of a block and a rest, and
one that looks like the padding of a shorter one, are the cases padding tells
apart.

Deadlock is not checked: every one of these programs ends.

Fairness. `Stream` assumes that the reader's caller goes on reading
(`WF(Read)`): `io::copy`, tar and `compare` loop until the end or an error.
`Ops`, `ReadBack` and `KeyStore` assume that an invocation that was started
takes its next step (`WF` per run, `WF` of the run's `Step`; a keygen's
failing write does not count as one): the code waits for nobody, takes no lock
and does not retry. Neither the user, nor a crash, nor the start of a run is
fair. A FIFO does make the read-back wait for somebody else, which is why
`RunEnds` has the condition `NoFifo`; prompts come before the modelled steps.

### Where the code does not do what it says

Three runs state a sentence of the documentation that TLC finds violated:

- `ops_failed_check`: README.md says the container is discarded if the check
  finds anything. The source is edited after it was packed, the check finds it
  different from the container; `encrypt` has moved that to its output before
  `verify` (`src/ops.rs:257-262`), and it stays there.
- `ops_overlap`: two encryptions of one file, both without `-f`. Both find the
  output free; the file is edited after the first has packed it; the second
  packs, verifies and syncs the new version; the rename of the first puts its
  older container over it; the second removes the source. "Nothing is deleted
  on trust" does not hold.
- `ops_dir_crash`: what is unpacked of a directory container is not synced
  before the container is removed (`src/ops.rs:561-590`).

More are known from changing a passing run's configuration. The properties of
the passing runs have conditions for them, or the run leaves the circumstance
out; each line says how to see it.

| Circumstance | What happens | To reproduce |
| --- | --- | --- |
| `-e x -o x -f`, also with `-k` or `--no-verify` | the source is replaced before any check (`src/ops.rs:257`) | `Commands <- EncryptOntoItself` in `MCOpsFile.cfg`: `KeptInputUntouched` |
| `-d x -f` of a container `x` that carries the name `x` | the restored file is renamed over the container and then removed as the container (`src/ops.rs:590`) | `Commands <- DecryptOntoItself`: `DataSurvives` |
| `-e a -k -o e/x`, which syncs no directory, then `-d e/x -f -o d/a` and a crash | the original is removed before the restored file has its name (`src/ops.rs:553`) and the container's name was never certain | both commands in `FileCommands`: `DataSurvives` |
| a bare `-o` name, or a sync that fails | the sync the removal relies on has no effect (`src/ops.rs:464`) and a crash loses the data | without `waived'` in `SyncParent`: `DataSurvives` |
| two overlapping `--shred`, or a retry with `-f` after a removal that was cut off | noise or a gutted tree is packed, verified against itself and replaces the good container | without `waived'` in `Move`: `DataSurvives` in `ops_concurrent`'s and `ops_dir`'s instances |
| a rename that fails | `scratch.keep()` came before it (`src/ops.rs:256`, `552`); the file stays, and may hold plaintext | without `stranded`: `NoLeftovers` |
| another program creates the output after `ensure_free` | it is replaced without `-f` (`src/ops.rs:143`, `536`) | without the last line of `NothingOverwritten` |
| a change between comparison and removal | it goes with the source (`src/ops.rs:290`) | with `promised = version` always |
| a file created in a tree and another, already compared, deleted before the count | the counts agree and the new file is removed unsaved (`src/ops.rs:431`) | without `gone` in `RemovedIsSaved` |
| a symlink that takes the place of a file `shred` has listed | what it points to is overwritten (`src/ops.rs:728`) | without `swapped` in `OutsideIntact` |
| a FIFO in a tree | the read-back waits for ever (`src/ops.rs:419`) | without `NoFifo` in `RunEnds` |
| two keygens for one name | the `.pub` of one with the `.key` of the other (`src/keys.rs:412-442`) | without `overlapped` in `PairsMatch`, without `mishap` in `Check`: `ContainersOpen` |
| a `.key` that fails after its `.pub` was written | things can be encrypted for a key that does not exist | without `mishap'` in `WriteFails`: `ContainersOpen` |
| a crash after a keygen | the `.pub` was not synced, and one that does not parse stops every lookup (`src/keys.rs:387`, `420`) | without `mishap'` in `Crash`: `ContainersOpen` |
| a crash after a keygen has reported success | the `.key` is synced (`src/keys.rs:444`), its directory is not, as `sync_parent` does it for containers (`src/ops.rs:462`); the private key may be gone, with all that was encrypted for it and removed since | without `lost` in `SuccessMeansStored` |
| a `.key` file given as `--key` for encryption | the kind of a key file is not looked at (`src/keys.rs:450`, `555`) | without `mishap'` in `EncryptForKeyFile`: `ContainersOpen` |
| a file in the working directory with the name of a key | it is taken for the key (`src/keys.rs:490`) | without `here` in `ContainersOpen` |
| a `.pub` damaged so that it still has its length | it loads, and nobody can open what is encrypted with it (`src/keys.rs:448`) | the second half of `OpensIfPubWhole` states it |
| a `.key` whose ML-KEM secret is damaged | it loads and gives nothing (`src/keys.rs:175`) | without `DecryptsMlKem` in `LoadedKeyUnwraps` |
| more than 2^32 chunks, 4 PiB, in one file | the counter wraps and nonces repeat (`src/stream.rs:68`) | `CtrMod = 2`, `MaxLen = 6` in `MCStream.cfg` without the bound in `NoncesDistinct` |

## What is proved

By TLAPS, for all values of the constants that satisfy the named assumptions
(`StreamAssumption`, `OpsAssumption` and `InodesAssumption`,
`ReadBackAssumption`, `ContainerAssumption`, `KeyWrapAssumption`,
`KeyStoreAssumption`, `CascadeAssumption`). TLC evaluates each of them in the runs.

Stream, for every chunk size, overhead, counter width, plaintext and damage:
`TypeCorrect`, `NoncesAreDistinct`, `DeliversAPrefix`, `EndIsComplete`, each
from `StreamInvariant`. None of these properties is inductive: that a chunk
opens says nothing of the bytes before it. `StreamInv` adds the chain (every
chunk begins where the one before ends, is numbered by its place while the
counter has not wrapped, and only the final one is flagged) and the reader's
place in it (what was delivered ends at `plain.from + pos`, and the chunk that
will open next begins where `plain` ends). Opening is then the one interesting
step: a piece that opens under counter `k` is the `k + 1`st chunk of the
chain, because its counter and flag are in the nonce, whatever else is in the
file. Two more theorems need that the counter does not wrap
(`CounterSuffices`: less than 2^32 chunks, 4 PiB): `IntactOpens`
(`IntactReadable`), and `StreamImplementsPipe`, the refinement. `IntactInv`
adds where the bytes are: every chunk before the final one is full, so the
stored bytes of chunk `i` begin at a multiple of the sealed chunk size, and
while nothing was touched the reader stands before the chunk its counter names.
The piece it takes there is then that chunk, and it is shorter than a full one
exactly if it is the final one, also when the plaintext ends on a chunk
boundary.

Ops, for any commands, paths, names, number of runs, edits and crashes:
`TypeCorrect`; `NothingLeftOver` (`NoLeftovers`); `KeptInput`
(`KeptInputUntouched`) under `ForcedElsewhere`, which says that what `-f`
replaces is not the input; `FilesAppearWhole` (`NamesShowWholeFiles`) where the
data is a file; and, when runs do not overlap, `NothingReplaced`
(`NothingOverwritten`) and, under `ForcedElsewhere` too, `InputGoneForReplacement`
(`InputGoesForItsReplacement`). They share `NameInv`: besides the types, a run
that decrypts has a container open (`ContainerOpen`), what is there is among
what a crash may leave (`Coherent`), and the name of a run's scratch file leads
to that file alone, which has no other name before it is moved (`OwnNames`).
`Leads` speaks of every state a directory may be in after a crash at once, so
that a crash is a step like any other. To that each theorem adds one thing:
which runs still have their scratch file (`Tidy`), that the output is not the
input (`InputSafe`), that nobody took the output while one run at a time is
under way (`OneByOne`, `OutputFree`), that an inode with a user's name is never
half written (`WholeInv`).

`InputGoneForReplacement` needs an invariant of its own, `GoesInv`. That the
read-back passed is no use at the time of the removal unless what was compared
is still where it was, so `Track` follows each run's files from step to step:
where the scratch file is, that the container that is decrypted is still the
one that was opened, that what was packed is what the source holds or held
before the user changed it. An edit keeps `Track` because of the other two
conjuncts: nothing is newer than the newest version (`Timely`), and the data
and each scratch file lie at one path (`OnePlace`), so an edit reaches only
the file at its path. That runs do not overlap is needed: `ops_overlap` shows
the theorem false without it.

`DataIsSafe` (`DataSurvives`) is about files and runs that do not overlap,
under `ForcedElsewhere` and `ForcedToEncrypt`: `-f` is used only to encrypt.
That is narrower than what the runs check: a decryption with `-f` can lose the
data (the third line of the table above), and when it cannot is for TLC. Its
invariant is that there is, at every moment, a path that no run is about to
take away and that leads to the data whatever a crash may do
(`KeptSomewhere`); a crash then needs no argument. For the other steps
`SurvivalInv` takes `GoesInv`, `OutputFree` and `WholeInv`, and adds that what
is moved into place was synced (`Synced`). Each step leaves that path alone,
or brings another with it: before a run removes its input, the sync of the
output's directory has made the output such a path, because `Track` has it
hold what the input holds.

`RunsImplementReplacement` (`ImplementsReplacement`) holds under the same
conditions. `After`, the sets of places a crash may leave the data at, takes
some unfolding: a crash picks one of the states each directory may be in on
disk (`Outcomes`) and one fate for each inode that was not synced (`Fates`), so
its result is a set of places that contains those that were certain and lies
within those that were possible. `Listed` adds to `SurvivalInv` that what a
directory shows now is among the states it may be in. A step of `Ops` then is
one of `Replacement`'s: a container or a restored file that gets its name is a
`Copy`, a sync a `Settle`, a removal a `Drop`, which `DataIsSafe` permits since
the place that is left is certain; an edit and a crash are what they are
called, what ends the promise is `Waive`, and work on scratch files is
invisible there.

ReadBack, for every set of paths and any number of edits: `TypeCorrect` (the
disk stays a tree), `NothingLost` (`RemovedIsSaved`) and `ElsewhereUntouched`
(`OutsideIntact`), from `CheckInvariant`. The counting is why the invariant
has to be strong: while nothing packed has gone, all paths that were compared
are still on disk, so `seen` is a subset of what is there and has not changed
late; `onDisk` contains, for every directory already listed, everything that
is in it now and has not changed since; two finite sets of equal size, one
inside the other, are equal. What was never packed would make the second one
larger.

`NoFalseAlarm` (`UndisturbedPasses`) is the other direction, from an invariant
of its own: as long as nobody has edited anything (`Undisturbed`), the
archive has every entry as it is on disk, what has been listed is there with
the type it was listed with, whatever is there was packed or listed or lies
below what was listed, and the count and the shredding go by lists of what is
a directory and what is a file. `seen` and
`onDisk` then end up as the same set, whatever kinds of entries the tree is
made of, so the check passes, and nothing is missing when the tree is shredded
and removed.

Container, for any number of containers, credentials and alterations:
`OnlyTheWrittenOpens`, `TheWrittenOpens` and `TheVerifiedOpens`, from
`ContainerInvariant`. The invariant says that the history is made of
containers as `encrypt` writes them, and that any body in storage is one of
those or opens with nothing. A body that opens then gives away the header it
was written with, because the hash of the header is in the additional data of
its chunks (`SealerBinds`, `BodyBinds`); and a header as it was written gives
its data key to its owner alone (`OnlyOwnerObtains`). That what passed `verify`
opens (`VerifyFindsOut`) needs both: for a password because it was tried, for a
key pair because the header is the one it was wrapped into.

KeyWrap, for any pairs of any algorithms, any containers and any number of
damages to key files and headers, with ML-KEM sound or broken:
`OnlyTheWrappedUnwraps`, `LoadedKeysUnwrap` and `OpenIfPubWhole`, from
`WrapInvariant`. That invariant claims little of the files, since nothing is
authenticated in them: they consist of parts of some algorithm, not necessarily
the one they name; every container was made by a key exchange with a `.pub`
that loaded; and a wrapped key in storage is one of theirs or damaged. The work
is in the key derivation. If a private key that loads derives the key a data key
was wrapped with, it has the algorithm and the public half that the container
was made for, and the exchange data it was given are those of that container
(`KekTells`); this is where hashing the transcript matters, because an X25519
point has two encodings and a broken ML-KEM decapsulates anything. Conversely
such a private key does derive it, unless its ML-KEM secret was damaged
(`KekFound`).

KeyStore, for any names and any number of keygens, under any overlap, failure
and crash: `TypeCorrect`, `StoredOnSuccess` and `PrivateKeysAreKept`, from
`KeyInvariant`. The strengthening is that a `.key` being written has one
writer, which is `create_new`'s doing, is damaged until it is whole, and on
disk, but for its name, when success is reported. `PairsAlwaysMatch`, for names
that keygens took turns at, comes from `PairInvariant`: such a keygen finds
just the files it has written itself. `ContainersAlwaysOpen` comes from
`OrderlyInvariant`: until the first mishap each name belongs to one keygen and
has the two files that keygen's step implies.

Cascade, for every permutation, all messages and associated data and any
number of alterations: `RoundTrip` (`SealedOpens`), `Committing`
(`OneMasterKey`), `RadixInnermost` (`RadixSeesOnlySealed`) and
`AsStrongAsStandard`, from `CascadeInvariant`. The invariant remembers every
state the duplex went through while sealing (`trail`) and says that an opening
of the same text under the same key goes through the same ones, block by
block: what decryption writes over the rate is what encryption had there after
adding.

`OnlySealedOpened` (`OnlySealedOpens`) adds the case that both standard layers
are broken, in which anything may be put before Radix. A bad permutation makes
it false, so it assumes an ideal one (`IdealPermutation`): no two states give
rows that are equal or differ by what a duplex adds to the capacity on purpose
(a key, the separator), and none gives the initial vector. No permutation of a
bounded state has that for certain; it is the usual idealization, that a
collision in the capacity does not happen, and what the proof shows is that
padding, separation and keying add no collision of their own. It is consistent
(`IdealExists`), and the permutation of the run has it on the states that
occur. The argument goes forward through the opening (`Searching`): while
associated data is absorbed, the duplex meets a state of a sealing only at the
same place, and only if what was absorbed is the same (`AdFollows`, up to the
full block that looks like a padded rest); the separator meets only a
separator, which decides where the associated data ended; from there each block
that is deciphered to a state met is deciphered to the block that was sealed
(`DataFollows`). A tag in storage belongs to some sealing, and one that fits
gives away the key and the state at its end, hence the whole message. Blocks
come as `chunks_exact` cuts them, whatever the bytes are (`Chunked`).

Only model-checked: all liveness; `DataSurvives`, `ImplementsReplacement` and
`NamesShowWholeFiles` for trees; `DataSurvives` and `ImplementsReplacement` for
overlapping runs and for decryptions with `-f`. Liveness under fairness is out
of the prover's reach. The rest has not been proved: in a tree a removal takes
several steps, in which the source is neither the data nor gone, and with
overlapping runs `Track` does not hold, because each run may take away what
the other follows.

## What is not modelled

- The arithmetic of the permutation on 32 bit words (`permutation.rs`): it has
  no control to speak of, and its quality is not a matter of model checking. All
  theorems but `OnlySealedOpened` hold for any permutation.
- Argument syntax, menus, prompts, printing and `info`: they change no state.
  Their outcome is `Commands` and `Refuse`.
- Base64, JSON and the armor of key files, beyond whole, damaged or absent.
- An output inside the directory that is encrypted: whether tar goes on
  reading a file that grows is up to the tar crate.
- Symbolic links at the output, permissions and times.
- Reading again after a chunk was rejected: no caller does.
- Packaging and installation scripts.

## Plan

Done: the modules and theorems above. What could follow: `DataSurvives` and the
refinement by proof for trees, where a removal takes several steps, and for
decryptions with `-f` into another directory; `ReadBack` as a component of
`Ops`, instead of its outcome.
