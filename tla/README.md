# A verification project for the unsolo-key firmware

The firmware under `src/usb_hid_fido2/` makes a CH32X035 board a FIDO2 security key:
USB reports come in by interrupt, a main loop puts CTAPHID messages together and
dispatches CTAP2 commands, and credentials and the PIN live in the last pages of
flash. This directory holds TLA+ models of it, TLC configurations that check the
models on small instances, and TLAPS proofs for every size.

Contents: [inventory](#inventory) · [modules and code](#modules-and-code) ·
[runs](#runs) · [fairness](#fairness) · [proofs](#proofs) ·
[disagreements found](#disagreements-between-code-and-documentation) ·
[not modelled](#not-modelled) · [plan](#plan)

## Inventory

| Component | State | Operations | Talks to |
|---|---|---|---|
| USB receive path (`ch32x035_usbfs_device.c`) | ring `RingBuffer_Comm` (16 blocks of 64 bytes, `LoadPtr`, `DealPtr`, `RemainPack`, `StopFlag`), `HID_Report_Buffer` and its flag, endpoint registers | interrupt: EP1 OUT, SET_REPORT, bus reset, CLEAR_FEATURE | fills the ring the main loop empties |
| USB control transfers (`ch32x035_usbfs_device.c`, `usb_desc.c`) | the request and what is left of its answer, EP0 buffer and register, address, configuration, HID registers, endpoint halts | interrupt: SETUP, EP0 IN, EP0 OUT, bus reset | the host's enumeration; SET_REPORT feeds the main loop |
| Main loop (`main.c:217-269`) | where it is; the ring from the other side | take the head, call `ProcessCTAPHID`, remove the head, deal with a SET_REPORT, restart EP1 | calls CTAPHID, shares the ring with the interrupt |
| Touch wait (`fido2.c:95-159`, `main.c:272-336`) | poll count, `cancel_requested` | poll the pad, keepalive, `Process_OOB_Commands` | runs inside a command, takes packets off the same ring |
| CTAPHID reassembly (`main.c:119-215`) | `ctap_req_buf` and the transaction (`ctap_cid`, `ctap_cmd`, `ctap_seq`, lengths), `allocated_cid` | initialisation packet, continuation packet, CANCEL, dispatch | calls the CTAP2 commands |
| CTAPHID responses (`main.c:27-117`) | EP2 registers and buffer | `ctap_send_response`, `fido2_send_keepalive` | races with the EP2 interrupt |
| CTAP2 commands (`fido2.c`) | enumeration and assertion walks, `g_ga_*`, `g_enum_*` | MakeCredential, GetAssertion, GetNextAssertion, CredentialManagement, Reset, GetInfo | store, PIN session, touch wait |
| clientPIN (`pin.c`) | key agreement, shared secret, token, `active_pin_protocol` | getPINRetries, getKeyAgreement, setPIN, changePIN, getPinToken (two forms) | PIN page of the store |
| Flash store (`flash_passkey.c`) | 5 credential pages and a PIN page | save, delete, find, PIN save, retries, factory reset | the flash controller, interrupts off |
| CBOR (`cbor.c`, parsers and DER in `fido2.c`) | encoder position | encode, skip, six ways to look a key up | everything above |
| Random numbers, AES, SHA-256, micro-ecc, ch32fun | - | arithmetic, registers | - |
| Host tools (`host-tools/`) | - | list, delete, change PIN | the other end of the wire |

What is hard to test here:

* **Power loss.** A flash record is one page erase and up to four 64-byte programs;
  the key can be unplugged between any two of them, and what is left is read as
  valid as soon as the magic of the first chunk is there.
* **Two writers of one ring.** The interrupt adds at one end while the main loop
  is, for up to half a minute, handling the block at the other end, and a poll in
  the middle of that handling removes blocks from the same end.
* **One register, two writers.** The main loop changes `UEP2_CTRL_H` by a load and a
  store, and the interrupt that flips its data toggle may come between them.
* **Lost acknowledgements.** A packet is then sent again, or one side of a control
  transfer is a stage ahead of the other; a transfer may break off at any stage.
* **Interleaved hosts.** Several programs use the key at once; the transaction,
  the PIN session and the walks over the credentials are single globals.
* **Indices that outlive a command.** The walks of GetNextAssertion and of
  CredentialManagement are positions among slots that other commands change.
* **Limits.** Ring full, store full, retries at zero, messages longer than the buffer,
  a public key that fills its buffer to the last byte.

The properties that make each part correct:

* *store*: an account has at most one readable record, whatever power losses came
  between; a registration, deletion or PIN update touches nothing else; flash is
  programmed only where it is erased; after a torn reset surviving credentials
  are still protected by the PIN;
* *receive path*: nothing is overwritten, handed over twice, out of order or not
  at all; a stopped endpoint is restarted; a touch wait ends;
* *control transfers*: a host reads what it asked for, whole; host and key agree on the
  address; EP0 is ready for every stage the host enters;
* *reassembly*: what is dispatched is one message of one client, whole;
* *responses*: frames arrive in order, once and undamaged, a fault costs at most one
  besides the response it interrupts, and sending ends though the host is gone;
* *clientPIN*: each wrong PIN costs one retry, retries come back only for the
  right PIN, a token dies with its session, and serves nobody who does not know the PIN;
* *commands*: a walk shows every account once; an assertion is signed by a credential
  of the relying party it names and for its challenge; an account is lost only to a
  reset or to an authorized deletion that names it, and a reset is received soon after power-up;
* *CBOR*: a response is one whole item within its buffer; a lookup finds what is in
  the request under the key and nothing else, whatever other values the request has.

`PROJECT.json` lists the single hazards, each at its line of code.

## Modules and code

**`FlashStore`** models every function of `flash_passkey.c` that writes flash. A page
is the image being written to it and how many of its four chunks are programmed.
An operation (`passkey_save`, `pin_save`, `pin_decrement_retries`,
`pin_reset_retries`, `passkey_delete_by_cred_id`, `flash_factory_reset`) makes its
decision and starts a `job`; `flash_erase_page`, `flash_program_64bytes` and
`flash_lock` carry it out; `read_touch_pa2`, the other place that switches
interrupts, may run between operations; `PowerLoss` may come between any two of them. The
firmware is single-threaded, so the operations themselves do not overlap. The
layout of `ResidentKey` decides what can be read of a partly written page: whether
a user handle is complete after one chunk or two, and how much of a credential id
is there. Random credential ids are fresh. The write inside one chunk is atomic.

**`PasskeyStore`** is what the store promises: a map from accounts to credentials and
a PIN, in which a power loss can cost only the record being written. `FlashStore`
implements it (`ImplementsPasskeyStore`); the mapping shows an account's
credential as soon as it is usable, or as the one an erase has just made room for.

**`UsbTransport`** models the receive path with the main loop as a sequence of steps
(`pc`) and each interrupt as an action that may come between any two of them, and
the touch wait with its out-of-band poll. The restart of EP1 is three steps: the
test (`CheckRestart`), the clearing of `StopFlag` (`ClearStopFlag`) and the re-arming
(`RestartEP1`), since interrupts are on between them. A packet is one of five kinds, by what
`ProcessCTAPHID` and `Process_OOB_Commands` do with it. The decrement of
`RemainPack` and the advance of `DealPtr` are one step because the code disables
the USB interrupt around them. `WaitTouched` and `WaitPoll` leave to the
environment whether the pad is touched. What happens between taking a packet and
removing it is in the model; what a command computes is not.

**`PacketFifo`** is the queue that the ring promises to the layer above;
`UsbTransport` implements it (`ImplementsFifo`).

**`UsbControl`** models the endpoint 0 half of `USBFS_IRQHandler`: `SETUP`, `EP0_IN`,
`EP0_OUT` and `BUS_RST` are its branches, `UEP0_CTRL_H` the answers and toggles it
leaves for the controller, and the `Host*` actions the host's side of the USB protocol,
each with its acknowledgement received or lost. Requests of one shape are one: six
registers are set and read back, a descriptor is a sequence of bytes of some length.
`believes` and `hostAddr` are what the host has reason to think; `Rearm` is the main loop
ending an endpoint halt behind the host's back.

**`CtapHid`** models `ProcessCTAPHID` packet by packet. Lengths are counted in chunks,
one per packet; each chunk says which message of which client it is part of, so
that what is dispatched can be compared with what was sent. The clients are
environment: they send, cancel, abandon a message, lose a packet (a SET_REPORT can
be lost, see below), have one received twice (EP1 does not look at its data toggle),
and start again.

**`CtapTx`** models `fido2_send_keepalive` and `ctap_send_response` with every load and
every store of `UEP2_CTRL_H` a step of its own, against the controller, the EP2
interrupt and a host that checks data toggles, may lose a handshake, reset the bus,
halt the endpoint or stop reading. A frame is the number of its response and its place
in it; a buffer rewritten while the controller sends it is `Torn`. `put` and `got`
record what was handed over and what the host accepted. Two observations: a store that
undoes the interrupt's flip makes the host throw away the frame that follows, which
after a timeout can be the first frame of the next response; and a frame that is read
during the very last poll counts as timed out.

**`ClientPin`** models `process_client_pin` and the places in `fido2.c` that use its
token, for several platforms that each speak protocol 1 or 2. Cryptography is
ideal: what is encrypted or authenticated under one (key agreement, protocol) pair
reads correctly under that pair only, and reads as a wrong PIN or a wrong MAC
otherwise. Flash writes are atomic here: `FlashStore` shows what a power loss
between their steps does. `reply`, `misses` and `owner` are history: the answer to the
last command, the wrong PINs since the last right one, and who last set or presented
the PIN.

**`PinSession`** is what clientPIN promises to the other commands: one session, owned by
the latest key agreement; only its owner can set a PIN or get the token, and a new key
agreement takes the token away. `ClientPin` implements it (`ImplementsPinSession`).

**`Authenticator`** models the commands of `fido2_process_cbor` on top of `PinSession` and
of slots that are written at once. A touch wait is its outcome, a hash is what was
hashed, and a clientDataHash is the relying party whose challenge it is, so that an
assertion over the wrong challenge shows. `Reset` records the second it was received in
and the second it erases in: `SysTick->CNT` is compared in between, before a touch wait
of up to 15 s (`fido2.c:142-155`), during which the key carries out no other command. The globals of the walks are variables; what
a walk has shown so far is history, dropped (`None`) when a command changes the slots
the walk runs over, since then it need not be complete.

**`Cbor`** has the encoder and the responses as operators, and the lookups as a walk step
by step. A document is the sequence of encoder calls that writes it, which gives the
reference a lookup is compared with. A response is whole if the items due, counted from
the heads, reach zero with its last call and not before (`Balanced`). Strings are filled
with bytes that look like the head of a map. `get_cbor_map_item`, which has no return statement for an absent key,
returns NULL or some address there. Requests are well formed, have no tags and no integers of 2^30 or more, and may hold
what the parsers get wrong. An integer of 65536 or more has a head of five bytes,
which `skip_cbor_item` takes for one of one byte: the walk is then `lost`, and
`LookupCorrect` says what holds of the lookups that are not. `cbor_map_get_string` keeps lengths
in a `uint8_t`, so a text of 256 bytes or more is found with its length modulo 256, which
`LookupCorrect` states. `TextLookupRobust` states what the documentation claims, without
these exceptions, and is false. `find_cbor_string`
searches to the end of the request, so a later string that contains an option's name
and a boolean would be taken for the option; the requests of the run have no such string.

The `MC*` modules name model values for TLC. `*Proofs` modules hold the proofs.
Definitions with `\* mutant` behind them are variants of the definition below
them with a plausible mistake; they belong to no specification, and each serves to
show that some property notices the mistake.

## Runs

| Run | Checks | Shows |
|---|---|---|
| `flash_store` | `TypeOK`, `NoDuplicateAccount`, `ProgramsErasedFlash`, `TornOnlyByPowerLoss`, `ImplementsPasskeyStore` | the store is correct with a power loss anywhere |
| `flash_reset_irq` | `InterruptsOnWhenIdle` (violated) | `flash_factory_reset` leaves interrupts off |
| `usb` | `TypeOK`, `RingConsistent`, `ImplementsFifo`, `FlowControlReleases`, `WaitEnds` | the ring is a FIFO and never overruns; EP1 is restarted and touch waits end, bus resets included |
| `usb_bus_reset` | `DispatchesReports` (violated) | a bus reset moves the controller but not the pointers |
| `usb_cancel` | `CancelServiced` (violated) | CANCEL on EP1 is not seen during a touch wait |
| `usb_control` | `TypeOK`, `ReadsAnswered`, `AddressAgrees`, `EveryStageAnswered` | enumeration with lost acknowledgements, abandoned transfers and bus resets |
| `ctaphid` | `TypeOK`, `DispatchesWholeMessages` | interleaved, abandoned and torn messages and repeated packets are not mixed, and messages too long for the buffer do no harm |
| `ctap_tx` | `TypeOK`, `OneFramePerFault`, `AcceptedInOrder`, `SendEnds` | the race on `UEP2_CTRL_H` and lost handshakes cost no frame of a response by themselves; order is kept; sending ends |
| `client_pin` | `TypeOK`, `MissesAccounted`, `UvByLatestSession`, `UvByPinOwner`, `OwnerRegainsRetries`, `ImplementsPinSession` | retries, sessions and tokens with two platforms |
| `authenticator` | `TypeOK`, `WalkShowsEachOnce`, `EnumeratesRpsOnce`, `EnumeratesCredentialsOnce`, `SignsOneRequest`, `AccountsProtected` | the walks are complete and free of repetitions, assertions answer their request, accounts are protected |
| `reset_window` | `ResetReceivedInWindow` (violated) | a reset received more than 10 s after power-up erases the key |
| `cbor` | `TypeOK`, `LookupCorrect`, `ResponseWhole`, `SignatureDer` | responses are whole, signatures are DER, lookups agree with the reference |

Bounds, and why they are enough:

* *store*: two slots and two relying parties with two users (one handle needs one
  chunk, the other two) give more accounts than slots, so the store fills, matches
  and empties in every order; three credentials let one be registered while two are
  stored; two power losses tear one record and then the attempt to repair it, and
  tear credential and PIN page in one behaviour; two retries reach zero. Credentials
  are interchangeable, hence the symmetry.
* *ring*: four blocks with `REMINE = RESTART = 2` keep the order of the
  thresholds of the code, fill, stop, restart and wrap. The proofs cover the real
  sizes. `MaxCount` 5 stands for 255: `RemainPack` is a `uint8_t`, and after a bus reset
  in the middle of a packet it can be decremented at zero. Two blocks in hand admit one
  CLEAR_FEATURE, at any point, between the three steps of the restart too. On EP1 the host sends
  requests that wait for a touch and WINK; a CANCEL there is to the ring what a WINK is, and the run
  `usb_cancel` sends one. `MaxLoops` 1 stands for 300 polls: a wait that polls again and one
  that times out both occur.
* *control transfers*: packets of three bytes and descriptors of less than one packet, of
  exactly two, and of two and a bit, read with a wLength of none, less, the same and
  more. The descriptors of this firmware fit one packet of 64 bytes; the instance also
  covers the code that continues a longer one. Four registers of the four kinds, two
  addresses, two lost acknowledgements (the second one of a repetition). `View` leaves
  out what a transfer that is over has left in the buffer and of its descriptor.
* *CTAPHID*: two clients, two messages each, of up to three chunks: a first, a
  middle and a last packet. One of them also sends messages of four chunks, one more
  than the buffer, and the other may abandon one message, or lose or repeat one packet. Two
  faults of one client are outside the claim (`SparseFaults`), in the proof, which covers
  any number of clients and any lengths, as in the run: `ProcessCTAPHID` has no transaction
  timeout, so a message abandoned after its first packet is completed by the
  continuation packets of a later message whose initialisation packet was lost.
* *clientPIN*: one platform of each protocol, two PINs, two retries, three key
  agreements (one of each platform and one that replaces a session in use) and two
  tokens (one that outlives the other).

* *responses*: two responses of up to three chunks (none, one frame, first, middle and
  last frame), two keepalives, two faults: a second response or keepalive meets what
  the first one, or the fault in it, left behind. `MaxPolls` 1 stands for 50000: a poll
  that finds the frame read, one that does not, and one that times out all occur.
* *commands*: two relying parties with two users and three slots: the store fills,
  walks of two steps occur, and accounts of another relying party lie between. Indices
  go one past the end. Reset is asked for at power-up, in the last
  second of the window of 80 s and in the first one past it, and waits 15 s for the touch;
  `reset_window` also asks after 10 and 60 s. Relying parties and users are interchangeable
  (symmetry). `View` leaves out the last reply, which no command reads (the
  properties of replies are action properties, checked on every step), the
  remains of a walk that is over, and the index of an enumeration of credentials whose
  history is dropped.
* *CBOR*: requests with strings around the limits of the head sizes, texts of 260 bytes,
  integers with heads of up to five bytes, nested maps
  (`Maps` names them too) and absent keys; responses with every combination of optional parts and of lengths
  around those limits; r and s with leading zeros, with the top bit set, and both.

Only `ctap_tx` turns deadlock checking off: once its responses, keepalives and faults
are used up and everything is sent, nothing is left to do.

## Fairness

`usb`, `usb_cancel` and `ctap_tx` use `FairSpec`: weak fairness of
`MainStep`, that is, the processor goes on executing the main loop and the functions
it is in. Nothing is assumed of the host or of the person: interrupts may come forever
or never, frames may never be read, and the pad may never be touched. `WaitEnds` holds
because `WaitPoll` counts to a limit, `SendEnds` because `Poll` does, and
`FlowControlReleases` because the loop comes back to the restart check with one block
fewer, not because of any assumption about the environment.

## Proofs

TLAPS proves these for all values of the constants that satisfy the modules' named
assumptions.

**`FlashStoreProofs`** - `TypeCorrect`, `AccountsUnique` (`NoDuplicateAccount`),
`ErasedFirst` (`ProgramsErasedFlash`), `CompleteWithoutPowerLoss`
(`TornOnlyByPowerLoss`), for any number of slots, accounts and power losses.
`NoDuplicateAccount` is not inductive: while a record is being saved its handle is
not readable yet, and the step that completes it needs to know that no other slot
holds the account. `SaveExclusive` says so: `passkey_save`'s scan establishes it and
nothing else is written until the save is over. `AccountsUnique` assumes `HandlesFit`
(no handle over 64 bytes); without it the property fails (see below).
`RefinesPasskeyStore` is the step simulation of `PasskeyStore`, under the same
assumption. It needs `JobFits`: what an operation is about to erase and program fits
what its scan found, also after a power loss has torn another record. A save erases an
empty slot or its own account's (`SaveFits`), a PIN record is new or has one retry
fewer than the one it replaces (`PinFits`), a reset has emptied the slots below the page
it is at (`ResetFits`). With these, each erase and each program that completes a record
changes the one abstract credential or PIN it should, and every other step changes none.
`NoneAssumption` keeps "no credential" apart from the credentials, so that the mapping can
use it.

**`UsbTransportProofs`** - `RingIsConsistent` and `TypeCorrect`, for any ring size and
thresholds with `1 <= REMINE <= RESTART < Max_Blks`. `RingConsistent` speaks of
behaviours that are `Quiet`: no bus reset, and fewer than `REMINE` CLEAR_FEATUREs of EP1
(each may let one packet past the stop, and one more passes if the ring fills up while the
main loop is restarting EP1, which one CLEAR_FEATURE between the three steps makes possible). The invariant adds `OwnPacketStays`: during
a touch wait that came from the ring the head of the ring is the request itself,
which is no out-of-band command, so the poll cannot remove the block that is being
handled. It is the same fact that keeps CANCEL from being seen.
`RefinesFifo` is the step simulation of `PacketFifo`, with `Quiet` as in the property
itself: the queue is the ring's blocks from `DealPtr` on, wrapped around. A
received packet appends to it and leaves the rest in place because `LoadPtr` is
`RemainPack` blocks further on (`QueueGrows`); removing the head leaves the tail
(`QueueShrinks`). The steps that restart or refuse EP1 and those of the report buffer
stutter.

**`ClientPinProofs`** - `TypeCorrect`, `RetriesAccounted`, `LatestSessionVerified`,
`RetriesRegainedByOwner`, `PinOwnerVerified` and
`SessionImplemented`, for any platforms, PINs, retries and numbers of key agreements and
tokens. `UvByLatestSession` needs two facts about tokens: `TokensIssued` (no platform
holds a token that was not issued) and `TokenHeld` (a live token is held only by a
platform of the latest key agreement). The second survives `getKeyAgreement` only
because that sub-command clears `has_pin_token`. `UvByPinOwner` needs in addition that
the holder of a live token is the owner of the PIN, if there is one (`OwnerHolds`): a new PIN can be
set only under the latest key agreement, which is the holder's. `SessionImplemented` is
the step simulation of `PinSession`; it needs key agreements and tokens to be unique to
their platform (`KeysUnique`), so that the mapping's choice of an owner and a holder is determined.

**`UsbControlProofs`** - `TypeCorrect`, `ReadsCorrect` (`ReadsAnswered`),
`AddressCorrect` (`AddressAgrees`) and `StagesCorrect` (`EveryStageAnswered`), for
packets of any size over two bytes, descriptors of any length, any requests and any number of lost
acknowledgements, abandoned transfers and bus resets. The core is `DescriptorSplit`:
in the data stage the host's bytes, the packet in the buffer and the rest behind
`pUSBFS_Descr` make up the descriptor, and the packet is among the host's bytes
already exactly if only its acknowledgement was lost. `RegisterWaits` and
`RegistersAgree` are its counterpart for the one-packet reads of registers, `StageFits` ties
the stage to the request, and `AddressKept` says that the address a status stage will
apply is the one the host asked for.

**`CtapHidProofs`** - `TypeCorrect` without conditions: `ProcessCTAPHID` stays within
`ctap_req_buf` for any clients, lengths, faults and shared channels. `DispatchCorrect`
(`DispatchesWholeMessages`) for any number of clients and messages of any length, under
two named conditions, which the run assumes too and without which the property is false:
`SeparateChannels` (each client has a channel of its own) and `SparseFaults` (at most one
fault of a client, and none of a client that also sends messages too long for the
buffer). What is proved on the way is stronger: `WholeInv` holds for any number of
faults and says that the messages of a client are whole until that client has had a second
fault; the faults of the others do not matter. Its core, `StreamIsOneMessage`, says
that the buffer holds the beginning of the message its client is sending, and that the
client is ahead of it only after a fault; then the sequence number of the next
continuation packet does not fit.

**`CtapTxProofs`** - `TypeCorrect`, `OrderCorrect` (`AcceptedInOrder`) and `LossesBounded`
(`OneFramePerFault`), for responses of any length, any number of responses, keepalives, polls and
faults. `OrderInv` is about the handover of the buffer: a register value that the main
loop is about to store is stale only if a transfer ended meanwhile (`Handover`); the
frame in the buffer comes after all accepted ones, or is one that the host's toggle
refuses (`BufferIsLatest`); what is filled in next comes later still (`NextIsLater`).
`LossInv` adds the accounting `FaultsPay`: frames lost, plus the one that is doomed (waited
for, though it was refused or cut off), plus one if the toggles are out of step, are no more
than the faults and timeouts. The lost update of `UEP2_CTRL_H` appears in it as a pair of toggles
that are out of step only until the host has read a keepalive.

**`AuthenticatorProofs`** - `TypeCorrect`, `WalkCorrect` (`WalkShowsEachOnce`), `RpsCorrect`
(`EnumeratesRpsOnce`), `CredentialsCorrect` (`EnumeratesCredentialsOnce`), `SignsCorrect`
(`SignsOneRequest`) and `AccountsCorrect` (`AccountsProtected`), for any number of slots, hosts, relying parties, users,
uptimes and touch waits. The walks go by index while the slots change under them. The invariant says
that what was shown are the first slots of the set the index counts in (`WalkPrefix`,
`RpsPrefix`, `CredsPrefix`), and rests on a lemma on that set: a slot's rank, the number of
the set's slots before it, is a bijection with the indices, so that each index names one slot
and a walk of as many steps as there are slots shows all. That no account is shown
twice needs `NoDuplicates`; that a walk signs for its own relying party, `CdhAgrees`,
which refused requests keep because they replace challenge and relying party together.

**`CborProofs`** - `SignatureCorrect` (`SignatureDer`): for all values of r and s the
signature is their unique DER form and fits the 72 bytes of `der`. It follows the
loop of `ecdsa_sig_to_der` by the number of zero bytes it takes off, the least index at
which it stops, and then the layout of the two integers in the result.

The other theorems are about what the encoder and the parsers compute for every input, of
any length and nesting. Each rests on an induction over data, done without an operator
parameter: what is to be shown of every number is a *set* of numbers or of functions, and the
induction is the one fact that a nonempty set of naturals has a least element (`LeastOf`,
`Recursion`). So `Encoder`, `Due` and `skip_items` are written as recursive functions.

* `EncodeFits` and `EncodeWhole`: the encoder never passes its capacity, and if the bytes of
  a document fit, it writes exactly them.
* `SkipDocument`: `skip_cbor_item` at the head of a well-formed item none of whose
  heads is longer than three bytes (`ShortCalls`) returns the position right after it. The recursion has exactly one solution, by induction over the bytes left
  (every head moves the position on). Its value on a document is then found by induction over
  the calls that are left, from the end: a head leaves as many items due as it announces, which
  the loops in the code and `Due` count the same way. It is the reason why a walk stays on
  the heads whatever the strings contain.
* `Matches`: of the six ways the code compares a key, each accepts the key it was given and no
  other, for well-formed keys.
* `ResponsesWhole` (`ResponseWhole`): by response, from a table of what each call announces
  and how many bytes it takes at most. A part of a response *runs* from a number of items due
  to another in so many bytes (`Runs`), and runs are composed by concatenation, so that the
  optional pairs are added as the code adds them. The sums stay below 1024, and the public
  key takes the 77 bytes there are. `ReplyInv` says that a response that was built is one of these.
* `LookupsCorrect` (`LookupCorrect`) and `TypeCorrect` (`TypeOK`), for every lookup but
  `find_cbor_string`. The invariant `LookupInv` is about lookups that are not `lost`; those
  that are have nothing but their types. While walking, the bytes from `start` are those
  of the map that is looked up, `offset` is the head of its pair `i + 1`, and no pair before has
  the key (`Walking`); at the end the value of the pair with the key was read where it is
  written (of a text the first bytes, as many as its length modulo 256), or there is no such pair and nothing was found (`Ended`); positions never leave the
  request (`Within`). A step to the next pair is two uses of `SkipDocument`, a match is `Matches`, and a map in a map is well formed again because
  `Maps` is closed under the values of its members.

They assume of the requests that they are well formed and fit the buffer
(`MapsAssumption`, `RequestsAssumption`), that keys are what the code asks for: 1 to 255 for
integers, 1 to 24 for negative ones, texts below 256 bytes (`KeysAssumption`), that
stored names have the lengths `passkey_save` cuts them to and counts fit a byte (`LengthsAssumption`), and that the
buffers are at least as large as in the code (`RoomAssumption`). TLC evaluates all of them
in `cbor`.

Only model-checked:

* `FlowControlReleases`, `WaitEnds` and `SendEnds`: liveness under fairness is beyond the
  prover.
* `LookupCorrect` and `TypeOK` of `Cbor` after `find_cbor_string` (`op = "grep"`). It compares bytes
  wherever they stand, inside strings too, so it is right only for requests whose strings
  do not spell an option's name followed by a boolean or the head of a string; the
  strings of the run's requests do not, and a theorem for all requests would be false.
* The four disagreements below: a counterexample is all there is to show.

## Disagreements between code and documentation

Each is a run that TLC ends with a counterexample; `PROJECT.json` quotes the lines.

1. `flash_factory_reset` calls `flash_unlock` (interrupts off) and returns without
   `flash_lock`, so the interrupt-driven USB is dead until a packet already in the
   ring leads to another flash operation or touch poll, or a power cycle; the interrupt that ends the reset's own response does not run either.
2. A bus reset rewinds `UEP1_DMA` to block 0 and keeps `LoadPtr` and `DealPtr`: the
   next report is received in one block and another block is dispatched.
3. During a touch wait the head of the ring is the waiting request, so
   `Process_OOB_Commands`, which looks at the head only, does not reach a CANCEL
   behind it. (A request that came by SET_REPORT can be cancelled from EP1.)
4. A reset "must be received within 10 seconds of power up" (`fido2.c:1217`; also
   `src/README.md:131` and `key_manager.py:8`). The code compares with 480 million ticks of
   a counter that ch32fun runs at an eighth of 48 MHz: the window is 80 s.

Also observed; where a check is named, TLC reproduces it:

* `HID_Set_Report_Flag` is cleared after processing, also if another report was stored
  and acknowledged meanwhile; that report is lost: check `ReportsDealtWith` of
  `UsbTransport` with `Ep0Packets = {"touch", "cancel"}`.
* A control read whose last acknowledgement is lost hangs until the host gives up: the
  host is in the status stage, and EP0 answers NAK to it until the packet is read again:
  check `EveryStageAnswered` without its exception.
* A vendor request is answered like a supported one, although the comment at
  `ch32x035_usbfs_device.c:645` says "if one request not support, return stall": it is
  among the "other" requests of `UsbControl`.
* EP1 does not look at the data toggle, so a one-packet message whose acknowledgement is
  lost is dispatched twice (`RepeatPacket` of `CtapHid`); it is a whole message each time.
* `passkey_save` compares the length of the handle before clamping it to 64, so such an
  account never matches its own record, although "Re-registering the same account
  replaces its slot (no duplicates)" (`src/README.md:104`): put a user in
  `OversizeUsers` and check `NoDuplicateAccount`.
* An initialisation packet that announces more than 1024 bytes is ignored without
  closing the transaction that an abandoned message left open on its channel; its
  continuation packets then complete the abandoned message: put one client in both
  `Oversize` and `Faulty` and check `DispatchesWholeMessages`.
* INIT on the broadcast channel gives every client the same channel: let two clients
  start at `Broadcast` and check `DispatchesWholeMessages`.
* The counter is not looked at again after the touch wait, so the erase itself can
  come up to 15 s after the window: check `ResetErasesInWindow` of `Authenticator` with
  the constants of `MCAuthenticatorReset.cfg`.
* deleteCredential looks for the id of the credential under the integer 1
  (`fido2.c:1195`); hosts, `host-tools/key_manager.py:84` among them, send it under the
  text `"id"`. The deletion is answered with NO_CREDENTIALS and the account stays, although
  `src/README.md` has "delete github.com  # remove a site": check `DeleteForgets` of
  `Authenticator` with the same constants.
* changePIN does not look at the retries (`pin.c:281-305`): with none left it still
  compares old PINs, and the right one gives the retries back: check `GuessesBounded`
  of `ClientPin`. No document of the repository says otherwise.
* "Robust CBOR parsing" (`src/README.md:146`) and "Robust text-string value lookup"
  (`fido2.c:251`) hold only up to 255 bytes of text and below 65536: check
  `TextLookupRobust` of `Cbor`.

## Not modelled

* Suspend and remote wake-up: flags that no code acts on. HID requests that ask for more
  bytes than there are (GET_REPORT with wLength over 64 never ends its data stage).
  The text of the descriptors (`MyProdInfo` announces 18 bytes and has 20).
* The touch sensor's calibration and thresholds, the random number generator and the
  LED: analog behaviour, free choices in the models.
* AES, SHA-256, micro-ecc: third-party arithmetic; cryptography is ideal.
* ch32fun: start-up code, register headers for a dozen chips, examples and programmer
  tools. It is vendored and makes up almost all lines of the repository; the firmware
  itself is about 3000 lines, most of which a module covers.
* Host tools: they are the environment of the models.
* The bytes of flash records, save for the offsets that decide what a torn record
  shows; malformed CBOR, CBOR tags and integers of 2^30 or more; truncation of names to 32 bytes.

## Plan

Done: `FlashStore` with `PasskeyStore`, `UsbTransport` with `PacketFifo`, `UsbControl`, `CtapHid`,
`CtapTx`, `ClientPin` with `PinSession`, `Authenticator` on top of `PinSession`, `Cbor`. Every
safety property of the passing runs is proved, the two of `Cbor` for all lookups but
`find_cbor_string`, and so are the three refinements. Left:

1. `OneFramePerFault` by kind of fault: which faults cost no frame at all.
2. `find_cbor_string` under a hypothesis on the strings behind the options, and what it
   returns when that hypothesis fails.
