------------------------------- MODULE MCServer -------------------------------
(***************************************************************************)
(* Values for TLC's instance of Server: environments and requests.         *)
(***************************************************************************)
EXTENDS Server

CONSTANTS h1, h2

Good(alphabet, tag, h) == Friendly(alphabet, tag, 0, h, crc16(tag, 0, h))

\* An address in the raw form, the mainnet UQ form in the other alphabet, and one
\* of the other network; a workchain, a hash, a tag and a checksum that do not pass.
RawText      == Raw(-1, h1)
MainnetText  == Good("std", tagNonBounceable, h1)
TestnetText  == Good("url", tagBounceable + tagTestnet, h2)
WrongChain   == Raw(1, h1)
WrongHash    == Raw(0, BadHash)
WrongTag     == Good("url", 0, h1)
WrongSum     == Friendly("url", tagBounceable, 0, h2, crc16(tagBounceable, 0, h1))

Body(payTo, amount, seconds) == [payTo |-> payTo, amount |-> amount, seconds |-> seconds]

\* Requests that differ in their address, in their amount (none, a fraction to be
\* padded, one to be trimmed) and in their lifetime: default, negative, ordinary,
\* above the cap, and two whose nanoseconds wrap around, below and above zero.
SomeBodies ==
  {Body(t, 130, 1) : t \in {None, Some(RawText), Some(MainnetText), Some(TestnetText),
                            Some(WrongSum)}}
  \cup {Body(None, v, 1) : v \in {0, 5}}
  \cup {Body(None, 130, s) : s \in {0, -3, 3, 5, 9}}

Base ==
  [TON_ENV |-> Some("prod"), TON_DATABASE_URL |-> Some("url"),
   TON_ALLOW_FILE_STORE |-> FALSE, TON_RECEIVING_ADDRESS |-> Some(MainnetText),
   TON_NETWORK |-> None, TON_TRUST_PROXY |-> None,
   TON_DEFAULT_TTL_SECONDS |-> None, TON_MAX_TTL_SECONDS |-> None,
   TON_CREATE_API_KEY |-> None, TON_POLL_INTERVAL_SECONDS |-> None,
   TON_POLL_CONCURRENCY |-> None, TON_POLL_ENABLED |-> None, TON_WEBHOOK_URL |-> None,
   TON_WEBHOOK_SECRET |-> None]

\* What the gates of production look at.
Gates ==
  {[Base EXCEPT !.TON_DATABASE_URL = d, !.TON_ALLOW_FILE_STORE = f] :
     d \in {None, Some("url")}, f \in BOOLEAN}
  \cup
  {[Base EXCEPT !.TON_WEBHOOK_URL = u, !.TON_WEBHOOK_SECRET = s] :
     u \in {Some("http"), Some("https")}, s \in {None, Some("secret")}}
  \cup
  {[Base EXCEPT !.TON_ENV = e, !.TON_RECEIVING_ADDRESS = r, !.TON_CREATE_API_KEY = k] :
     e \in {None, Some("production")},
     r \in {None, Some(WrongSum)}, k \in {None, Some("key")}}

\* Addresses and networks.
Networks ==
  {[Base EXCEPT !.TON_RECEIVING_ADDRESS = Some(r), !.TON_NETWORK = n] :
     r \in {RawText, MainnetText, TestnetText, WrongChain, WrongTag, WrongHash,
            Garbage},
     n \in {None, Some("testnet")}}

\* Numbers: zero, negative, ordinary, and ones that wrap around.
Numbers ==
  {[Base EXCEPT !.TON_DEFAULT_TTL_SECONDS = Some(n[1]), !.TON_MAX_TTL_SECONDS = Some(n[2])] :
     n \in {<<-1, 0>>, <<-1, 5>>, <<3, 0>>, <<3, 1>>, <<9, 1>>, <<9, 5>>}}
  \cup
  {[Base EXCEPT !.TON_POLL_ENABLED = Some(FALSE)]}
  \cup
  {[Base EXCEPT !.TON_POLL_INTERVAL_SECONDS = p, !.TON_POLL_CONCURRENCY = c] :
     p \in {Some(0), Some(5)}, c \in {Some(0), Some(2)}}

Proxies == {[Base EXCEPT !.TON_TRUST_PROXY = Some(TRUE)]}

SomeEnvironments == Gates \cup Networks \cup Numbers \cup Proxies

SomeKeys      == {None, Some("key")}
SomeForwarded == {None, Some("f1")}
SomeSizes     == {0, 5000}
=============================================================================
