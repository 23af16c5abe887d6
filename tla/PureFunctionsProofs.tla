------------------------ MODULE PureFunctionsProofs ------------------------
(***************************************************************************)
(* The inputs of unwrap that PureFunctions gives it are all there are: the *)
(* facts of TCPLemmas are invariants of the specification, for every       *)
(* width.  And the route that Router::route chooses from a table of any    *)
(* length is the one for the smallest network, for addresses of any width. *)
(***************************************************************************)
EXTENDS PureFunctions, TCPLemmas

\* Only the tables of routes change.
InputKept == input.of = "unwrap" => input \in UnwrapInput

\* The inputs of unwrap stay what they were.
LEMMA InputInv == Spec => []InputKept
<1>1. Init => InputKept
    <2> SUFFICES ASSUME Init PROVE InputKept
        OBVIOUS
    <2>1. CASE input \in UnwrapInput
        BY <2>1 DEF InputKept
    <2>2. CASE input = [of |-> "route", router |-> NewRouter]
        BY <2>2 DEF InputKept
    <2>3. CASE InitFrame
        <3>1. \A of, msg, cuts, padding, at, damage :
                  Incoming(of, msg, cuts, padding, at, damage).of = of
            BY DEF Incoming
        <3>2. input.of \in {"tcp", "damaged", "arp"}
            BY <2>3, <3>1 DEF InitFrame
        <3> QED BY <3>2 DEF InputKept
    <2> QED BY <2>1, <2>2, <2>3 DEF Init
<1>2. InputKept /\ [Next]_input => InputKept'
    <2> SUFFICES ASSUME InputKept, [Next]_input PROVE InputKept'
        OBVIOUS
    <2>1. CASE UNCHANGED input
        BY <2>1 DEF InputKept, UnwrapInput
    <2>2. ASSUME NEW p \in Addresses, NEW len \in 0 .. AddressBits, Add(p, len)
          PROVE  input'.of # "unwrap"
        <3> DEFINE router == AddRoute(input.router, p, len, NoHop, 1)
        <3>1. input' = [input EXCEPT !.router = router] /\ input.of = "route"
            BY <2>2 DEF Add
        <3> HIDE DEF router
        <3> QED BY <3>1
    <2> QED BY <2>1, <2>2 DEF Next, InputKept
<1> QED BY <1>1, <1>2, PTL DEF Spec

\* unwrap returns the number closest to the checkpoint
\* (wrapping_integers.hh:19-25).
THEOREM ClosestUnwrapped == Spec => []UnwrapIsClosest
<1>1. InputKept => UnwrapIsClosest
    <2> SUFFICES ASSUME input \in UnwrapInput
                 PROVE  /\ Unwrapped \in UInt64
                        /\ OnWireNumber(Unwrapped) = OnWireNumber(input.number)
                        /\ \A m \in UInt64 :
                              OnWireNumber(m) = OnWireNumber(input.number)
                                 => Distance(Unwrapped, input.checkpoint)
                                       <= Distance(m, input.checkpoint)
        BY DEF InputKept, UnwrapIsClosest
    <2>1. /\ input.number \in UInt64 /\ input.zero_point \in UInt32
          /\ input.checkpoint \in UInt64
        BY DEF UnwrapInput
    <2> QED BY <2>1, UnwrapClosest DEF OnWireNumber, Unwrapped
<1> QED BY <1>1, InputInv, PTL

\* A number near the checkpoint survives the trip over the wire.
THEOREM NearbySurvives == Spec => []RoundTrip
<1>1. InputKept => RoundTrip
    <2> SUFFICES ASSUME input \in UnwrapInput,
                        2 * Distance(input.number, input.checkpoint) < Mod32
                 PROVE  Unwrapped = input.number
        BY DEF InputKept, RoundTrip
    <2>1. /\ input.number \in UInt64 /\ input.zero_point \in UInt32
          /\ input.checkpoint \in UInt64
        BY DEF UnwrapInput
    <2> QED BY <2>1, SurvivesWire DEF OnWireNumber, Unwrapped
<1> QED BY <1>1, InputInv, PTL
-----------------------------------------------------------------------------
(* Networks *)

\* A fact of arithmetic
Powers ==
    /\ 2 ^ 0 = 1
    /\ \A n \in Nat : 2 ^ n \in Nat /\ 2 ^ (n + 1) = 2 ^ n * 2

\* None of the first i routes matches
NoneMatches(routes, i, best) ==
    /\ best = [best_index |-> 0, max_length |-> -1]
    /\ \A k \in 1 .. i : ~ routes[k].matches

\* The best of the first i routes
BestOfThem(routes, i, best) ==
    /\ best.best_index \in 1 .. i /\ routes[best.best_index].matches
    /\ best.max_length = routes[best.best_index].prefix_length
    /\ \A k \in 1 .. i : routes[k].matches =>
          /\ routes[k].prefix_length <= best.max_length
          /\ routes[k].prefix_length = best.max_length => best.best_index <= k

\* What the loop knows after the first i routes
ChoiceInv(routes, i, best) == NoneMatches(routes, i, best) \/ BestOfThem(routes, i, best)

Choosing == INSTANCE FoldProofs WITH Op <- Longer, Inv <- ChoiceInv

\* A network has at least one address.
LEMMA PowerPositive ==
    ASSUME Powers, NEW n \in Nat
    PROVE  2 ^ n \in Nat /\ 2 ^ n >= 1
<1> DEFINE Without == {k \in Nat : ~ (2 ^ k >= 1)}
<1> SUFFICES ASSUME Without # {} PROVE FALSE
    BY DEF Powers
<1>1. PICK m \in Without : \A k \in Without : m <= k
    <2>1. Without \subseteq Nat
        OBVIOUS
    <2> HIDE DEF Without
    <2> QED BY <2>1, Choosing!LeastElement
<1>2. m # 0
    <2> SUFFICES ASSUME m = 0 PROVE FALSE
        OBVIOUS
    <2>1. ~ (2 ^ m >= 1)
        BY <1>1
    <2>2. 2 ^ m = 1
        BY Zenon DEF Powers
    <2> QED BY <2>1, <2>2
<1>3. m - 1 \in Nat /\ m - 1 \notin Without
    BY <1>1, <1>2
<1> DEFINE p == 2 ^ (m - 1)
<1>4. p \in Nat /\ p >= 1 /\ 2 ^ ((m - 1) + 1) = p * 2
    BY <1>3 DEF Powers
<1>5. (m - 1) + 1 = m
    BY <1>1
<1>6. 2 ^ m = p * 2
    BY <1>4, <1>5
<1> HIDE DEF p
<1>7. 2 ^ m >= 1
    BY <1>4, <1>6
<1> QED BY <1>1, <1>7

\* A network of a shorter prefix is as large as several of a longer one.
LEMMA PowerSum ==
    ASSUME Powers, NEW a \in Nat, NEW b \in Nat
    PROVE  2 ^ (a + b) = 2 ^ a * 2 ^ b
<1> DEFINE Without == {k \in Nat : ~ (2 ^ (a + k) = 2 ^ a * 2 ^ k)}
<1> SUFFICES ASSUME Without # {} PROVE FALSE
    OBVIOUS
<1>1. PICK m \in Without : \A k \in Without : m <= k
    <2>1. Without \subseteq Nat
        OBVIOUS
    <2> HIDE DEF Without
    <2> QED BY <2>1, Choosing!LeastElement
<1> DEFINE p == 2 ^ a
<1>0. p \in Nat
    BY DEF Powers
<1>2. m # 0
    <2>1. a + 0 = a
        OBVIOUS
    <2>2. 2 ^ (a + 0) = p
        BY <2>1
    <2> HIDE DEF p
    <2>3. p * 2 ^ 0 = p
        BY <1>0 DEF Powers
    <2>4. ~ (2 ^ (a + m) = p * 2 ^ m)
        BY <1>1 DEF p
    <2> QED BY <2>2, <2>3, <2>4
<1>3. m - 1 \in Nat /\ m - 1 \notin Without
    BY <1>1, <1>2
<1> DEFINE q == 2 ^ (m - 1)
           pq == 2 ^ (a + (m - 1))
<1>4. q \in Nat /\ 2 ^ ((m - 1) + 1) = q * 2
    BY <1>3 DEF Powers
<1>5. pq \in Nat /\ 2 ^ ((a + (m - 1)) + 1) = pq * 2
    <2>1. a + (m - 1) \in Nat
        BY <1>3
    <2> QED BY <2>1 DEF Powers
<1>6. (m - 1) + 1 = m /\ (a + (m - 1)) + 1 = a + m
    BY <1>1
<1>7. 2 ^ m = q * 2 /\ 2 ^ (a + m) = pq * 2
    BY <1>4, <1>5, <1>6
<1>8. pq = p * q
    BY <1>3
<1> HIDE DEF p, q, pq
<1>9. pq * 2 = p * (q * 2)
    BY <1>0, <1>4, <1>8
<1>10. 2 ^ (a + m) = p * 2 ^ m
    BY <1>7, <1>9
<1> QED BY <1>1, <1>10 DEF p

\* The only block a number is in is the one found by dividing.
LEMMA OneBlock ==
    ASSUME NEW s \in Nat, s > 0, NEW x \in Int, NEW b \in Int
    PROVE  x \in b * s .. (b + 1) * s - 1 <=> x \div s = b
<1> DEFINE d == x \div s
           r == x % s
<1>1. d \in Int /\ r \in 0 .. s - 1 /\ x = d * s + r
    BY Division
<1> HIDE DEF d, r
<1> DEFINE ds == d * s
           bs == b * s
<1>2. ds \in Int /\ bs \in Int /\ (b + 1) * s = bs + s
    BY <1>1
<1>3. d < b => ds + s <= bs
    BY <1>1, BlocksApart
<1>4. b < d => bs + s <= ds
    BY <1>1, BlocksApart
<1>5. x \in bs .. (b + 1) * s - 1 <=> bs <= x /\ x < bs + s
    BY <1>1, <1>2
<1>6. x = ds + r
    BY <1>1
<1>7. d = b => ds = bs
    OBVIOUS
<1> HIDE DEF ds, bs
<1>8. (bs <= x /\ x < bs + s) <=> d = b
    BY <1>1, <1>2, <1>3, <1>4, <1>6, <1>7
<1> QED BY <1>5, <1>8 DEF d, bs

\* Of two blocks with a common number the smaller one is in the larger one.
LEMMA BlocksNested ==
    ASSUME NEW s \in Nat, s > 0, NEW t \in Nat, t > 0, NEW b \in Int, NEW c \in Int,
           NEW x \in b * s .. (b + 1) * s - 1,
           x \in c * (s * t) .. (c + 1) * (s * t) - 1
    PROVE  /\ c * (s * t) <= b * s
           /\ (b + 1) * s <= (c + 1) * (s * t)
<1> DEFINE l == c * t
           h == (c + 1) * t
<1>1. l \in Int /\ h \in Int /\ c * (s * t) = l * s /\ (c + 1) * (s * t) = h * s
    OBVIOUS
<1> HIDE DEF l, h
<1> DEFINE bs == b * s
           ls == l * s
           hs == h * s
           es == (b + 1) * s
<1>2. bs \in Int /\ ls \in Int /\ hs \in Int /\ es = bs + s
    BY <1>1
<1>3. x \in Int /\ bs <= x /\ x < es /\ ls <= x /\ x < hs
    <2>1. x \in bs .. es - 1 /\ x \in ls .. hs - 1
        BY <1>1
    <2> HIDE DEF bs, ls, hs, es
    <2> QED BY <1>2, <2>1
<1>4. ~ (b < l)
    <2>1. b < l => bs + s <= ls
        BY <1>1, BlocksApart
    <2> HIDE DEF bs, ls, hs, es
    <2> QED BY <1>2, <1>3, <2>1
<1>5. ls <= bs
    <2>1. l < b => ls + s <= bs
        BY <1>1, BlocksApart
    <2>2. l = b => ls = bs
        OBVIOUS
    <2> HIDE DEF bs, ls, hs, es
    <2> QED BY <1>1, <1>2, <1>4, <2>1, <2>2
<1>6. b < h
    <2>1. h < b => hs + s <= bs
        BY <1>1, BlocksApart
    <2>2. h = b => hs = bs
        OBVIOUS
    <2> HIDE DEF bs, ls, hs, es
    <2> QED BY <1>1, <1>2, <1>3, <2>1, <2>2
<1>7. bs + s <= hs
    BY <1>1, <1>6, BlocksApart
<1> HIDE DEF bs, ls, hs, es
<1>8. es <= hs
    BY <1>2, <1>7
<1> QED BY <1>1, <1>5, <1>8 DEF bs, ls, hs, es

\* What Add puts into the table
AnyRoute ==
    [route_prefix : Addresses, prefix_length : 0 .. AddressBits, next_hop : {NoHop},
     interface_num : {1}]

Size(route) == 2 ^ (AddressBits - route.prefix_length)

Block(route) == route.route_prefix \div Size(route)

\* A network is one block of a power of two of addresses.
LEMMA RouteFacts ==
    ASSUME Powers, NEW route \in AnyRoute
    PROVE  /\ Size(route) \in Nat /\ Size(route) > 0
           /\ route.route_prefix \in Nat /\ Block(route) \in Int
           /\ Network(route) =
                 Block(route) * Size(route) .. (Block(route) + 1) * Size(route) - 1
<1>1. AddressBits - route.prefix_length \in Nat
    BY AddressAssumption DEF AnyRoute
<1>2. Size(route) \in Nat /\ Size(route) >= 1
    BY <1>1, PowerPositive DEF Size
<1>3. route.route_prefix \in Nat
    BY DEF AnyRoute, Addresses
<1>4. Block(route) \in Int
    BY <1>2, <1>3, Division DEF Block
<1>5. Network(route) =
          Block(route) * Size(route) .. (Block(route) + 1) * Size(route) - 1
    BY DEF Network, Block, Size
<1> QED BY <1>2, <1>3, <1>4, <1>5

\* The mask compares the blocks of the two addresses: a route matches the addresses
\* of its network.
LEMMA MatchesNetwork ==
    ASSUME Powers, NEW route \in AnyRoute, NEW dest \in Addresses
    PROVE  Matches(route, dest) <=> dest \in Network(route)
<1> DEFINE s == Size(route)
           b == Block(route)
           p == route.route_prefix
           len == route.prefix_length
<1>1. /\ s \in Nat /\ s > 0 /\ p \in Nat /\ b \in Int
      /\ Network(route) = b * s .. (b + 1) * s - 1
    BY RouteFacts
<1>2. dest \in Nat
    BY DEF Addresses
<1>3. dest \in Network(route) <=> dest \div s = b
    <2> HIDE DEF s, b
    <2> QED BY <1>1, <1>2, OneBlock
<1>4. CASE len = 0
    <2>1. Matches(route, dest)
        BY <1>4 DEF Matches, Masked
    <2>2. s = 2 ^ AddressBits
        <3>1. AddressBits - 0 = AddressBits
            BY AddressAssumption
        <3> QED BY <1>4, <3>1 DEF Size
    <2>3. p \in 0 .. s - 1 /\ dest \in 0 .. s - 1
        BY <2>2 DEF AnyRoute, Addresses
    <2>4. \A x \in 0 .. s - 1 : x \div s = 0
        <3> SUFFICES ASSUME NEW x \in 0 .. s - 1 PROVE x \div s = 0
            OBVIOUS
        <3> HIDE DEF s
        <3>1. 0 * s = 0 /\ (0 + 1) * s = s
            BY <1>1
        <3>2. x \in 0 * s .. (0 + 1) * s - 1
            BY <3>1
        <3> QED BY <1>1, <3>2, OneBlock
    <2>5. b = p \div s
        BY DEF Block
    <2> QED BY <1>3, <2>1, <2>3, <2>4, <2>5
<1>5. CASE len # 0
    <2> DEFINE d == dest \div s
               r == dest % s
               q == p % s
    <2>1. /\ d \in Int /\ r \in Int /\ dest = d * s + r
          /\ q \in Int /\ p = b * s + q
        <3>1. b = p \div s
            BY DEF Block
        <3> HIDE DEF s
        <3>2. d \in Int /\ r \in 0 .. s - 1 /\ dest = d * s + r
            BY <1>1, <1>2, Division
        <3>3. q \in 0 .. s - 1 /\ p = (p \div s) * s + q
            <4>1. p \in Int /\ s \in Nat /\ s > 0
                BY <1>1
            <4> HIDE DEF p
            <4> QED BY <4>1, Division
        <3> QED BY <3>1, <3>2, <3>3
    <2>2. Matches(route, dest) <=> dest - r = p - q
        BY <1>5 DEF Matches, Masked, Size
    <2> HIDE DEF d, r, q, s, b, p
    <2> DEFINE ds == d * s
               bs == b * s
    <2>3. ds \in Int /\ bs \in Int
        BY <1>1, <2>1
    <2>4. d < b => ds + s <= bs
        BY <1>1, <2>1, BlocksApart
    <2>5. b < d => bs + s <= ds
        BY <1>1, <2>1, BlocksApart
    <2>6. d = b => ds = bs
        OBVIOUS
    <2>7. dest = ds + r /\ p = bs + q
        BY <2>1
    <2> HIDE DEF ds, bs
    <2>8. dest - r = p - q <=> d = b
        BY <1>1, <1>2, <2>1, <2>3, <2>4, <2>5, <2>6, <2>7
    <2> QED BY <1>3, <2>2, <2>8 DEF d
<1> QED BY <1>4, <1>5

\* Of two networks with a common address the one with the longer prefix is inside
\* the other one, and smaller.
LEMMA LongerIsInside ==
    ASSUME Powers, NEW inner \in AnyRoute, NEW outer \in AnyRoute, NEW dest \in Int,
           dest \in Network(inner), dest \in Network(outer),
           outer.prefix_length <= inner.prefix_length
    PROVE  /\ Network(inner) \subseteq Network(outer)
           /\ outer.prefix_length < inner.prefix_length =>
                 Network(inner) # Network(outer)
<1> DEFINE s == Size(inner)
           b == Block(inner)
           c == Block(outer)
           more == inner.prefix_length - outer.prefix_length
           t == 2 ^ more
<1>1. /\ s \in Nat /\ s > 0 /\ b \in Int /\ c \in Int
      /\ Network(inner) = b * s .. (b + 1) * s - 1
      /\ Network(outer) = c * Size(outer) .. (c + 1) * Size(outer) - 1
    BY RouteFacts
<1>2. /\ more \in Nat
      /\ AddressBits - inner.prefix_length \in Nat
      /\ AddressBits - outer.prefix_length = (AddressBits - inner.prefix_length) + more
    BY AddressAssumption DEF AnyRoute
<1>3. t \in Nat /\ t > 0 /\ Size(outer) = s * t
    <2>1. t \in Nat /\ t >= 1
        BY <1>2, PowerPositive
    <2>2. Size(outer) = s * t
        BY <1>2, PowerSum DEF Size
    <2> QED BY <2>1, <2>2
<1>4. more # 0 => t >= 2
    <2> SUFFICES ASSUME more # 0 PROVE t >= 2
        OBVIOUS
    <2> DEFINE k == more - 1
               p == 2 ^ k
    <2>1. k \in Nat /\ k + 1 = more
        BY <1>2
    <2>2. p \in Nat /\ p >= 1
        BY <2>1, PowerPositive
    <2>3. t = p * 2
        BY <2>1 DEF Powers
    <2> HIDE DEF p, t
    <2> QED BY <2>2, <2>3
<1>5. outer.prefix_length < inner.prefix_length => more # 0
    BY <1>2 DEF AnyRoute
<1> HIDE DEF s, b, c, t, more
<1>6. /\ dest \in b * s .. (b + 1) * s - 1
      /\ dest \in c * (s * t) .. (c + 1) * (s * t) - 1
      /\ Network(outer) = c * (s * t) .. (c + 1) * (s * t) - 1
    BY <1>1, <1>3
<1>7. c * (s * t) <= b * s /\ (b + 1) * s <= (c + 1) * (s * t)
    BY <1>1, <1>3, <1>6, BlocksNested
<1> DEFINE st == s * t
           bs == b * s
           es == (b + 1) * s
           cs == c * st
           hs == (c + 1) * st
<1>8. /\ st \in Int /\ bs \in Int /\ es = bs + s /\ cs \in Int /\ hs = cs + st
      /\ cs <= bs /\ es <= hs
      /\ Network(inner) = bs .. es - 1 /\ Network(outer) = cs .. hs - 1
    BY <1>1, <1>3, <1>6, <1>7
<1>9. t >= 2 => st > s
    <2> SUFFICES ASSUME t >= 2 PROVE s * t > s
        OBVIOUS
    <2>1. s * t = (t - 1) * s + s
        BY <1>1, <1>3
    <2>2. 0 * s + s <= (t - 1) * s
        BY <1>1, <1>3, BlocksApart
    <2>3. 0 * s + s = s
        BY <1>1
    <2> DEFINE u == (t - 1) * s
               v == s * t
    <2>4. u \in Int /\ v \in Int /\ v = u + s /\ s <= u
        BY <1>1, <1>3, <2>1, <2>2, <2>3
    <2> HIDE DEF u, v
    <2>5. v > s
        BY <1>1, <2>4
    <2> QED BY <2>5 DEF v
<1> HIDE DEF st, bs, es, cs, hs
<1> DEFINE small == Network(inner)
           large == Network(outer)
<1>12. /\ s \in Int /\ s > 0 /\ st \in Int /\ bs \in Int /\ cs \in Int
       /\ es = bs + s /\ hs = cs + st /\ cs <= bs /\ es <= hs
       /\ small = bs .. es - 1 /\ large = cs .. hs - 1
    BY <1>1, <1>8
<1> HIDE DEF small, large
<1>10. small \subseteq large
    BY <1>12
<1>11. st > s => small # large
    <2> SUFFICES ASSUME st > s, small = large PROVE FALSE
        OBVIOUS
    <2>1. cs \in large /\ hs - 1 \in large
        <3>1. /\ cs \in Int /\ hs - 1 \in Int /\ cs <= hs - 1
            BY <1>12
        <3>2. cs \in cs .. hs - 1 /\ hs - 1 \in cs .. hs - 1
            BY <3>1
        <3>3. large = cs .. hs - 1
            BY <1>12
        <3> QED BY <3>2, <3>3
    <2>2. cs >= bs /\ hs - 1 <= es - 1
        BY <1>12, <2>1
    <2> QED BY <1>12, <2>2
<1> QED BY <1>4, <1>5, <1>9, <1>10, <1>11 DEF small, large
-----------------------------------------------------------------------------
(* The choice of a route *)

\* One round keeps the best of the routes that were looked at.
LEMMA ChoiceStep ==
    ASSUME NEW c, NEW i \in Nat, i >= 1,
           \A k \in 1 .. i : c[k].index = k /\ c[k].prefix_length \in Nat,
           NEW best, ChoiceInv(c, i - 1, best)
    PROVE  ChoiceInv(c, i, Longer(best, c[i]))
<1> DEFINE next == Longer(best, c[i])
           len == c[i].prefix_length
           takes == c[i].matches /\ len > best.max_length
<1>1. /\ i \in 1 .. i /\ c[i].index = i /\ len \in Nat
      /\ \A k \in 1 .. i : k = i \/ k \in 1 .. i - 1
    OBVIOUS
<1>2. CASE takes
    <2>1. next = [best_index |-> i, max_length |-> len]
        BY <1>1, <1>2 DEF Longer
    <2>2. next.best_index = i /\ next.max_length = len
        BY <2>1
    <2>3. \A k \in 1 .. i - 1 : c[k].matches => c[k].prefix_length < len
        <3>1. CASE NoneMatches(c, i - 1, best)
            BY <3>1 DEF NoneMatches
        <3>2. CASE BestOfThem(c, i - 1, best)
            <4>1. best.max_length \in Nat /\ best.max_length < len
                BY <1>1, <1>2, <3>2 DEF BestOfThem
            <4>2. \A k \in 1 .. i - 1 : k \in 1 .. i
                OBVIOUS
            <4> QED BY <1>1, <3>2, <4>1, <4>2 DEF BestOfThem
        <3> QED BY <3>1, <3>2 DEF ChoiceInv
    <2> HIDE DEF next
    <2>4. \A k \in 1 .. i : c[k].matches =>
             /\ c[k].prefix_length <= len
             /\ c[k].prefix_length = len => i <= k
        BY <1>1, <2>3
    <2>5. BestOfThem(c, i, next)
        BY <1>1, <1>2, <2>2, <2>4 DEF BestOfThem
    <2> QED BY <2>5 DEF ChoiceInv, next
<1>3. CASE ~ takes
    <2>1. next = best
        BY <1>3 DEF Longer
    <2>2. CASE NoneMatches(c, i - 1, best)
        <3>1. best.max_length = -1
            BY <2>2 DEF NoneMatches
        <3>2. ~ c[i].matches
            BY <1>1, <1>3, <3>1
        <3>3. NoneMatches(c, i, best)
            BY <1>1, <2>2, <3>2 DEF NoneMatches
        <3> QED BY <2>1, <3>3 DEF ChoiceInv
    <2>3. CASE BestOfThem(c, i - 1, best)
        <3> DEFINE max == best.max_length
                   b == best.best_index
        <3>1. /\ b \in 1 .. i - 1 /\ c[b].matches /\ max = c[b].prefix_length
              /\ \A k \in 1 .. i - 1 : c[k].matches =>
                    c[k].prefix_length <= max /\ (c[k].prefix_length = max => b <= k)
            BY <2>3 DEF BestOfThem
        <3>2. max \in Nat /\ b \in 1 .. i /\ b <= i
            BY <3>1
        <3>3. c[i].matches => len <= max
            BY <1>1, <1>3, <3>2
        <3>4. \A k \in 1 .. i : c[k].matches =>
                 c[k].prefix_length <= max /\ (c[k].prefix_length = max => b <= k)
            BY <1>1, <3>1, <3>2, <3>3
        <3>5. BestOfThem(c, i, best)
            BY <3>1, <3>2, <3>4 DEF BestOfThem
        <3> QED BY <2>1, <3>5 DEF ChoiceInv
    <2> QED BY <2>2, <2>3 DEF ChoiceInv
<1> QED BY <1>2, <1>3

\* best is the first of the longest routes for dest, 0 if there is none.
FirstLongest(routes, dest, best) ==
    \/ best = 0 /\ \A k \in 1 .. Len(routes) : ~ Matches(routes[k], dest)
    \/ /\ best \in 1 .. Len(routes) /\ Matches(routes[best], dest)
       /\ \A k \in 1 .. Len(routes) : Matches(routes[k], dest) =>
             /\ routes[k].prefix_length <= routes[best].prefix_length
             /\ routes[k].prefix_length = routes[best].prefix_length => best <= k

\* What the loop over routes_ computes, in terms of the mask
LEMMA BestIndexIs ==
    ASSUME NEW routes \in Seq(AnyRoute), NEW dest
    PROVE  FirstLongest(routes, dest, BestIndex(routes, dest))
<1> DEFINE c == [i \in DOMAIN routes |->
                   [index |-> i, matches |-> Matches(routes[i], dest),
                    prefix_length |-> routes[i].prefix_length]]
           n == Len(routes)
           base == [best_index |-> 0, max_length |-> -1]
           result == Choosing!Fold(base, c)
<1>1. n \in Nat /\ DOMAIN routes = 1 .. n
    BY LenProperties
<1>2. \A k \in 1 .. n : routes[k].prefix_length \in Nat
    <2>1. \A k \in 1 .. n : routes[k] \in AnyRoute
        BY ElementOfSeq
    <2> QED BY <2>1, AddressAssumption DEF AnyRoute
<1>3. /\ DOMAIN c = 1 .. n
      /\ \A k \in 1 .. n : /\ c[k].index = k /\ c[k].matches = Matches(routes[k], dest)
                           /\ c[k].prefix_length = routes[k].prefix_length
    BY <1>1
<1>4. BestIndex(routes, dest) = result.best_index
    BY DEF BestIndex, Choosing!Fold, Choosing!FoldLeft, Choosing!MapThenFoldSet,
           Choosing!Max, FoldLeft, MapThenFoldSet, Max
<1> HIDE DEF c
<1>5. ChoiceInv(c, 0, base)
    BY DEF ChoiceInv, NoneMatches
<1> HIDE DEF base
<1> HIDE DEF result
<1>7. ASSUME NEW i \in 1 .. n, NEW best, ChoiceInv(c, i - 1, best)
      PROVE  ChoiceInv(c, i, Longer(best, c[i]))
    <2>1. /\ i \in Nat /\ i >= 1
          /\ \A k \in 1 .. i : c[k].index = k /\ c[k].prefix_length \in Nat
        BY <1>1, <1>2, <1>3
    <2> QED BY <1>7, <2>1, ChoiceStep
<1>8. ChoiceInv(c, n, result)
    <2>1. ChoiceInv(c, n, Choosing!Fold(base, c))
        <3> HIDE DEF n
        <3> QED BY <1>1, <1>3, <1>5, <1>7, Choosing!FoldInvariant
    <2> QED BY <2>1 DEF result
<1>9. CASE NoneMatches(c, n, result)
    <2>1. result.best_index = 0
        BY <1>9 DEF NoneMatches
    <2>2. \A k \in 1 .. n : ~ Matches(routes[k], dest)
        BY <1>3, <1>9 DEF NoneMatches
    <2> QED BY <1>4, <2>1, <2>2 DEF FirstLongest
<1>10. CASE BestOfThem(c, n, result)
    <2> DEFINE b == result.best_index
    <2>1. /\ b \in 1 .. n /\ Matches(routes[b], dest)
          /\ \A k \in 1 .. n : Matches(routes[k], dest) =>
                /\ routes[k].prefix_length <= routes[b].prefix_length
                /\ routes[k].prefix_length = routes[b].prefix_length => b <= k
        BY <1>3, <1>10 DEF BestOfThem
    <2> QED BY <1>4, <2>1 DEF FirstLongest
<1> QED BY <1>8, <1>9, <1>10 DEF ChoiceInv

\* What LongestPrefixChosen says of one address, with its local definitions as parameters
RightChoice(routes, best, applicable) ==
    IF applicable = {} THEN best = 0
    ELSE /\ best \in applicable
         /\ \A i \in applicable :
               /\ Network(routes[best]) \subseteq Network(routes[i])
               /\ Network(routes[best]) = Network(routes[i]) => best <= i

\* The first of the longest routes that match is that for the smallest network.
LEMMA ChoiceIsRight ==
    ASSUME Powers, NEW routes \in Seq(AnyRoute), NEW dest \in Addresses
    PROVE  RightChoice(routes, BestIndex(routes, dest),
                       {i \in DOMAIN routes : dest \in Network(routes[i])})
<1> DEFINE best       == BestIndex(routes, dest)
           applicable == {i \in DOMAIN routes : dest \in Network(routes[i])}
           n          == Len(routes)
<1>1. DOMAIN routes = 1 .. n /\ n \in Nat
    BY LenProperties
<1>2. \A i \in 1 .. n : routes[i] \in AnyRoute
    BY ElementOfSeq
<1>3. /\ \A i \in 1 .. n : Matches(routes[i], dest) <=> i \in applicable
      /\ applicable \subseteq 1 .. n
      /\ \A i \in applicable : dest \in Network(routes[i])
    BY <1>1, <1>2, MatchesNetwork
<1>4. FirstLongest(routes, dest, best)
    BY BestIndexIs
<1> HIDE DEF best, applicable
<1>5. CASE applicable = {}
    <2>1. best = 0
        BY <1>3, <1>4, <1>5 DEF FirstLongest
    <2> QED BY <1>5, <2>1 DEF RightChoice, best, applicable
<1>6. CASE applicable # {}
    <2>1. /\ best \in 1 .. n /\ best \in applicable
          /\ \A k \in applicable :
                /\ routes[k].prefix_length <= routes[best].prefix_length
                /\ routes[k].prefix_length = routes[best].prefix_length => best <= k
        BY <1>3, <1>4, <1>6 DEF FirstLongest
    <2>2. ASSUME NEW i \in applicable
          PROVE  /\ Network(routes[best]) \subseteq Network(routes[i])
                 /\ Network(routes[best]) = Network(routes[i]) => best <= i
        <3>1. /\ routes[i] \in AnyRoute /\ routes[best] \in AnyRoute /\ dest \in Int
              /\ dest \in Network(routes[i]) /\ dest \in Network(routes[best])
            BY <1>2, <1>3, <2>1 DEF Addresses
        <3>2. routes[i].prefix_length \in Int /\ routes[best].prefix_length \in Int
            BY <3>1 DEF AnyRoute
        <3>3. /\ Network(routes[best]) \subseteq Network(routes[i])
              /\ routes[i].prefix_length < routes[best].prefix_length =>
                    Network(routes[best]) # Network(routes[i])
            BY <2>1, <3>1, LongerIsInside
        <3> QED BY <2>1, <3>2, <3>3
    <2>3. RightChoice(routes, best, applicable)
        BY <1>6, <2>1, <2>2 DEF RightChoice
    <2> QED BY <2>3 DEF best, applicable
<1> QED BY <1>5, <1>6
-----------------------------------------------------------------------------
\* The table is built by add_route.
TableKept ==
    input.of = "route" =>
        \E routes \in Seq(AnyRoute) :
            input = [of |-> "route", router |-> [interfaces |-> <<>>, routes |-> routes]]

\* Add keeps the table one of routes for addresses.
LEMMA TableInv == Spec => []TableKept
<1>1. Init => TableKept
    <2> SUFFICES ASSUME Init PROVE TableKept
        OBVIOUS
    <2>1. CASE input \in UnwrapInput
        BY <2>1 DEF TableKept, UnwrapInput
    <2>2. CASE input = [of |-> "route", router |-> NewRouter]
        <3>1. <<>> \in Seq(AnyRoute)
            BY EmptySeq
        <3> QED BY <2>2, <3>1 DEF TableKept, NewRouter
    <2>3. CASE InitFrame
        <3>1. \A of, msg, cuts, padding, at, damage :
                  Incoming(of, msg, cuts, padding, at, damage).of = of
            BY DEF Incoming
        <3>2. input.of \in {"tcp", "damaged", "arp"}
            BY <2>3, <3>1 DEF InitFrame
        <3> QED BY <3>2 DEF TableKept
    <2> QED BY <2>1, <2>2, <2>3 DEF Init
<1>2. TableKept /\ [Next]_input => TableKept'
    <2> SUFFICES ASSUME TableKept, [Next]_input PROVE TableKept'
        OBVIOUS
    <2>1. CASE UNCHANGED input
        BY <2>1 DEF TableKept
    <2>2. ASSUME NEW p \in Addresses, NEW len \in 0 .. AddressBits, Add(p, len)
          PROVE  TableKept'
        <3>1. PICK routes \in Seq(AnyRoute) :
                 input = [of |-> "route",
                          router |-> [interfaces |-> <<>>, routes |-> routes]]
            BY <2>2 DEF Add, TableKept
        <3> DEFINE route == [route_prefix |-> p, prefix_length |-> len,
                             next_hop |-> NoHop, interface_num |-> 1]
                   more == Append(routes, route)
        <3>2. route \in AnyRoute
            BY DEF AnyRoute
        <3> HIDE DEF route
        <3>3. more \in Seq(AnyRoute)
            BY <3>2, AppendProperties
        <3>4. AddRoute(input.router, p, len, NoHop, 1) =
                  [interfaces |-> <<>>, routes |-> more]
            <4> DEFINE router == input.router
            <4>1. router = [interfaces |-> <<>>, routes |-> routes]
                BY <3>1
            <4> HIDE DEF router
            <4>2. AddRoute(router, p, len, NoHop, 1) = [router EXCEPT !.routes = more]
                <5>1. router.routes = routes
                    BY <4>1
                <5> QED BY <5>1 DEF AddRoute, route
            <4> HIDE DEF more
            <4>3. [router EXCEPT !.routes = more] = [interfaces |-> <<>>, routes |-> more]
                BY <4>1
            <4> QED BY <4>2, <4>3 DEF router
        <3>5. input' = [of |-> "route", router |-> [interfaces |-> <<>>, routes |-> more]]
            BY <2>2, <3>1, <3>4 DEF Add
        <3> HIDE DEF more
        <3> QED BY <3>3, <3>5 DEF TableKept
    <2> QED BY <2>1, <2>2 DEF Next
<1> QED BY <1>1, <1>2, PTL DEF Spec

\* Router::route chooses the route with the longest prefix that matches, of several the
\* first, and none only if none matches, for any table and any width of the addresses
\* (router.cc:49-62).  Powers is a fact of arithmetic.
THEOREM LongestPrefix ==
    ASSUME Powers
    PROVE  Spec => []LongestPrefixChosen
<1>1. TableKept => LongestPrefixChosen
    <2> SUFFICES ASSUME TableKept, input.of = "route", NEW dest \in Addresses
                 PROVE
            RightChoice(input.router.routes, BestIndex(input.router.routes, dest),
                        {i \in DOMAIN input.router.routes :
                            dest \in Network(input.router.routes[i])})
        BY DEF LongestPrefixChosen, RightChoice
    <2> DEFINE routes == input.router.routes
    <2>1. routes \in Seq(AnyRoute)
        BY DEF TableKept
    <2> HIDE DEF routes
    <2>2. RightChoice(routes, BestIndex(routes, dest),
                      {i \in DOMAIN routes : dest \in Network(routes[i])})
        BY <2>1, ChoiceIsRight
    <2> QED BY <2>2 DEF routes
<1> QED BY <1>1, TableInv, PTL
=============================================================================
