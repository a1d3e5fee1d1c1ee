--------------------------------- MODULE Keys ---------------------------------
(***************************************************************************)
(* keys.go: where in the DataStore or the RoleStore a value is looked up.  *)
(*                                                                         *)
(* The bytes, words and addresses are those of module Codec.  Keccak is    *)
(* taken to have no collisions: a hash is what was hashed, with a mark,    *)
(* and stands for a whole word in what is hashed next.                     *)
(***************************************************************************)
EXTENDS Codec

CONSTANTS Name      \* Name[c]: the bytes of the constant called c

Hash(bytes) == <<"keccak", bytes>>

\* Mutated form: only the words that the name fills.
AbiEncodeStringFloor(s) ==
    LET padded == (Len(s) \div Word) * Word
    IN Bytes(Word, Word) \o Bytes(Len(s), Word)
       \o [i \in 1..padded |-> IF i <= Len(s) THEN s[i] ELSE 0]

\* A word for the offset, one for the length, and the bytes, filled up with zeros.
AbiEncodeString(s) ==
    LET padded == ((Len(s) + Word - 1) \div Word) * Word
    IN Bytes(Word, Word) \o Bytes(Len(s), Word)
       \o [i \in 1..padded |-> IF i <= Len(s) THEN s[i] ELSE 0]

RootHash(c) == Hash(AbiEncodeString(Name[c]))
KeccakOf(root, parts) == Hash(<<root>> \o FlattenSeq(parts))
AddressPadded(a) == Bytes(a, Word)
BoolPadded(b) == Bytes(IF b THEN 1 ELSE 0, Word)

MinCollateralFactorKey(m) == KeccakOf(RootHash("MIN_COLLATERAL_FACTOR"), <<AddressPadded(m)>>)
MaxOpenInterestKey(m, isLong) ==
    KeccakOf(RootHash("MAX_OPEN_INTEREST"), <<AddressPadded(m), BoolPadded(isLong)>>)
PoolAmountKey(m, token) ==
    KeccakOf(RootHash("POOL_AMOUNT"), <<AddressPadded(m), AddressPadded(token)>>)
MaxPoolAmountKey(m, token) ==
    KeccakOf(RootHash("MAX_POOL_AMOUNT"), <<AddressPadded(m), AddressPadded(token)>>)
OpenInterestKey(m, token, isLong) ==
    KeccakOf(RootHash("OPEN_INTEREST"),
             <<AddressPadded(m), AddressPadded(token), BoolPadded(isLong)>>)

\* Mutated form: both sides are looked up under one key.
BorrowingFactorKeyOneSide(m, isLong) ==
    KeccakOf(RootHash("BORROWING_FACTOR"), <<AddressPadded(m)>>)

BorrowingFactorKey(m, isLong) ==
    KeccakOf(RootHash("BORROWING_FACTOR"), <<AddressPadded(m), BoolPadded(isLong)>>)
LiquidationFeeFactorKey(m) == KeccakOf(RootHash("LIQUIDATION_FEE_FACTOR"), <<AddressPadded(m)>>)
ClaimableFeeAmountKey(m, token) ==
    KeccakOf(RootHash("CLAIMABLE_FEE_AMOUNT"), <<AddressPadded(m), AddressPadded(token)>>)
FundingFeeAmountPerSizeKey(m, token, isLong) ==
    KeccakOf(RootHash("FUNDING_FEE_AMOUNT_PER_SIZE"),
             <<AddressPadded(m), AddressPadded(token), BoolPadded(isLong)>>)
RoleHash(c) == RootHash(c)
FeatureKeyRoot(c) == RootHash(c)
FeatureKeyForHandler(c, handler) == KeccakOf(RootHash(c), <<AddressPadded(handler)>>)

\* What the tasks look up in one DataStore: r[1] says which of the values, the rest of r
\* of what.
KeyOf(r) ==
    CASE r[1] = "minCollateral"  -> MinCollateralFactorKey(r[2])
      [] r[1] = "maxOI"          -> MaxOpenInterestKey(r[2], r[3])
      [] r[1] = "pool"           -> PoolAmountKey(r[2], r[3])
      [] r[1] = "maxPool"        -> MaxPoolAmountKey(r[2], r[3])
      [] r[1] = "oi"             -> OpenInterestKey(r[2], r[3], r[4])
      [] r[1] = "borrowing"      -> BorrowingFactorKey(r[2], r[3])
      [] r[1] = "liquidationFee" -> LiquidationFeeFactorKey(r[2])
      [] r[1] = "claimable"      -> ClaimableFeeAmountKey(r[2], r[3])
      [] r[1] = "funding"        -> FundingFeeAmountPerSizeKey(r[2], r[3], r[4])
      [] r[1] = "feature"        -> IF Len(r) = 2 THEN FeatureKeyRoot(r[2])
                                    ELSE FeatureKeyForHandler(r[2], r[3])
      [] r[1] = "list"           -> RootHash(r[2])
      [] r[1] = "maxPriceAge"    -> RootHash("MAX_ORACLE_PRICE_AGE")

=============================================================================
