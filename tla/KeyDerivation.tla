--------------------------- MODULE KeyDerivation ---------------------------
(***************************************************************************)
(* Keys and message authentication codes (rust/rc-kms, rust/rc-crypto), in *)
(* the symbolic model: a code is equal to another exactly when key and     *)
(* message are.  The root key and RC_SYSTEM_ID are fixed for a deployment, *)
(* and the cache of brand keys holds what the derivation returns.          *)
(***************************************************************************)
CONSTANT Head7   \* the first seven bytes of an authority uid

Hmac(key, message) == [key |-> key, message |-> message]

\* derive_brand_key: root key, brand and system id.
BrandKey(brand) == Hmac("root", brand)

\* derive_chip_key of SoftwareKms: brand, seven bytes of uid, epoch.
ChipKey(brand, uid, epoch) == Hmac(BrandKey(brand), [uid |-> uid, epoch |-> epoch])

\* derive_mother_key: the rest of an authority uid past seven bytes is cut off.
MotherKey(brand, authority, epoch) == ChipKey(brand, Head7[authority], epoch)

\* The credential of a virtual mother card: the code of its whole uid.
Credential(brand, authority, epoch) == Hmac(MotherKey(brand, authority, epoch), authority)

\* What a tag that holds key answers, and verify_sun_message.
SunCmac(key, uid, ctr) == Hmac(key, [uid |-> uid, ctr |-> ctr])
VerifySunMessage(key, uid, ctr, cmac) == SunCmac(key, uid, ctr) = cmac
=============================================================================
