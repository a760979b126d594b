----------------------- MODULE PasswordProtectedSecret -----------------------
(***************************************************************************)
(* PasswordProtectedSecret (Crypto/Sodium.cpp, Sodium.h): a secret that is *)
(* sealed with a key derived from a password.  One object lives at a time; *)
(* the program may end at any point and go on with a new object, or with   *)
(* one loaded from any record it stored before.                            *)
(*                                                                         *)
(* Cryptography is symbolic: a key is a password with the configuration it *)
(* was hashed with, a cipher is the key, the nonce and the message, and    *)
(* every random salt or nonce is a new number.  A call into libsodium that *)
(* allocates or hashes may fail (fails = TRUE); the operation then ends    *)
(* with the exception at the place where the code has got to.              *)
(***************************************************************************)
EXTENDS Integers, FiniteSets

CONSTANTS
  Passwords,    \* the passwords in use
  Secrets,      \* the secrets in use
  Strengths,    \* the values of PasswdHashStrength and PasswdHashAlgo in use
  None,         \* an empty string or an empty buffer
  MaxRandom,    \* bound: the random values that are drawn
  MaxRecords    \* bound: the records that are stored

ASSUME BoundAssumption == MaxRandom \in Nat /\ MaxRecords \in Nat

VARIABLES
  hashConfig,   \* salt, and limits and algorithm, of the password hash
  cipher,       \* the sealed secret, or None
  nonce,        \* the nonce that is stored with the cipher
  pwClear,      \* the password, or None
  symKey,       \* the key, or None as long as the memory was never filled
  fresh,        \* the next random value
  ret,          \* what the last call returned or threw
  \* History of the object, and what the program stored.
  truth,        \* the secret the object has to keep, and its password
  spoiled,      \* what a failed call has left in pieces
  sealed,       \* everything that was ever encrypted
  records       \* the results of asString() that were stored

object == <<hashConfig, cipher, nonce, pwClear, symKey>>
secretVars == <<hashConfig, cipher, nonce, pwClear, symKey, fresh, ret,
          truth, spoiled, sealed, records>>

(* "cipher": key, nonce and cipher do not belong together; "conf": the key *)
(* is not the one of the password under the stored hash configuration.     *)
Pieces == {"cipher", "conf"}

Configs == [strength : Strengths, salt : Nat]
Keys    == [pw : Passwords, conf : Configs]
Ciphers == [key : Keys, nonce : Nat, msg : Secrets]
Records == [hashConfig : Configs, cipher : Ciphers \cup {None}, nonce : Nat,
            truth : [secret : Secrets \cup {None}, pw : Passwords \cup {None}],
            intact : BOOLEAN]
Outcomes == {"void", "true", "false", "secret", "NoPasswordSet",
             "WrongPassword", "error"}

(* An empty string is no password and no secret, and a cipher is never     *)
(* empty: it holds at least its authentication tag.                        *)
ASSUME NoneAssumption == None \notin Passwords \cup Secrets \cup Ciphers

SecretTypeOK ==
  /\ hashConfig \in Configs
  /\ cipher \in Ciphers \cup {None}
  /\ nonce \in Nat
  /\ pwClear \in Passwords \cup {None}
  /\ symKey \in Keys \cup {None}
  /\ fresh \in Nat
  /\ ret \in Outcomes \X (Secrets \cup {None})
  /\ truth \in [secret : Secrets \cup {None}, pw : Passwords \cup {None}]
  /\ spoiled \in SUBSET Pieces
  /\ sealed \in SUBSET Ciphers
  /\ records \in SUBSET Records

-----------------------------------------------------------------------------
(* crypto_pwhash, crypto_secretbox_easy and crypto_secretbox_open_easy.    *)
PwHash(pw, conf) == [pw |-> pw, conf |-> conf]
Seal(key, n, msg) == [key |-> key, nonce |-> n, msg |-> msg]
Opens(c, n, key) == c.key = key /\ c.nonce = n

(* The end of a call.                                                      *)
Returns(what) == ret' = <<what, None>>

(* The slip of a changePassword() that derives the key too early.         *)
KeyFromOldConfig(pw, conf) ==
  /\ symKey' = PwHash(pw, hashConfig)
  /\ pwClear' = pw

(* password2SymKey(), unless a call in it fails: the key changes, and then *)
(* the password.                                                           *)
Password2SymKey(pw, conf) ==
  /\ symKey' = PwHash(pw, conf)
  /\ pwClear' = pw

(* The slip of a setSecret() that seals under the nonce it has.            *)
KeepNonce(n) == nonce' = nonce /\ fresh' = n + 1

(* A new nonce for each encryption.                                        *)
DrawNonce(n) == nonce' = n /\ fresh' = n + 1

-----------------------------------------------------------------------------
(* The slip of a constructor that leaves the nonce to the first setSecret. *)
CreatedWithoutNonce(strength, n) ==
  [hashConfig |-> [strength |-> strength, salt |-> n], nonce |-> None]

(* The constructor of an empty secret: a random salt and a random nonce.   *)
Created(strength, n) ==
  [hashConfig |-> [strength |-> strength, salt |-> n], nonce |-> n + 1]

SecretInit ==
  /\ \E strength \in Strengths :
       /\ hashConfig = Created(strength, 0).hashConfig
       /\ nonce = Created(strength, 0).nonce
  /\ fresh = 2
  /\ cipher = None /\ pwClear = None /\ symKey = None
  /\ ret = <<"void", None>>
  /\ truth = [secret |-> None, pw |-> None]
  /\ spoiled = {} /\ sealed = {} /\ records = {}

New(strength) ==
  /\ fresh + 1 < MaxRandom
  /\ hashConfig' = Created(strength, fresh).hashConfig
  /\ nonce' = Created(strength, fresh).nonce
  /\ fresh' = fresh + 2
  /\ cipher' = None /\ pwClear' = None /\ symKey' = None
  /\ truth' = [secret |-> None, pw |-> None]
  /\ spoiled' = {}
  /\ Returns("void")
  /\ UNCHANGED <<sealed, records>>

(* The constructor from a stored record; all fields but the password and   *)
(* the key come from it.                                                   *)
Load(r) ==
  /\ hashConfig' = r.hashConfig
  /\ cipher' = r.cipher
  /\ nonce' = r.nonce
  /\ pwClear' = None /\ symKey' = None
  /\ truth' = r.truth
  /\ spoiled' = IF r.intact THEN {} ELSE Pieces
  /\ Returns("void")
  /\ UNCHANGED <<fresh, sealed, records>>

-----------------------------------------------------------------------------
(* setSecret(): an empty secret is erased with or without a password.  The *)
(* nonce is replaced before the encryption, the cipher only after it.      *)
EraseSecret ==
  /\ cipher' = None
  /\ truth' = [truth EXCEPT !.secret = None]
  /\ spoiled' = spoiled \ {"cipher"}
  /\ Returns("true")
  /\ UNCHANGED <<hashConfig, nonce, pwClear, symKey, fresh, sealed, records>>

SetSecretRefused ==
  /\ pwClear = None
  /\ Returns("NoPasswordSet")
  /\ UNCHANGED <<object, fresh, truth, spoiled, sealed, records>>

SetSecret(sec, fails) ==
  /\ pwClear # None
  /\ fresh < MaxRandom
  /\ DrawNonce(fresh)
  /\ \/ /\ ~fails
        /\ cipher' = Seal(symKey, nonce', sec)
        /\ sealed' = sealed \cup {cipher'}
        /\ truth' = [secret |-> sec, pw |-> pwClear]
        /\ spoiled' = spoiled \ {"cipher"}
        /\ Returns("true")
     \/ /\ fails
        /\ spoiled' = IF cipher = None THEN spoiled ELSE spoiled \cup {"cipher"}
        /\ Returns("error")
        /\ UNCHANGED <<cipher, truth, sealed>>
  /\ UNCHANGED <<hashConfig, pwClear, symKey, records>>

(* getSecret(): nothing to open, a secret, or an exception.                *)
GetSecret(fails) ==
  /\ \/ pwClear = None /\ Returns("NoPasswordSet")
     \/ pwClear # None /\ cipher = None /\ ret' = <<"secret", None>>
     \/ pwClear # None /\ cipher # None /\ fails /\ Returns("error")
     \/ /\ pwClear # None /\ cipher # None /\ ~fails
        /\ ret' = IF Opens(cipher, nonce, symKey)
                    THEN <<"secret", cipher.msg>>
                    ELSE <<"WrongPassword", None>>
  /\ UNCHANGED <<object, fresh, truth, spoiled, sealed, records>>

-----------------------------------------------------------------------------
(* The slip of a setPassword() that keeps a password that opens nothing.   *)
KeepPassword(pw) == pwClear' = pw

(* A wrong password is forgotten, the key derived from it is not.          *)
ReleasePassword(pw) == pwClear' = None

(* setPassword(): only without a password, and checked against the cipher  *)
(* if there is one.  When the check itself fails the password stays.       *)
SetPasswordRefused(pw) ==
  /\ pwClear # None \/ pw = None
  /\ Returns("false")
  /\ UNCHANGED <<object, fresh, truth, spoiled, sealed, records>>

(* password2SymKey() fails: the hash, or the copy of the password, when    *)
(* the key is already the new one.                                         *)
SetPasswordFails(pw) ==
  /\ pwClear = None
  /\ symKey' \in {symKey, PwHash(pw, hashConfig)}
  /\ Returns("error")
  /\ UNCHANGED <<hashConfig, cipher, nonce, pwClear, fresh, truth, spoiled, sealed, records>>

SetPassword(pw) ==
  LET key == PwHash(pw, hashConfig) IN
  /\ pwClear = None
  /\ \/ /\ cipher = None
        /\ Password2SymKey(pw, hashConfig)
        /\ truth' = [truth EXCEPT !.pw = pw]
        /\ Returns("true")
     \/ /\ cipher # None /\ Opens(cipher, nonce, key)
        /\ Password2SymKey(pw, hashConfig)
        /\ Returns("true")
        /\ UNCHANGED truth
     \/ /\ cipher # None /\ ~Opens(cipher, nonce, key)
        /\ symKey' = key
        /\ ReleasePassword(pw)
        /\ Returns("false")
        /\ UNCHANGED truth
  /\ UNCHANGED <<hashConfig, cipher, nonce, fresh, spoiled, sealed, records>>

SetPasswordUnchecked(pw) ==
  /\ pwClear = None /\ cipher # None
  /\ Password2SymKey(pw, hashConfig)
  /\ spoiled' = spoiled \cup {"cipher"}
  /\ Returns("error")
  /\ UNCHANGED <<hashConfig, cipher, nonce, fresh, truth, sealed, records>>

IsValidPassword(pw) ==
  /\ Returns(IF pwClear = None THEN "NoPasswordSet"
             ELSE IF pwClear = pw THEN "true" ELSE "false")
  /\ UNCHANGED <<object, fresh, truth, spoiled, sealed, records>>

-----------------------------------------------------------------------------
(* changePassword(): the calls that end before anything has changed.       *)
ChangePasswordRefused(oldPw, newPw) ==
  /\ \/ newPw = None /\ Returns("false")
     \/ newPw # None /\ pwClear = None /\ Returns("NoPasswordSet")
     \/ newPw # None /\ pwClear # None /\ oldPw # pwClear /\ Returns("false")
     \/ /\ newPw # None /\ pwClear # None /\ oldPw = pwClear
        /\ cipher # None
        /\ Returns("error") \/ (~Opens(cipher, nonce, symKey) /\ Returns("WrongPassword"))
  /\ UNCHANGED <<object, fresh, truth, spoiled, sealed, records>>

(* The password is right and the secret is open.                           *)
CanChange(oldPw) ==
  /\ pwClear # None /\ oldPw = pwClear
  /\ cipher # None => Opens(cipher, nonce, symKey)
  /\ fresh + 1 < MaxRandom

(* The new salt and limits are in place before the new key is derived.     *)
ChangePasswordHashFails(oldPw, strength) ==
  /\ CanChange(oldPw)
  /\ hashConfig' = [strength |-> strength, salt |-> fresh]
  /\ fresh' = fresh + 1
  /\ spoiled' = spoiled \cup {"conf"}
  /\ Returns("error")
  /\ UNCHANGED <<cipher, nonce, pwClear, symKey, truth, sealed, records>>

(* So is the new key before the locked copy of the new password is made:   *)
(* the object goes on with the old password, which this key is not of.     *)
ChangePasswordCopyFails(oldPw, newPw, strength) ==
  /\ CanChange(oldPw)
  /\ hashConfig' = [strength |-> strength, salt |-> fresh]
  /\ fresh' = fresh + 1
  /\ symKey' = PwHash(newPw, hashConfig')
  /\ spoiled' = spoiled \cup {"conf"} \cup IF cipher = None THEN {} ELSE {"cipher"}
  /\ Returns("error")
  /\ UNCHANGED <<cipher, nonce, pwClear, truth, sealed, records>>

(* The cipher is released before the secret is sealed again.               *)
ChangePassword(oldPw, newPw, strength, fails) ==
  /\ CanChange(oldPw)
  /\ hashConfig' = [strength |-> strength, salt |-> fresh]
  /\ Password2SymKey(newPw, hashConfig')
  /\ \/ /\ cipher = None
        /\ fresh' = fresh + 1
        /\ truth' = [truth EXCEPT !.pw = newPw]
        /\ spoiled' = spoiled \ {"conf"}
        /\ Returns("true")
        /\ UNCHANGED <<cipher, nonce, sealed>>
     \/ /\ cipher # None
        /\ DrawNonce(fresh + 1)
        /\ \/ /\ ~fails
              /\ cipher' = Seal(symKey', nonce', cipher.msg)
              /\ sealed' = sealed \cup {cipher'}
              /\ truth' = [truth EXCEPT !.pw = newPw]
              /\ spoiled' = spoiled \ {"conf"}
              /\ Returns("true")
           \/ /\ fails
              /\ cipher' = None
              /\ spoiled' = (spoiled \ {"conf"}) \cup {"cipher"}
              /\ Returns("error")
              /\ UNCHANGED <<truth, sealed>>
  /\ UNCHANGED records

(* asString(), and the program stores the result beside the records it     *)
(* keeps.                                                                  *)
AsString(kept) ==
  /\ Cardinality(kept) < MaxRecords
  /\ records' = kept \cup
       {[hashConfig |-> hashConfig, cipher |-> cipher, nonce |-> nonce,
         truth |-> truth, intact |-> spoiled = {}]}
  /\ Returns("true")
  /\ UNCHANGED <<object, fresh, truth, spoiled, sealed>>

-----------------------------------------------------------------------------
SecretNext ==
  \/ \E strength \in Strengths : New(strength)
  \/ \E r \in records : Load(r)
  \/ EraseSecret
  \/ SetSecretRefused
  \/ \E sec \in Secrets, fails \in BOOLEAN : SetSecret(sec, fails)
  \/ \E fails \in BOOLEAN : GetSecret(fails)
  \/ \E pw \in Passwords \cup {None} : SetPasswordRefused(pw)
  \/ \E pw \in Passwords : SetPasswordFails(pw)
  \/ \E pw \in Passwords : SetPassword(pw)
  \/ \E pw \in Passwords : SetPasswordUnchecked(pw)
  \/ \E pw \in Passwords \cup {None} : IsValidPassword(pw)
  \/ \E oldPw, newPw \in Passwords \cup {None} :
       ChangePasswordRefused(oldPw, newPw)
  \/ \E oldPw \in Passwords, strength \in Strengths :
       ChangePasswordHashFails(oldPw, strength)
  \/ \E oldPw, newPw \in Passwords, strength \in Strengths :
       ChangePasswordCopyFails(oldPw, newPw, strength)
  \/ \E oldPw, newPw \in Passwords, strength \in Strengths, fails \in BOOLEAN :
       ChangePassword(oldPw, newPw, strength, fails)
  \/ \E kept \in SUBSET records : AsString(kept)

SecretSpec == SecretInit /\ [][SecretNext]_secretVars

-----------------------------------------------------------------------------
(* Whoever holds the password gets the secret that was set last, and never *)
(* another one, whatever has failed.  As long as no failure has spoiled the *)
(* cipher (setSecret() or changePassword() that could not seal, a password *)
(* that could not be checked, a key that is not the password's), a password *)
(* that was accepted opens the cipher under the nonce the object holds, an *)
(* empty cipher means that there is no secret, and no call reports a       *)
(* password as wrong that was accepted before.                             *)
SecretKept ==
  /\ ret[1] = "secret" => ret[2] \in {truth.secret, None}
  /\ "cipher" \notin spoiled =>
       /\ pwClear # None =>
            IF cipher = None
              THEN truth.secret = None
              ELSE Opens(cipher, nonce, symKey) /\ cipher.msg = truth.secret
       /\ ret[1] = "secret" => ret[2] = truth.secret
       /\ ret[1] # "WrongPassword"

(* A stored record has the secret that was set last, whatever had failed.  *)
(* One that was stored with nothing spoiled opens with the password it was *)
(* stored under and with no other one, whatever happens to the object      *)
(* afterwards.                                                             *)
RecordsOpen ==
  \A r \in records : r.cipher # None =>
    /\ r.cipher.msg = r.truth.secret
    /\ r.intact => \A pw \in Passwords :
         Opens(r.cipher, r.nonce, PwHash(pw, r.hashConfig)) <=> pw = r.truth.pw

(* No nonce serves two messages under one key: not over a change of the    *)
(* secret, not over a change of the password, not after a record was       *)
(* loaded again, not after a failed encryption.                            *)
NonceOnce ==
  \A a, b \in sealed : (a.key = b.key /\ a.nonce = b.nonce) => a = b

=============================================================================
