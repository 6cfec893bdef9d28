---------------------------- MODULE ServiceCaches ----------------------------
(***************************************************************************)
(* What the services keep in the cache beside their rows: the key each     *)
(* cached read answers from, and for each write the keys whose rows it     *)
(* changes and the DEL commands it sends afterwards. They are the values   *)
(* of the constants of CacheAside.                                         *)
(***************************************************************************)

\* Users and profiles. One DEL takes several keys.
FindByIdWithCache == "user"
GetUserStatistics == "stats"
FindByUserIdWithCache == "profile"

PROFILE_UPDATED == {FindByIdWithCache, GetUserStatistics}

\* The profile is upserted with the user; its own key is not deleted.
UpdateProfile ==
    [changes |-> {FindByIdWithCache, FindByUserIdWithCache}, deletes |-> {PROFILE_UPDATED}]

UpdatePreferredTime == [changes |-> {FindByIdWithCache}, deletes |-> {PROFILE_UPDATED}]

\* also updateSupportMode and updateNotificationStyle
UpdateByUserId ==
    [changes |-> {FindByUserIdWithCache}, deletes |-> {PROFILE_UPDATED \cup {FindByUserIdWithCache}}]

\* Settings, a row and a key of each type.
GetSettingsByType == "settings"

CreateOrUpdateSettings == [changes |-> {GetSettingsByType}, deletes |-> {{GetSettingsByType}}]
DeleteSettingsByType == CreateOrUpdateSettings

\* Payment transactions: the row, the list of a user's rows and the sums over all of them.
\* Three DELs are sent at once.
FindTransactionById == "transaction"
FindTransactionsByUserId == "list"
GetEarningsOverview == "earnings"

InvalidateCache == {{FindTransactionById}, {FindTransactionsByUserId}, {GetEarningsOverview}}
Transactional == [changes |-> UNION InvalidateCache, deletes |-> InvalidateCache]

CreateTransaction == Transactional
UpdateStatus == Transactional
DeleteTransaction == Transactional

-----------------------------------------------------------------------------
ServiceWrites ==
    [updateProfile |-> UpdateProfile, updatePreferredTime |-> UpdatePreferredTime,
     updateByUserId |-> UpdateByUserId, createOrUpdateSettings |-> CreateOrUpdateSettings,
     deleteSettingsByType |-> DeleteSettingsByType, create |-> CreateTransaction,
     updateStatus |-> UpdateStatus, delete |-> DeleteTransaction]

\* The services share no key.
Services ==
    {{FindByIdWithCache, GetUserStatistics, FindByUserIdWithCache}, {GetSettingsByType},
     UNION InvalidateCache}
=============================================================================
