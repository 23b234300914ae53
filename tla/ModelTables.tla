----------------------------- MODULE ModelTables -----------------------------
(***************************************************************************)
(* The enum types and the tables the models of src/app/models declare, each*)
(* table with the statements that create it: its columns, then its indexes *)
(* and constraints.                                                        *)
(***************************************************************************)
EXTENDS SchemaOps

\* The closed sets the models store as native enum types.
RaceSize == {"TINY", "SMALL", "MEDIUM", "LARGE", "HUGE", "GARGANTUAN"}
AbilityScore == {"STR", "DEX", "CON", "INT", "WIS", "CHA"}
DiceType == {"D4", "D6", "D8", "D10", "D12", "D20", "D100"}
AttackType == {"MELEE_ATTACK", "RANGED_ATTACK"}
SpellLevel == {"CANTRIP", "LEVEL_1", "LEVEL_2", "LEVEL_3", "LEVEL_4", "LEVEL_5", "LEVEL_6", "LEVEL_7",
    "LEVEL_8", "LEVEL_9"}
SpellSchool == {"ABJURATION", "CONJURATION", "DIVINATION", "ENCHANTMENT", "EVOCATION", "ILLUSION",
    "NECROMANCY", "TRANSMUTATION"}
SpellRangeType == {"SELF", "TOUCH", "RANGED", "SIGHT", "UNLIMITED"}
DamageType == {"SLASHING", "PIERCING", "BLUDGEONING", "ACID", "COLD", "FIRE", "FORCE", "LIGHTNING", "NECROTIC",
    "POISON", "PSYCHIC", "RADIANT", "THUNDER"}
HealingTarget == {"HP", "TEMP_HP"}
ItemRarity == {"COMMON", "UNCOMMON", "RARE", "VERY_RARE", "LEGENDARY", "ARTIFACT", "NONE"}
FeatureSourceType == {"CLASS", "SUBCLASS", "RACE", "SUBRACE", "BACKGROUND", "FEAT", "OTHER"}
ArmorProficiency == {"LIGHT", "MEDIUM", "HEAVY", "SHIELD"}
WeaponProficiency == {"SIMPLE", "MARTIAL"}
ASILevelChoice == {"ASI", "FEAT"}
GrantSource == {"AUTO", "GM", "ASI"}
ConditionType == {"BLINDED", "CHARMED", "DEAFENED", "FRIGHTENED", "GRAPPLED", "INCAPACITATED", "INVISIBLE",
    "PARALYZED", "PETRIFIED", "POISONED", "PRONE", "RESTRAINED", "STUNNED", "UNCONSCIOUS", "EXHAUSTION"}
Component == {"VERBAL", "SOMATIC", "MATERIAL"}
ProficiencyType == {"SKILL", "SAVING_THROW", "ARMOR", "WEAPON"}
ProficiencySourceType == {"CLASS", "CLASS_CHOICE", "RACE", "BACKGROUND", "FEATURE", "FEATURE_CHOICE", "GM"}
ProficiencyAction == {"GRANT", "REVOKE"}
BackgroundSuggestionType == {"PERSONALITY_TRAIT", "IDEAL", "BOND", "FLAW"}
ChoiceType == {"SKILL", "SPELL", "ABILITY_SCORE", "SAVING_THROW", "ARMOR", "WEAPON"}
ArticleStatus == {"DRAFT", "IN_REVIEW", "PUBLISHED", "ARCHIVED"}
ArticleVisibility == {"PUBLIC", "GM_ONLY"}
ArticleProposalStatus == {"PENDING", "ACCEPTED", "REJECTED", "WITHDRAWN"}
EnumTypes ==
    "race_size" :> RaceSize @@ "ability_score" :> AbilityScore @@ "hit_dice" :> DiceType @@
    "attack_type" :> AttackType @@ "spell_level" :> SpellLevel @@ "spell_school" :> SpellSchool @@
    "spell_range_type" :> SpellRangeType @@ "damage_type" :> DamageType @@ "healing_target" :> HealingTarget @@
    "item_rarity" :> ItemRarity @@ "feature_source_type" :> FeatureSourceType @@
    "armor_proficiency" :> ArmorProficiency @@ "weapon_proficiency" :> WeaponProficiency @@
    "asi_choice" :> ASILevelChoice @@ "feature_grant_source" :> GrantSource @@
    "condition_type" :> ConditionType @@ "spell_component" :> Component @@
    "proficiency_type" :> ProficiencyType @@ "proficiency_source_type" :> ProficiencySourceType @@
    "proficiency_action" :> ProficiencyAction @@ "background_suggestion_type" :> BackgroundSuggestionType @@
    "choice_type" :> ChoiceType @@ "article_status" :> ArticleStatus @@
    "article_visibility" :> ArticleVisibility @@ "article_proposal_status" :> ArticleProposalStatus

Skill == <<
    Table("skills", {"description", "id", "name"}, {<<"ability", "ability_score">>}, {}), UniqueIx("skills", "name")>>
Tag == <<Table("tags", {"id", "name"}, {}, {}), Key("tags", "uq_tags_name_lower", {"name"}, "unique")>>
User == <<
    Table("users", {"bio", "created_at", "discord", "email", "hashed_password", "id", "last_login", "phone", "role",
        "telegram", "updated_at", "username"}, {}, {}),
    Key("users", "users_username_key", {"username"}, "unique"), Key("users", "ck_users_role", {"role"}, "check"),
    Key("users", "uq_users_email_lower", {"email"}, "unique")>>
ArticleSubtype == <<
    Table("article_subtypes", {"article_type", "id", "name"}, {}, {}), Ix("article_subtypes", {"article_type"}),
    Key("article_subtypes", "uq_article_subtypes_type_name_lower", {"article_type", "name"}, "unique")>>
Article == <<
    Table("articles", {"article_type", "body_markdown", "created_at", "excerpt", "id", "published_at", "slug",
        "title", "updated_at", "version"}, {<<"path", "ltree">>, <<"status", "article_status">>,
        <<"visibility", "article_visibility">>}, {<<"subtype_id", "article_subtypes", "set_null">>,
        <<"parent_id", "articles", "set_null">>, <<"author_id", "users", "set_null">>,
        <<"reviewed_by_id", "users", "set_null">>}),
    Generated("articles", "search_vector", "title_excerpt_and_body_weighted"),
    Generated("articles", "search_vector_gm", "the_GM_text"),
    Ix("articles", {"article_type", "author_id", "parent_id", "reviewed_by_id", "status", "subtype_id", "title",
        "visibility"}),
    UniqueIx("articles", "slug"), SearchIx("articles", "path", "gist"), SearchIx("articles", "search_vector", "gin"),
    SearchIx("articles", "search_vector_gm", "gin"), Key("articles", "ix_articles_title_trgm", {"title"}, "gin"),
    Key("articles", "ix_articles_public_title", {"id", "status", "title", "visibility"}, "index"),
    Key("articles", "ix_articles_public_published", {"created_at", "id", "published_at", "status", "visibility"},
        "index")>>
ArticleTags == <<
    Table("article_tags", {}, {}, {<<"article_id", "articles", "cascade">>, <<"tag_id", "tags", "restrict">>}),
    Ix("article_tags", {"tag_id"})>>
ArticleImage == <<
    Table("article_images", {"created_at", "id", "image_url", "storage_key"}, {},
        {<<"article_id", "articles", "cascade">>}),
    Ix("article_images", {"article_id"})>>
ArticleProposal == <<
    Table("article_proposals", {"accepted_version", "article_type", "base_version", "body_markdown", "change_note",
        "created_at", "excerpt", "id", "review_note", "reviewed_at", "subtype_id", "title"},
        {<<"visibility", "article_visibility">>, <<"status", "article_proposal_status">>},
        {<<"article_id", "articles", "cascade">>, <<"proposer_id", "users", "set_null">>,
        <<"reviewer_id", "users", "set_null">>}),
    Ix("article_proposals", {"article_id", "proposer_id"})>>
ArticleRelation == <<
    Table("article_relations", {"created_at", "id", "note", "relation_type"},
        {<<"visibility", "article_visibility">>}, {<<"from_article_id", "articles", "cascade">>,
        <<"to_article_id", "articles", "cascade">>}),
    Ix("article_relations", {"relation_type", "to_article_id"}),
    Key("article_relations", "uq_article_relation", {"from_article_id", "relation_type", "to_article_id"}, "unique")>>
ArticleRevision == <<
    Table("article_revisions", {"article_type", "body_markdown", "change_note", "content_hash", "created_at",
        "excerpt", "id", "subtype_id", "title", "version"}, {<<"visibility", "article_visibility">>},
        {<<"article_id", "articles", "cascade">>, <<"editor_id", "users", "set_null">>,
        <<"reviewer_id", "users", "set_null">>}),
    Ix("article_revisions", {"editor_id", "reviewer_id"}),
    Key("article_revisions", "uq_article_revisions_article_version", {"article_id", "version"}, "unique")>>
Background == <<
    Table("backgrounds", {"description", "id", "name", "starting_gold"}, {}, {}), UniqueIx("backgrounds", "name")>>
BackgroundSkills == <<
    Table("background_skills", {}, {}, {<<"background_id", "backgrounds", "cascade">>,
        <<"skill_id", "skills", "restrict">>}),
    Ix("background_skills", {"skill_id"})>>
BackgroundTags == <<
    Table("background_tags", {}, {}, {<<"background_id", "backgrounds", "cascade">>,
        <<"tag_id", "tags", "restrict">>}),
    Ix("background_tags", {"tag_id"})>>
BackgroundSuggestion == <<
    Table("background_suggestions", {"id", "text"}, {<<"suggestion_type", "background_suggestion_type">>},
        {<<"background_id", "backgrounds", "cascade">>}),
    Ix("background_suggestions", {"background_id"})>>
PublicCampaign == <<
    Table("public_campaigns", {"created_at", "description_markdown", "id", "pitch", "published_at", "slug", "status",
        "title", "updated_at"}, {}, {<<"author_id", "users", "set_null">>}),
    Ix("public_campaigns", {"author_id", "status"}), UniqueIx("public_campaigns", "slug"),
    Key("public_campaigns", "ix_public_campaigns_title_trgm", {"title"}, "gin"),
    Key("public_campaigns", "ix_public_campaigns_pitch_trgm", {"pitch"}, "gin")>>
Campaign == <<
    Table("campaigns", {"archived_at", "created_at", "description_markdown", "id", "status", "title", "updated_at"},
        {}, {<<"owner_id", "users", "set_null">>, <<"public_campaign_id", "public_campaigns", "set_null">>}),
    Ix("campaigns", {"owner_id", "public_campaign_id", "status"})>>
Class == <<
    Table("classes", {"description", "id", "image_url", "name", "skill_choice_count"}, {<<"hit_dice", "hit_dice">>,
        <<"spellcasting_ability", "ability_score">>}, {}),
    UniqueIx("classes", "name")>>
Subclass == <<
    Table("subclasses", {"description", "id", "image_url", "name"}, {}, {<<"class_id", "classes", "cascade">>}),
    Ix("subclasses", {"name"}), Key("subclasses", "uq_subclass_class_id_name", {"class_id", "name"}, "unique")>>
Race == <<
    Table("races", {"description", "id", "image_url", "name", "speed"}, {<<"size", "race_size">>}, {}),
    UniqueIx("races", "name"), Key("races", "ck_races_speed", {"speed"}, "check")>>
Subrace == <<
    Table("subraces", {"description", "id", "image_url", "name"}, {}, {<<"race_id", "races", "cascade">>}),
    Ix("subraces", {"name"}), Key("subraces", "uq_subrace_race_id_name", {"name", "race_id"}, "unique")>>
Character == <<
    Table("characters", {"armor_class", "bonds", "charisma", "constitution", "created_at", "current_hp", "dexterity",
        "flaws", "id", "ideals", "inspiration", "intelligence", "level", "max_hp", "money_copper", "money_gold",
        "money_silver", "name", "notes", "personality_traits", "public_visibility", "shield", "speed", "strength",
        "temp_hp", "updated_at", "wisdom"}, {}, {<<"owner_id", "users", "cascade">>,
        <<"class_id", "classes", "restrict">>, <<"subclass_id", "subclasses", "set_null">>,
        <<"race_id", "races", "set_null">>, <<"subrace_id", "subraces", "set_null">>,
        <<"background_id", "backgrounds", "set_null">>}),
    Ix("characters", {"background_id", "class_id", "name", "race_id", "subclass_id", "subrace_id"}),
    Key("characters", "check_character_level_range", {"level"}, "check"),
    Key("characters", "check_current_hp_nonnegative", {"current_hp"}, "check"),
    Key("characters", "check_max_hp_nonnegative", {"max_hp"}, "check"),
    Key("characters", "check_temp_hp_nonnegative", {"temp_hp"}, "check"),
    Key("characters", "check_inspiration_range", {"inspiration"}, "check"),
    Key("characters", "ck_characters_current_hp_le_max_hp", {"current_hp", "max_hp"}, "check"),
    Key("characters", "ck_characters_combat_stats", {"armor_class", "shield", "speed"}, "check"),
    Key("characters", "ck_characters_money", {"money_copper", "money_gold", "money_silver"}, "check"),
    Key("characters", "ix_characters_owner_id_name", {"id", "name", "owner_id"}, "index"),
    Key("characters", "ix_characters_name_trgm", {"name"}, "gin")>>
CampaignCharacter == <<
    Table("campaign_characters", {"ended_at", "id", "joined_at", "status"}, {},
        {<<"campaign_id", "campaigns", "cascade">>, <<"character_id", "characters", "cascade">>,
        <<"user_id", "users", "cascade">>}),
    Ix("campaign_characters", {"character_id", "user_id"}),
    Key("campaign_characters", "ix_campaign_characters_campaign_status", {"campaign_id", "status"}, "index"),
    Key("campaign_characters", "uq_campaign_characters_one_active", {"character_id", "status"}, "unique")>>
CampaignNote == <<
    Table("campaign_notes", {"body_markdown", "created_at", "id", "title", "updated_at"}, {},
        {<<"campaign_id", "campaigns", "cascade">>}),
    Ix("campaign_notes", {"campaign_id"})>>
CampaignReview == <<
    Table("campaign_reviews", {"body", "created_at", "edited_at", "hidden_at", "id"}, {},
        {<<"campaign_id", "campaigns", "cascade">>, <<"author_id", "users", "cascade">>}),
    Ix("campaign_reviews", {"author_id"}),
    Key("campaign_reviews", "uq_campaign_reviews_author", {"author_id", "campaign_id"}, "unique")>>
CampaignSession == <<
    Table("campaign_sessions", {"chronicle_markdown", "created_at", "id", "number", "published_at", "scheduled_at",
        "status", "title", "updated_at"}, {}, {<<"campaign_id", "campaigns", "cascade">>}),
    Key("campaign_sessions", "uq_campaign_sessions_number", {"campaign_id", "number"}, "unique"),
    Key("campaign_sessions", "ix_campaign_sessions_campaign_scheduled", {"campaign_id", "scheduled_at"}, "index")>>
SessionReview == <<
    Table("session_reviews", {"body", "created_at", "edited_at", "hidden_at", "id", "visible_to_table"}, {},
        {<<"session_id", "campaign_sessions", "cascade">>, <<"author_id", "users", "cascade">>}),
    Ix("session_reviews", {"author_id"}),
    Key("session_reviews", "uq_session_reviews_author", {"author_id", "session_id"}, "unique")>>
CampaignSessionAttendance == <<
    Table("campaign_session_attendance", {}, {}, {<<"session_id", "campaign_sessions", "cascade">>,
        <<"participation_id", "campaign_characters", "cascade">>}),
    Ix("campaign_session_attendance", {"participation_id"})>>
PublicCampaignTags == <<
    Table("public_campaign_tags", {}, {}, {<<"public_campaign_id", "public_campaigns", "cascade">>,
        <<"tag_id", "tags", "restrict">>}),
    Ix("public_campaign_tags", {"tag_id"})>>
PublicCampaignArticle == <<
    Table("public_campaign_articles", {"id", "note", "position"}, {},
        {<<"public_campaign_id", "public_campaigns", "cascade">>, <<"article_id", "articles", "cascade">>}),
    Ix("public_campaign_articles", {"article_id"}),
    Key("public_campaign_articles", "uq_public_campaign_articles_article", {"article_id", "public_campaign_id"},
        "unique")>>
CharacterAbilityScore == <<
    Table("character_ability_scores", {"charisma_total", "constitution_total", "dexterity_total",
        "intelligence_total", "strength_total", "updated_at", "wisdom_total"}, {},
        {<<"character_id", "characters", "cascade">>})>>
Feature == <<
    Table("features", {"description", "has_choices", "has_static_effects", "id", "level", "min_level", "name",
        "prerequisite_description", "prerequisite_minimum_score"}, {<<"source_type", "feature_source_type">>,
        <<"prerequisite_ability", "ability_score">>}, {<<"class_id", "classes", "cascade">>,
        <<"subclass_id", "subclasses", "cascade">>, <<"race_id", "races", "cascade">>,
        <<"subrace_id", "subraces", "cascade">>, <<"background_id", "backgrounds", "cascade">>}),
    Ix("features", {"background_id", "class_id", "name", "race_id", "subclass_id", "subrace_id"}),
    Key("features", "uq_features_feat_name", {"name", "source_type"}, "unique")>>
FeatureChoiceGroup == <<
    Table("feature_choice_groups", {"id", "pick_count", "sort_order"}, {<<"choice_type", "choice_type">>},
        {<<"feature_id", "features", "cascade">>}),
    Ix("feature_choice_groups", {"feature_id"}),
    Key("feature_choice_groups", "check_feature_choice_group_pick_count_positive", {"pick_count"}, "check"),
    Key("feature_choice_groups", "ck_feature_choice_group_pick_count_max", {"pick_count"}, "check")>>
FeatureChoiceOption == <<
    Table("feature_choice_options", {"id", "sort_order"}, {}, {<<"group_id", "feature_choice_groups", "cascade">>}),
    Ix("feature_choice_options", {"group_id"})>>
FeatureAbilityScoreEffect == <<
    Table("feature_ability_score_effects", {"amount", "id", "new_cap"}, {<<"ability", "ability_score">>},
        {<<"feature_id", "features", "cascade">>, <<"choice_option_id", "feature_choice_options", "cascade">>}),
    Ix("feature_ability_score_effects", {"choice_option_id", "feature_id"}),
    Key("feature_ability_score_effects", "ck_feature_ability_score_effect_parent", {"choice_option_id",
        "feature_id"}, "check"),
    Key("feature_ability_score_effects", "ck_feature_ability_score_effect_amount", {"amount"}, "check")>>
CharacterASIChoice == <<
    Table("character_asi_choices", {"applied_to_base", "class_level", "id"}, {<<"choice_type", "asi_choice">>},
        {<<"character_id", "characters", "cascade">>, <<"feat_id", "features", "restrict">>,
        <<"ability_score_increase_id", "feature_ability_score_effects", "set_null">>}),
    Ix("character_asi_choices", {"ability_score_increase_id", "feat_id"}),
    Key("character_asi_choices", "uq_character_asi_choice_level", {"character_id", "class_level"}, "unique"),
    Key("character_asi_choices", "ck_character_asi_choice_feat_has_feat", {"choice_type", "feat_id"}, "check"),
    Key("character_asi_choices", "ck_character_asi_choice_level", {"class_level"}, "check")>>
CharacterASIChoiceIncrease == <<
    Table("character_asi_choice_increases", {"amount", "id"}, {<<"ability", "ability_score">>},
        {<<"character_asi_choice_id", "character_asi_choices", "cascade">>}),
    Ix("character_asi_choice_increases", {"character_asi_choice_id"}),
    Key("character_asi_choice_increases", "uq_character_asi_inc_ability", {"ability", "character_asi_choice_id"},
        "unique"),
    Key("character_asi_choice_increases", "ck_character_asi_increase_amount", {"amount"}, "check")>>
Attack == <<
    Table("attacks", {"bonus_attack", "bonus_damage", "damage_dice_count", "id", "is_proficient", "name", "notes",
        "range"}, {<<"attack_type", "attack_type">>, <<"ability", "ability_score">>,
        <<"damage_dice_type", "hit_dice">>, <<"damage_type", "damage_type">>},
        {<<"character_id", "characters", "cascade">>}),
    Ix("attacks", {"character_id"}), Key("attacks", "ck_attacks_damage_dice_count", {"damage_dice_count"}, "check")>>
CharacterBackstory == <<
    Table("character_backstories", {"content"}, {}, {<<"character_id", "characters", "cascade">>}),
    Key("character_backstories", "check_character_backstory_max_length", {"content"}, "check")>>
CharacterCondition == <<
    Table("character_conditions", {"exhaustion_level", "source"}, {<<"condition", "condition_type">>},
        {<<"character_id", "characters", "cascade">>}),
    Key("character_conditions", "check_character_condition_exhaustion_level_range", {"exhaustion_level"}, "check")>>
CharacterFeature == <<
    Table("character_features", {"id"}, {<<"grant_source", "feature_grant_source">>},
        {<<"character_id", "characters", "cascade">>, <<"feature_id", "features", "cascade">>}),
    Ix("character_features", {"feature_id"}),
    Key("character_features", "uq_character_features_character_feature", {"character_id", "feature_id"}, "unique")>>
CharacterFeatureChoice == <<
    Table("character_feature_choices", {"id"}, {}, {<<"character_feature_id", "character_features", "cascade">>,
        <<"choice_group_id", "feature_choice_groups", "restrict">>,
        <<"choice_option_id", "feature_choice_options", "restrict">>}),
    Ix("character_feature_choices", {"choice_group_id", "choice_option_id"}),
    Key("character_feature_choices", "uq_character_feature_choice_option", {"character_feature_id",
        "choice_group_id", "choice_option_id"}, "unique")>>
Item == <<
    Table("items", {"armor_class_base", "armor_class_dex_bonus", "armor_class_max_dex_bonus", "cost_gold",
        "damage_dice_count", "description", "id", "item_type", "name", "requires_attunement", "stealth_disadvantage",
        "strength_requirement", "weapon_properties", "weight"}, {<<"rarity", "item_rarity">>,
        <<"damage_dice_type", "hit_dice">>, <<"damage_type", "damage_type">>}, {}),
    UniqueIx("items", "name")>>
CharacterItem == <<
    Table("character_items", {"id", "quantity"}, {}, {<<"character_id", "characters", "cascade">>,
        <<"item_id", "items", "restrict">>}),
    Ix("character_items", {"character_id", "item_id"}),
    Key("character_items", "check_character_item_quantity_nonnegative", {"quantity"}, "check")>>
CharacterMaxLevel == <<
    Table("character_max_levels", {"max_level"}, {}, {<<"character_id", "characters", "cascade">>}),
    Key("character_max_levels", "check_character_max_level_range", {"max_level"}, "check")>>
CharacterProficiency == <<
    Table("character_proficiencies", {"created_at", "id", "is_expertise"},
        {<<"proficiency_type", "proficiency_type">>, <<"ability", "ability_score">>,
        <<"armor_type", "armor_proficiency">>, <<"weapon_category", "weapon_proficiency">>,
        <<"source_type", "proficiency_source_type">>, <<"action", "proficiency_action">>},
        {<<"character_id", "characters", "cascade">>, <<"skill_id", "skills", "cascade">>,
        <<"item_id", "items", "cascade">>, <<"actor_user_id", "users", "set_null">>}),
    Ix("character_proficiencies", {"actor_user_id", "item_id", "skill_id"}),
    Key("character_proficiencies", "ck_character_proficiency_discriminator_shape", {"ability", "armor_type",
        "item_id", "proficiency_type", "skill_id", "weapon_category"}, "check"),
    Key("character_proficiencies", "ix_character_proficiency_character_type", {"character_id", "proficiency_type"},
        "index"),
    Key("character_proficiencies", "uq_character_proficiency_gm_skill", {"character_id", "proficiency_type",
        "skill_id", "source_type"}, "unique"),
    Key("character_proficiencies", "uq_character_proficiency_gm_save", {"ability", "character_id",
        "proficiency_type", "source_type"}, "unique"),
    Key("character_proficiencies", "uq_character_proficiency_gm_armor", {"armor_type", "character_id",
        "proficiency_type", "source_type"}, "unique"),
    Key("character_proficiencies", "uq_character_proficiency_gm_weapon_category", {"character_id",
        "proficiency_type", "source_type", "weapon_category"}, "unique"),
    Key("character_proficiencies", "uq_character_proficiency_gm_weapon_item", {"character_id", "item_id",
        "proficiency_type", "source_type"}, "unique")>>
Spell == <<
    Table("spells", {"cast_time", "components", "damage_dice_count", "description", "duration", "healing_dice_count",
        "higher_levels", "id", "is_concentration", "is_material_consumed", "is_ritual", "material", "name",
        "range_value"}, {<<"school", "spell_school">>, <<"level", "spell_level">>,
        <<"range_type", "spell_range_type">>, <<"attack_type", "attack_type">>, <<"save_stat", "ability_score">>,
        <<"damage_type", "damage_type">>, <<"damage_dice_type", "hit_dice">>, <<"healing_target", "healing_target">>,
        <<"healing_dice_type", "hit_dice">>}, {}),
    Ix("spells", {"level"}), UniqueIx("spells", "name")>>
CharacterSpell == <<
    Table("character_spells", {}, {}, {<<"character_id", "characters", "cascade">>,
        <<"spell_id", "spells", "cascade">>}),
    Ix("character_spells", {"spell_id"})>>
CharacterSpellSlot == <<
    Table("character_spell_slots", {"total", "used"}, {<<"spell_level", "spell_level">>},
        {<<"character_id", "characters", "cascade">>}),
    Key("character_spell_slots", "check_spell_slot_used_nonnegative", {"used"}, "check"),
    Key("character_spell_slots", "check_spell_slot_used_not_exceeding_total", {"total", "used"}, "check")>>
CharacterGrantedSpell == <<
    Table("character_granted_spells", {"id"}, {}, {<<"character_id", "characters", "cascade">>,
        <<"spell_id", "spells", "restrict">>}),
    Ix("character_granted_spells", {"character_id", "spell_id"}),
    Key("character_granted_spells", "uq_character_granted_spell", {"character_id", "spell_id"}, "unique")>>
ClassAvailableSkills == <<
    Table("class_available_skills", {}, {}, {<<"class_id", "classes", "cascade">>,
        <<"skill_id", "skills", "restrict">>}),
    Ix("class_available_skills", {"skill_id"})>>
ClassSavingThrow == <<
    Table("class_saving_throws", {}, {<<"ability", "ability_score">>}, {<<"class_id", "classes", "cascade">>})>>
ClassArmorProficiency == <<
    Table("class_armor_proficiencies", {}, {<<"armor_type", "armor_proficiency">>},
        {<<"class_id", "classes", "cascade">>})>>
ClassWeaponProficiency == <<
    Table("class_weapon_proficiencies", {}, {<<"weapon_category", "weapon_proficiency">>},
        {<<"class_id", "classes", "cascade">>})>>
FeatureSkillProficiencyEffect == <<
    Table("feature_skill_proficiency_effects", {"grants_expertise", "id"}, {},
        {<<"feature_id", "features", "cascade">>, <<"choice_option_id", "feature_choice_options", "cascade">>,
        <<"skill_id", "skills", "restrict">>}),
    Ix("feature_skill_proficiency_effects", {"choice_option_id", "feature_id", "skill_id"}),
    Key("feature_skill_proficiency_effects", "ck_feature_skill_proficiency_effect_parent", {"choice_option_id",
        "feature_id"}, "check"),
    Key("feature_skill_proficiency_effects", "ck_feature_skill_proficiency_fixed_requires_skill", {"feature_id",
        "skill_id"}, "check")>>
FeatureSavingThrowEffect == <<
    Table("feature_saving_throw_effects", {"id"}, {<<"ability", "ability_score">>},
        {<<"feature_id", "features", "cascade">>, <<"choice_option_id", "feature_choice_options", "cascade">>}),
    Ix("feature_saving_throw_effects", {"choice_option_id", "feature_id"}),
    Key("feature_saving_throw_effects", "ck_feature_saving_throw_effect_parent", {"choice_option_id", "feature_id"},
        "check")>>
FeatureArmorProficiencyEffect == <<
    Table("feature_armor_proficiency_effects", {"id"}, {<<"armor_type", "armor_proficiency">>},
        {<<"feature_id", "features", "cascade">>, <<"choice_option_id", "feature_choice_options", "cascade">>}),
    Ix("feature_armor_proficiency_effects", {"choice_option_id", "feature_id"}),
    Key("feature_armor_proficiency_effects", "ck_feature_armor_proficiency_effect_parent", {"choice_option_id",
        "feature_id"}, "check")>>
FeatureWeaponProficiencyEffect == <<
    Table("feature_weapon_proficiency_effects", {"id"}, {<<"weapon_category", "weapon_proficiency">>},
        {<<"feature_id", "features", "cascade">>, <<"choice_option_id", "feature_choice_options", "cascade">>,
        <<"item_id", "items", "restrict">>}),
    Ix("feature_weapon_proficiency_effects", {"choice_option_id", "feature_id", "item_id"}),
    Key("feature_weapon_proficiency_effects", "ck_feature_weapon_proficiency_effect_parent", {"choice_option_id",
        "feature_id"}, "check"),
    Key("feature_weapon_proficiency_effects", "ck_feature_weapon_proficiency_one_target", {"item_id",
        "weapon_category"}, "check")>>
FeatureSpellGrantEffect == <<
    Table("feature_spell_grant_effects", {"id"}, {}, {<<"feature_id", "features", "cascade">>,
        <<"choice_option_id", "feature_choice_options", "cascade">>, <<"spell_id", "spells", "restrict">>}),
    Ix("feature_spell_grant_effects", {"choice_option_id", "feature_id", "spell_id"}),
    Key("feature_spell_grant_effects", "ck_feature_spell_grant_effect_parent", {"choice_option_id", "feature_id"},
        "check")>>
ClassSpellSlotProgression == <<
    Table("class_spell_slot_progressions", {"class_level", "slots"}, {<<"spell_level", "spell_level">>},
        {<<"class_id", "classes", "cascade">>}),
    Key("class_spell_slot_progressions", "check_progression_class_level_range", {"class_level"}, "check"),
    Key("class_spell_slot_progressions", "check_progression_slots_nonnegative", {"slots"}, "check")>>
SourceItemChoiceGroup == <<
    Table("source_item_choice_groups", {"id", "pick_count", "sort_order"},
        {<<"source_type", "feature_source_type">>}, {<<"class_id", "classes", "cascade">>,
        <<"background_id", "backgrounds", "cascade">>}),
    Ix("source_item_choice_groups", {"background_id", "class_id", "source_type"}),
    Key("source_item_choice_groups", "check_choice_group_pick_count_positive", {"pick_count"}, "check")>>
SourceItemChoiceOption == <<
    Table("source_item_choice_options", {"id", "quantity", "sort_order"}, {},
        {<<"group_id", "source_item_choice_groups", "cascade">>, <<"item_id", "items", "restrict">>}),
    Ix("source_item_choice_options", {"group_id", "item_id"}),
    Key("source_item_choice_options", "check_choice_option_quantity_positive", {"quantity"}, "check")>>
SourceItem == <<
    Table("source_items", {"id", "quantity"}, {<<"source_type", "feature_source_type">>},
        {<<"class_id", "classes", "cascade">>, <<"background_id", "backgrounds", "cascade">>,
        <<"item_id", "items", "restrict">>}),
    Ix("source_items", {"background_id", "class_id", "item_id", "source_type"}),
    Key("source_items", "check_source_item_quantity_nonnegative", {"quantity"}, "check")>>
RaceSkills == <<
    Table("race_skills", {}, {}, {<<"race_id", "races", "cascade">>, <<"skill_id", "skills", "restrict">>}),
    Ix("race_skills", {"skill_id"})>>
RaceTags == <<
    Table("race_tags", {}, {}, {<<"race_id", "races", "cascade">>, <<"tag_id", "tags", "restrict">>}),
    Ix("race_tags", {"tag_id"})>>
RaceAbilityBonus == <<
    Table("race_ability_bonuses", {"bonus"}, {<<"ability", "ability_score">>}, {<<"race_id", "races", "cascade">>}),
    Key("race_ability_bonuses", "ck_race_ability_bonus_range", {"bonus"}, "check")>>
SubraceTags == <<
    Table("subrace_tags", {}, {}, {<<"subrace_id", "subraces", "cascade">>, <<"tag_id", "tags", "restrict">>}),
    Ix("subrace_tags", {"tag_id"})>>
SubraceAbilityBonus == <<
    Table("subrace_ability_bonuses", {"bonus"}, {<<"ability", "ability_score">>},
        {<<"subrace_id", "subraces", "cascade">>}),
    Key("subrace_ability_bonuses", "ck_subrace_ability_bonus_range", {"bonus"}, "check")>>
SpellClasses == <<
    Table("spell_classes", {}, {}, {<<"spell_id", "spells", "cascade">>, <<"class_id", "classes", "cascade">>}),
    Ix("spell_classes", {"class_id"})>>
SpellSubclasses == <<
    Table("spell_subclasses", {}, {}, {<<"spell_id", "spells", "cascade">>,
        <<"subclass_id", "subclasses", "cascade">>}),
    Ix("spell_subclasses", {"subclass_id"})>>
SpellRaces == <<
    Table("spell_races", {}, {}, {<<"spell_id", "spells", "cascade">>, <<"race_id", "races", "cascade">>}),
    Ix("spell_races", {"race_id"})>>
SpellSubraces == <<
    Table("spell_subraces", {}, {}, {<<"spell_id", "spells", "cascade">>, <<"subrace_id", "subraces", "cascade">>}),
    Ix("spell_subraces", {"subrace_id"})>>

Models == <<
    Skill, Tag, User, ArticleSubtype, Article, ArticleTags, ArticleImage, ArticleProposal, ArticleRelation,
    ArticleRevision, Background, BackgroundSkills, BackgroundTags, BackgroundSuggestion, PublicCampaign,
    Campaign, Class, Subclass, Race, Subrace, Character, CampaignCharacter, CampaignNote, CampaignReview,
    CampaignSession, SessionReview, CampaignSessionAttendance, PublicCampaignTags, PublicCampaignArticle,
    CharacterAbilityScore, Feature, FeatureChoiceGroup, FeatureChoiceOption, FeatureAbilityScoreEffect,
    CharacterASIChoice, CharacterASIChoiceIncrease, Attack, CharacterBackstory, CharacterCondition,
    CharacterFeature, CharacterFeatureChoice, Item, CharacterItem, CharacterMaxLevel, CharacterProficiency,
    Spell, CharacterSpell, CharacterSpellSlot, CharacterGrantedSpell, ClassAvailableSkills, ClassSavingThrow,
    ClassArmorProficiency, ClassWeaponProficiency, FeatureSkillProficiencyEffect, FeatureSavingThrowEffect,
    FeatureArmorProficiencyEffect, FeatureWeaponProficiencyEffect, FeatureSpellGrantEffect,
    ClassSpellSlotProgression, SourceItemChoiceGroup, SourceItemChoiceOption, SourceItem, RaceSkills,
    RaceTags, RaceAbilityBonus, SubraceTags, SubraceAbilityBonus, SpellClasses, SpellSubclasses, SpellRaces,
    SpellSubraces>>

\* A table as its model declares it, and the tables of all the models.
Declared(model) ==
    FoldLeft(LAMBDA tb, o : Altered(o, tb),
             [cols |-> model[1].cols, keys |-> << >>, refs |-> model[1].refs], Tail(model))
Metadata == [t \in {m[1].t : m \in Range(Models)} |-> Declared(CHOOSE m \in Range(Models) : m[1].t = t)]
=============================================================================
