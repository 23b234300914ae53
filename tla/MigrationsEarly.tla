--------------------------- MODULE MigrationsEarly ---------------------------
(***************************************************************************)
(* The revisions of src/migrations/versions, from the empty database to the*)
(* 39th.  Up_ and Down_ of a revision are the statements of its upgrade()  *)
(* and downgrade(), in their order, without those that change rows only    *)
(* (save that an UPDATE a later SET NOT NULL needs is kept).               *)
(***************************************************************************)
EXTENDS SchemaOps

\* 1: Install PostgreSQL extensions.
Up_0001 == <<Extensions({"btree_gin", "pg_trgm"})>>
\* Back to 0.
Down_0001 == <<DropTypes({"btree_gin", "pg_trgm"})>>

\* 2: Initial schema: users, races, characters, attacks, spells.
Up_0002_players == <<
    Table("users", {"created_at", "email", "hashed_password", "id", "last_login", "role", "updated_at", "username"},
        {}, {}),
    Key("users", "check_user_role", {"role"}, "check"), Key("users", "users_username_key", {"username"}, "unique"),
    Ix("users", {"id"}), UniqueIx("users", "email"),
    Table("races", {"ability_bonuses", "description", "granted_skills", "id", "is_homebrew", "name", "size", "speed",
        "traits"}, {}, {}),
    Key("races", "races_name_key", {"name"}, "unique"), UniqueIx("races", "name"),
    Key("races", "idx_race_name_trgm", {"name"}, "gin"),
    Table("characters", {"armor_class", "backstory", "character_class", "charisma", "constitution", "created_at",
        "current_hp", "dexterity", "feats", "has_jack_of_all_trades", "hit_dice", "id", "image_path",
        "initiative_bonus", "intelligence", "inventory", "level", "max_hp", "money_copper", "money_gold",
        "money_silver", "name", "notes", "passive_perception_bonus", "proficiencies", "saving_throw_proficiencies",
        "shield", "skill_proficiencies", "speed", "spell_ability", "spell_attack_misc_bonus", "spell_dc_misc_bonus",
        "spell_slots", "strength", "subclass", "temp_hp", "traits", "updated_at", "wisdom"}, {},
        {<<"owner_id", "users", "cascade">>, <<"race_id", "races", "set_null">>}),
    Key("characters", "check_character_level_range", {"level"}, "check"),
    Key("characters", "check_current_hp_nonnegative", {"current_hp"}, "check"),
    Key("characters", "check_max_hp_nonnegative", {"max_hp"}, "check"),
    Ix("characters", {"name", "owner_id", "race_id"}), Key("characters", "idx_character_name_trgm", {"name"}, "gin")>>
\* 2, its spells.
Up_0002_spells == <<
    Table("spells", {"attack_type", "cast_time", "components", "damage_dice", "damage_type", "description",
        "duration", "higher_levels", "id", "is_concentration", "is_ritual", "level", "material", "name",
        "range_type", "range_value", "save_stat", "school"}, {}, {}),
    Key("spells", "spells_name_key", {"name"}, "unique"), UniqueIx("spells", "name"), Ix("spells", {"level"}),
    Key("spells", "idx_spell_level", {"level"}, "index"),
    Table("attacks", {"ability", "attack_type", "bonus_attack", "bonus_damage", "damage_dice", "damage_type", "id",
        "is_proficient", "name", "notes", "range"}, {}, {<<"character_id", "characters", "cascade">>}),
    Ix("attacks", {"character_id"}),
    Table("character_spells", {}, {}, {<<"character_id", "characters", "cascade">>,
        <<"spell_id", "spells", "cascade">>}),
    Key("character_spells", "idx_character_spells_character_id", {"character_id"}, "index"),
    Key("character_spells", "idx_character_spells_spell_id", {"spell_id"}, "index")>>
Up_0002 == Up_0002_players \o Up_0002_spells
\* Back to 1.
Down_0002 == <<
    DropKey("character_spells", "idx_character_spells_spell_id"),
    DropKey("character_spells", "idx_character_spells_character_id"), DropTables(<<"character_spells">>),
    DropIx("attacks", {"character_id"}), DropTables(<<"attacks">>), DropKey("spells", "idx_spell_level"),
    DropIx("spells", {"level", "name"}), DropTables(<<"spells">>), DropKey("characters", "idx_character_name_trgm"),
    DropIx("characters", {"name", "owner_id", "race_id"}), DropTables(<<"characters">>),
    DropKey("races", "idx_race_name_trgm"), DropIx("races", {"name"}), DropTables(<<"races">>),
    DropIx("users", {"email", "id"}), DropTables(<<"users">>)>>

\* 3: Fix role constraint to gm/player and seed default GM user.
Up_0003 == <<
    DropKey("users", "check_user_role"), KeyOver("users", "check_user_role", {"role"}, "check"), Insert("users")>>
\* Back to 2.
Down_0003 == <<DropKey("users", "check_user_role"), KeyOver("users", "check_user_role", {"role"}, "check")>>

\* 4: Drop DB by migration.
Up_bb20790b5a8c == <<
    DropKey("character_spells", "idx_character_spells_character_id"),
    DropKey("character_spells", "idx_character_spells_spell_id"), DropTables(<<"character_spells">>),
    DropIx("attacks", {"character_id"}), DropTables(<<"attacks">>), DropKey("characters", "idx_character_name_trgm"),
    DropIx("characters", {"name", "owner_id", "race_id"}), DropTables(<<"characters">>),
    DropKey("spells", "idx_spell_level"), DropIx("spells", {"level", "name"}), DropTables(<<"spells">>),
    DropKey("races", "idx_race_name_trgm"), DropIx("races", {"name"}), DropTables(<<"races">>)>>
\* Back to 3.
Down_bb20790b5a8c_races == <<
    Retype("users", "role", "untyped"), Sequence("races"),
    Table("races", {"ability_bonuses", "description", "granted_skills", "id", "is_homebrew", "name", "size", "speed",
        "traits"}, {}, {}),
    Key("races", "races_name_key", {"name"}, "unique"), UniqueIx("races", "name"),
    Key("races", "idx_race_name_trgm", {"name"}, "gin"),
    Table("character_spells", {}, {}, {<<"character_id", "characters", "cascade">>,
        <<"spell_id", "spells", "cascade">>}),
    Key("character_spells", "idx_character_spells_spell_id", {"spell_id"}, "index"),
    Key("character_spells", "idx_character_spells_character_id", {"character_id"}, "index")>>
\* 4, its characters.
Down_bb20790b5a8c_characters == <<
    Sequence("characters"),
    Table("characters", {"armor_class", "backstory", "character_class", "charisma", "constitution", "created_at",
        "current_hp", "dexterity", "feats", "has_jack_of_all_trades", "hit_dice", "id", "image_path",
        "initiative_bonus", "intelligence", "inventory", "level", "max_hp", "money_copper", "money_gold",
        "money_silver", "name", "notes", "passive_perception_bonus", "proficiencies", "saving_throw_proficiencies",
        "shield", "skill_proficiencies", "speed", "spell_ability", "spell_attack_misc_bonus", "spell_dc_misc_bonus",
        "spell_slots", "strength", "subclass", "temp_hp", "traits", "updated_at", "wisdom"}, {},
        {<<"owner_id", "users", "cascade">>, <<"race_id", "races", "set_null">>}),
    Key("characters", "check_current_hp_nonnegative", {"current_hp"}, "check"),
    Key("characters", "check_character_level_range", {"level"}, "check"),
    Key("characters", "check_max_hp_nonnegative", {"max_hp"}, "check"),
    Ix("characters", {"name", "owner_id", "race_id"}), Key("characters", "idx_character_name_trgm", {"name"}, "gin")>>
\* 4, its spells.
Down_bb20790b5a8c_spells == <<
    Table("attacks", {"ability", "attack_type", "bonus_attack", "bonus_damage", "damage_dice", "damage_type", "id",
        "is_proficient", "name", "notes", "range"}, {}, {<<"character_id", "characters", "cascade">>}),
    Ix("attacks", {"character_id"}),
    Table("spells", {"attack_type", "cast_time", "components", "damage_dice", "damage_type", "description",
        "duration", "higher_levels", "id", "is_concentration", "is_ritual", "level", "material", "name",
        "range_type", "range_value", "save_stat", "school"}, {}, {}),
    Key("spells", "spells_name_key", {"name"}, "unique"), UniqueIx("spells", "name"), Ix("spells", {"level"}),
    Key("spells", "idx_spell_level", {"level"}, "index")>>
Down_bb20790b5a8c == Down_bb20790b5a8c_races \o Down_bb20790b5a8c_characters \o Down_bb20790b5a8c_spells

\* 5: Update models arch.
Up_69038c284ea4_catalogs == <<
    Types(
        "ability_score" :> {"STR", "DEX", "CON", "INT", "WIS", "CHA"} @@
        "attack_type" :> {"MELEE_ATTACK", "RANGED_ATTACK"} @@
        "damage_type" :> {"SLASHING", "PIERCING", "BLUDGEONING", "ACID", "COLD", "FIRE", "FORCE", "LIGHTNING",
            "NECROTIC", "POISON", "PSYCHIC", "RADIANT", "THUNDER"} @@
        "race_size" :> {"TINY", "SMALL", "MEDIUM", "LARGE", "HUGE", "GARGANTUAN"} @@
        "spell_level" :> {"CANTRIP", "LEVEL_1", "LEVEL_2", "LEVEL_3", "LEVEL_4", "LEVEL_5", "LEVEL_6",
            "LEVEL_7", "LEVEL_8", "LEVEL_9"} @@
        "spell_range_type" :> {"SELF", "TOUCH", "RANGED", "SIGHT", "UNLIMITED"} @@
        "spell_school" :> {"ABJURATION", "CONJURATION", "DIVINATION", "ENCHANTMENT", "EVOCATION", "ILLUSION",
            "NECROMANCY", "TRANSMUTATION"} @@
        "user_role" :> {"GM", "PLAYER"}),
    Table("skills", {"description", "id", "key", "name"}, {<<"ability", "ability_score">>}, {}),
    UniqueIx("skills", "key"),
    Table("classes", {"description", "hit_dice", "id", "is_homebrew", "name", "skill_choice_count"},
        {<<"spellcasting_ability", "ability_score">>}, {<<"created_by_id", "users", "set_null">>}),
    Ix("classes", {"created_by_id"}), UniqueIx("classes", "name"),
    Table("races", {"description", "id", "is_homebrew", "name", "speed", "traits"}, {<<"size", "race_size">>},
        {<<"created_by_id", "users", "set_null">>}),
    Ix("races", {"created_by_id"}), UniqueIx("races", "name")>>
\* 5, its spells.
Up_69038c284ea4_spells == <<
    Table("spells", {"cast_time", "components", "damage_dice", "description", "duration", "higher_levels", "id",
        "is_concentration", "is_homebrew", "is_ritual", "material", "name", "range_value"},
        {<<"school", "spell_school">>, <<"level", "spell_level">>, <<"range_type", "spell_range_type">>,
        <<"attack_type", "attack_type">>, <<"save_stat", "ability_score">>, <<"damage_type", "damage_type">>},
        {<<"created_by_id", "users", "set_null">>}),
    Ix("spells", {"created_by_id", "level"}), UniqueIx("spells", "name")>>
\* 5, its characters.
Up_69038c284ea4_characters == <<
    Table("characters", {"armor_class", "backstory", "charisma", "constitution", "created_at", "current_hp",
        "dexterity", "feats", "has_jack_of_all_trades", "hit_dice", "id", "image_path", "initiative_bonus",
        "intelligence", "inventory", "level", "max_hp", "money_copper", "money_gold", "money_silver", "name",
        "notes", "passive_perception_bonus", "proficiencies", "shield", "speed", "spell_attack_misc_bonus",
        "spell_dc_misc_bonus", "strength", "subclass", "temp_hp", "traits", "updated_at", "wisdom"},
        {<<"spell_ability", "ability_score">>}, {<<"class_id", "classes", "restrict">>,
        <<"owner_id", "users", "cascade">>, <<"race_id", "races", "set_null">>}),
    Key("characters", "check_current_hp_nonnegative", {"current_hp"}, "check"),
    Key("characters", "check_character_level_range", {"level"}, "check"),
    Key("characters", "check_max_hp_nonnegative", {"max_hp"}, "check"),
    Key("characters", "check_temp_hp_nonnegative", {"temp_hp"}, "check"),
    Ix("characters", {"class_id", "name", "owner_id", "race_id"}),
    Table("class_available_skills", {}, {}, {<<"class_id", "classes", "cascade">>,
        <<"skill_id", "skills", "restrict">>}),
    Table("class_primary_abilities", {}, {<<"ability", "ability_score">>}, {<<"class_id", "classes", "cascade">>}),
    Table("class_saving_throws", {}, {<<"ability", "ability_score">>}, {<<"class_id", "classes", "cascade">>}),
    Table("race_ability_bonuses", {"bonus"}, {<<"ability", "ability_score">>}, {<<"race_id", "races", "cascade">>}),
    Table("race_skills", {}, {}, {<<"race_id", "races", "cascade">>, <<"skill_id", "skills", "restrict">>})>>
\* 5, its sheets.
Up_69038c284ea4_sheets == <<
    Table("attacks", {"bonus_attack", "bonus_damage", "damage_dice", "id", "is_proficient", "name", "notes",
        "range"}, {<<"attack_type", "attack_type">>, <<"ability", "ability_score">>,
        <<"damage_type", "damage_type">>}, {<<"character_id", "characters", "cascade">>}),
    Ix("attacks", {"character_id"}),
    Table("character_saving_throw_proficiencies", {}, {<<"ability", "ability_score">>},
        {<<"character_id", "characters", "cascade">>}),
    Table("character_skill_proficiencies", {"is_expertise"}, {}, {<<"character_id", "characters", "cascade">>,
        <<"skill_id", "skills", "restrict">>}),
    Table("character_spell_slots", {"total", "used"}, {<<"spell_level", "spell_level">>},
        {<<"character_id", "characters", "cascade">>}),
    Key("character_spell_slots", "check_spell_slot_used_not_exceeding_total", {"total", "used"}, "check"),
    Key("character_spell_slots", "check_spell_slot_used_nonnegative", {"used"}, "check"),
    Table("character_spells", {"is_prepared"}, {}, {<<"character_id", "characters", "cascade">>,
        <<"spell_id", "spells", "cascade">>}),
    DropKey("users", "check_user_role"), Retype("users", "role", "user_role")>>
Up_69038c284ea4 == Up_69038c284ea4_catalogs \o Up_69038c284ea4_spells \o Up_69038c284ea4_characters \o
        Up_69038c284ea4_sheets
\* Back to 4.
Down_69038c284ea4 == <<
    Retype("users", "role", "untyped"),
    DropTables(<<"character_spells", "character_spell_slots", "character_skill_proficiencies",
        "character_saving_throw_proficiencies">>),
    DropIx("attacks", {"character_id"}),
    DropTables(<<"attacks", "race_skills", "race_ability_bonuses", "class_saving_throws",
        "class_primary_abilities", "class_available_skills">>),
    DropIx("characters", {"class_id", "name", "owner_id", "race_id"}), DropTables(<<"characters">>),
    DropIx("spells", {"created_by_id", "level", "name"}), DropTables(<<"spells">>),
    DropIx("races", {"created_by_id", "name"}), DropTables(<<"races">>),
    DropIx("classes", {"created_by_id", "name"}), DropTables(<<"classes">>), DropIx("skills", {"key"}),
    DropTables(<<"skills">>),
    DropTypes({"ability_score", "attack_type", "damage_type", "race_size", "spell_level", "spell_range_type",
        "spell_school", "user_role"})>>

\* 6: Add new models.
Up_5bde518ea704_catalogs == <<
    Table("backgrounds", {"bonds_suggestions", "description", "feature_description", "feature_name",
        "flaws_suggestions", "id", "ideals_suggestions", "is_homebrew", "name", "personality_traits_suggestions"},
        {}, {<<"created_by_id", "users", "set_null">>}),
    Ix("backgrounds", {"created_by_id"}), UniqueIx("backgrounds", "name"),
    Table("campaigns", {"created_at", "description", "id", "is_active", "name"}, {},
        {<<"gm_id", "users", "cascade">>}),
    Ix("campaigns", {"gm_id"}), NewType("item_type", {"WEAPON", "ARMOR", "SHIELD", "POTION", "SCROLL",
        "WONDROUS_ITEM", "RING", "ROD", "STAFF", "WAND", "ADVENTURING_GEAR", "TOOL", "AMMUNITION", "TREASURE",
        "OTHER"}), NewType("item_rarity", {"COMMON", "UNCOMMON", "RARE",
        "VERY_RARE", "LEGENDARY", "ARTIFACT", "NONE"}),
    Table("items", {"armor_class_base", "armor_class_dex_bonus", "armor_class_max_dex_bonus", "cost_gold",
        "damage_dice", "description", "id", "is_homebrew", "name", "requires_attunement", "stealth_disadvantage",
        "strength_requirement", "weapon_properties", "weight"}, {<<"item_type", "item_type">>,
        <<"rarity", "item_rarity">>, <<"damage_type", "damage_type">>}, {<<"created_by_id", "users", "set_null">>}),
    Ix("items", {"created_by_id"}), UniqueIx("items", "name")>>
\* 6, its features.
Up_5bde518ea704_features == <<
    Table("background_skills", {}, {}, {<<"background_id", "backgrounds", "cascade">>,
        <<"skill_id", "skills", "restrict">>}),
    Table("class_spell_slot_progressions", {"class_level", "slots"}, {<<"spell_level", "spell_level">>},
        {<<"class_id", "classes", "cascade">>}),
    Key("class_spell_slot_progressions", "check_progression_class_level_range", {"class_level"}, "check"),
    Key("class_spell_slot_progressions", "check_progression_slots_nonnegative", {"slots"}, "check"),
    NewType("feature_source_type", {"CLASS", "SUBCLASS", "RACE", "BACKGROUND", "FEAT", "OTHER"}),
    Table("features", {"description", "id", "is_homebrew", "level", "name", "subclass_name"},
        {<<"source_type", "feature_source_type">>}, {<<"background_id", "backgrounds", "cascade">>,
        <<"class_id", "classes", "cascade">>, <<"created_by_id", "users", "set_null">>,
        <<"race_id", "races", "cascade">>}),
    Ix("features", {"background_id", "class_id", "created_by_id", "name", "race_id"}),
    Table("campaign_characters", {}, {}, {<<"campaign_id", "campaigns", "cascade">>,
        <<"character_id", "characters", "cascade">>}),
    NewType("condition_type", {"BLINDED", "CHARMED", "DEAFENED", "FRIGHTENED", "GRAPPLED", "INCAPACITATED",
        "INVISIBLE", "PARALYZED", "PETRIFIED", "POISONED", "PRONE", "RESTRAINED", "STUNNED", "UNCONSCIOUS",
        "EXHAUSTION"}),
    Table("character_conditions", {"exhaustion_level", "source"}, {<<"condition", "condition_type">>},
        {<<"character_id", "characters", "cascade">>}),
    Key("character_conditions", "check_character_condition_exhaustion_level_range", {"exhaustion_level"}, "check")>>
\* 6, its sheets.
Up_5bde518ea704_sheets == <<
    Table("character_features", {"id", "notes"}, {}, {<<"character_id", "characters", "cascade">>,
        <<"feature_id", "features", "cascade">>}),
    Ix("character_features", {"character_id", "feature_id"}),
    Table("character_items", {"id", "is_attuned", "is_equipped", "notes", "quantity"}, {},
        {<<"character_id", "characters", "cascade">>, <<"item_id", "items", "restrict">>}),
    Key("character_items", "check_character_item_quantity_nonnegative", {"quantity"}, "check"),
    Ix("character_items", {"character_id", "item_id"}), AddColumns("characters", {"background_id"}),
    AddRequired("characters", {"bonds", "flaws", "ideals", "personality_traits"}),
    Ix("characters", {"background_id"}), Ref("characters", "background_id", "backgrounds", "set_null"),
    DropColumns("characters", {"feats", "inventory"})>>
Up_5bde518ea704 == Up_5bde518ea704_catalogs \o Up_5bde518ea704_features \o Up_5bde518ea704_sheets
\* Back to 5.
Down_5bde518ea704 == <<
    AddRequired("characters", {"feats", "inventory"}), Unnamed("characters"),
    DropIx("characters", {"background_id"}),
    DropColumns("characters", {"background_id", "bonds", "flaws", "ideals", "personality_traits"}),
    DropIx("character_items", {"character_id", "item_id"}), DropTables(<<"character_items">>),
    DropIx("character_features", {"character_id", "feature_id"}),
    DropTables(<<"character_features", "character_conditions", "campaign_characters">>),
    DropIx("features", {"background_id", "class_id", "created_by_id", "name", "race_id"}),
    DropTables(<<"features", "class_spell_slot_progressions", "background_skills">>),
    DropIx("items", {"created_by_id", "name"}), DropTables(<<"items">>), DropIx("campaigns", {"gm_id"}),
    DropTables(<<"campaigns">>), DropIx("backgrounds", {"created_by_id", "name"}), DropTables(<<"backgrounds">>)>>

\* 7: Update class with hit dice enum.
Up_ed896a68cda0 == <<
    Types("hit_dice" :> {"D4", "D6", "D8", "D10", "D12", "D20", "D100"}), Retype("classes", "hit_dice", "hit_dice")>>
\* Back to 6.
Down_ed896a68cda0 == <<Retype("classes", "hit_dice", "untyped"), DropTypes({"hit_dice"})>>

\* 8: Update spell and class model.
Up_62ead1ad9e84 == <<
    AddColumns("spells", {"damage_dice_count"}), AddTyped("spells", "damage_dice_type", "hit_dice"),
    DropColumns("spells", {"damage_dice"})>>
\* Back to 7.
Down_62ead1ad9e84 == <<
    AddColumns("spells", {"damage_dice"}), DropColumns("spells", {"damage_dice_count", "damage_dice_type"})>>

\* 9: add healing/component fields to spells, spell_classes and spell_races.
Up_0c571ff6a50e == <<
    Types("healing_target" :> {"HP", "TEMP_HP"}), DropColumns("spells", {"components"}),
    AddColumns("spells", {"has_material", "has_somatic", "has_verbal", "is_material_consumed"}),
    AddTyped("spells", "healing_target", "healing_target"), AddColumns("spells", {"healing_dice_count"}),
    AddTyped("spells", "healing_dice_type", "hit_dice"),
    Table("spell_classes", {}, {}, {<<"spell_id", "spells", "cascade">>, <<"class_id", "classes", "cascade">>}),
    Table("spell_races", {}, {}, {<<"spell_id", "spells", "cascade">>, <<"race_id", "races", "cascade">>})>>
\* Back to 8.
Down_0c571ff6a50e == <<
    DropTables(<<"spell_races", "spell_classes">>),
    DropColumns("spells", {"has_material", "has_somatic", "has_verbal", "healing_dice_count", "healing_dice_type",
        "healing_target", "is_material_consumed"}),
    AddColumns("spells", {"components"}), DropTypes({"healing_target"})>>

\* 10: update damage dice for attack & item like spells.
Up_ad86e093f8cb == <<
    AddColumns("attacks", {"damage_dice_count"}), AddTyped("attacks", "damage_dice_type", "hit_dice"),
    DropColumns("attacks", {"damage_dice"}), AddColumns("items", {"damage_dice_count"}),
    AddTyped("items", "damage_dice_type", "hit_dice"), DropColumns("items", {"damage_dice"})>>
\* Back to 9.
Down_ad86e093f8cb == <<
    AddColumns("items", {"damage_dice"}), DropColumns("items", {"damage_dice_count", "damage_dice_type"}),
    AddRequired("attacks", {"damage_dice"}), DropColumns("attacks", {"damage_dice_count", "damage_dice_type"})>>

\* 11: .
Up_7e70b8a81bb9 == <<
    Types("spell_component" :> {"VERBAL", "SOMATIC", "MATERIAL"}), AddColumns("spells", {"components"}),
    DropColumns("spells", {"has_material", "has_somatic", "has_verbal"})>>
\* Back to 10.
Down_7e70b8a81bb9 == <<
    AddRequired("spells", {"has_material", "has_somatic", "has_verbal"}), DropColumns("spells", {"components"}),
    DropTypes({"spell_component"})>>

\* 12: Convert spells.cast_time and spells.duration to native enums.
Up_4b17bc9bfef5 == <<
    Types(
        "spell_cast_time" :> {"ACTION", "BONUS_ACTION", "REACTION", "SPECIAL"} @@
        "spell_duration" :> {"INSTANTANEOUS", "ONE_ROUND", "ONE_MINUTE", "TEN_MINUTES", "ONE_HOUR",
            "EIGHT_HOURS", "TWENTY_FOUR_HOURS", "SEVEN_DAYS", "THIRTY_DAYS", "UNTIL_DISPELLED", "SPECIAL"}),
    AddTyped("spells", "cast_time_new", "spell_cast_time"),
    AddTyped("spells", "duration_new", "spell_duration"), Fill("spells", "cast_time_new"),
    Fill("spells", "duration_new"), DropColumns("spells", {"cast_time", "duration"}),
    Rename("spells", "cast_time_new", "cast_time"), Rename("spells", "duration_new", "duration"),
    NotNull("spells", "cast_time"), NotNull("spells", "duration")>>
\* Back to 11.
Down_4b17bc9bfef5 == <<
    AddColumns("spells", {"cast_time_old", "duration_old"}), Fill("spells", "cast_time_old"),
    Fill("spells", "duration_old"), DropColumns("spells", {"cast_time", "duration"}),
    Rename("spells", "cast_time_old", "cast_time"), Rename("spells", "duration_old", "duration"),
    NotNull("spells", "cast_time"), NotNull("spells", "duration"), DropTypes({"spell_cast_time", "spell_duration"})>>

\* 13: add feats and character feats.
Up_802345a50dc7 == <<
    Table("feats", {"description", "id", "is_homebrew", "name", "prerequisite_description",
        "prerequisite_minimum_score"}, {<<"prerequisite_ability", "ability_score">>},
        {<<"created_by_id", "users", "set_null">>}),
    Ix("feats", {"created_by_id"}), UniqueIx("feats", "name"),
    Table("feat_ability_score_increases", {"amount", "id"}, {<<"ability", "ability_score">>},
        {<<"feat_id", "feats", "cascade">>}),
    Ix("feat_ability_score_increases", {"feat_id"}),
    Table("character_feats", {"id"}, {},
        {<<"ability_score_increase_id", "feat_ability_score_increases", "set_null">>,
        <<"character_id", "characters", "cascade">>, <<"feat_id", "feats", "restrict">>}),
    Ix("character_feats", {"ability_score_increase_id", "character_id", "feat_id"}),
    AddColumns("features", {"feat_id"}), Ix("features", {"feat_id"}),
    NamedRef("features", "fk_features_feat_id_feats", "feat_id", "feats", "cascade")>>
\* Back to 12.
Down_802345a50dc7 == <<
    DropNamedRef("features", "fk_features_feat_id_feats"), DropIx("features", {"feat_id"}),
    DropColumns("features", {"feat_id"}),
    DropIx("character_feats", {"ability_score_increase_id", "character_id", "feat_id"}),
    DropTables(<<"character_feats">>), DropIx("feat_ability_score_increases", {"feat_id"}),
    DropTables(<<"feat_ability_score_increases">>), DropIx("feats", {"created_by_id", "name"}),
    DropTables(<<"feats">>)>>

\* 14: add character_ability_scores cache table.
Up_ae09bdf473f4 == <<
    Table("character_ability_scores", {"charisma_total", "constitution_total", "dexterity_total",
        "intelligence_total", "strength_total", "updated_at", "wisdom_total"}, {},
        {<<"character_id", "characters", "cascade">>})>>
\* Back to 13.
Down_ae09bdf473f4 == <<DropTables(<<"character_ability_scores">>)>>

\* 15: update character spell model.
Up_2bea8b331f7a == <<DropColumns("character_spells", {"is_prepared"})>>
\* Back to 14.
Down_2bea8b331f7a == <<AddRequired("character_spells", {"is_prepared"})>>

\* 16: add character_asi_choices and feat grant source_type.
Up_d4c1e9b2a7f3 == <<
    Types(
        "asi_choice" :> {"ASI", "FEAT"} @@
        "character_feat_source" :> {"GM", "ORIGIN", "ASI"}),
    Table("character_asi_choices", {"class_level", "id", "increases"}, {<<"choice_type", "asi_choice">>},
        {<<"character_id", "characters", "cascade">>,
        <<"ability_score_increase_id", "feat_ability_score_increases", "set_null">>,
        <<"feat_id", "feats", "restrict">>}),
    Key("character_asi_choices", "uq_character_asi_choice_level", {"character_id", "class_level"}, "unique"),
    Ix("character_asi_choices", {"character_id", "feat_id"}),
    AddTyped("character_feats", "source_type", "character_feat_source")>>
\* Back to 15.
Down_d4c1e9b2a7f3 == <<
    DropColumns("character_feats", {"source_type"}), DropIx("character_asi_choices", {"character_id", "feat_id"}),
    DropTables(<<"character_asi_choices">>), DropTypes({"asi_choice", "character_feat_source"})>>

\* 17: add new role of user.
\* Mutant: the key before the COMMIT that the new label needs.
Up_8e6cbf5381ba_keyFirst == <<
    KeyOver("character_feats", "uq_character_feat", {"character_id", "feat_id"}, "unique"),
    Commit, Label("user_role", "FOUND_FATHER"), Commit>>
Up_8e6cbf5381ba == <<
    Commit, Label("user_role", "FOUND_FATHER"), Commit,
    KeyOver("character_feats", "uq_character_feat", {"character_id", "feat_id"}, "unique")>>
\* Back to 16.
Down_8e6cbf5381ba == <<DropKey("character_feats", "uq_character_feat")>>

\* 18: add bio, contact and location profile fields to users.
Up_9f4c8e2a1b7d == <<AddColumns("users", {"bio", "contact", "location"})>>
\* Back to 17.
Down_9f4c8e2a1b7d == <<DropColumns("users", {"bio", "contact", "location"})>>

\* 19: drop traits column from races.
Up_c3f8e2a1b5d9 == <<DropColumns("races", {"traits"})>>
\* Back to 18.
Down_c3f8e2a1b5d9 == <<AddColumns("races", {"traits"})>>

\* 20: add subclass feature subclass id.
Up_a89aff41cc17 == <<
    Table("subclasses", {"archetype_group_name", "description", "id", "is_homebrew", "name", "unlock_level"}, {},
        {<<"class_id", "classes", "cascade">>, <<"created_by_id", "users", "set_null">>}),
    Key("subclasses", "uq_subclass_class_id_name", {"class_id", "name"}, "unique"),
    Ix("subclasses", {"class_id", "created_by_id", "name"}), AddColumns("features", {"subclass_id"}),
    Ix("features", {"subclass_id"}),
    NamedRef("features", "fk_features_subclass_id_subclasses", "subclass_id", "subclasses", "cascade")>>
\* Back to 19.
Down_a89aff41cc17 == <<
    DropNamedRef("features", "fk_features_subclass_id_subclasses"), DropIx("features", {"subclass_id"}),
    DropColumns("features", {"subclass_id"}), DropIx("subclasses", {"class_id", "created_by_id", "name"}),
    DropTables(<<"subclasses">>)>>

\* 21: drop feature subclass name.
Up_c1a2b3d4e5f6 == <<DropColumns("features", {"subclass_name"})>>
\* Back to 20.
Down_c1a2b3d4e5f6 == <<AddColumns("features", {"subclass_name"})>>

\* 22: add character subclass id.
Up_d2e3f4a5b6c7 == <<
    DropColumns("characters", {"subclass"}), AddColumns("characters", {"subclass_id"}),
    Ix("characters", {"subclass_id"}),
    NamedRef("characters", "fk_characters_subclass_id_subclasses", "subclass_id", "subclasses", "set_null")>>
\* Back to 21.
Down_d2e3f4a5b6c7 == <<
    DropNamedRef("characters", "fk_characters_subclass_id_subclasses"), DropIx("characters", {"subclass_id"}),
    DropColumns("characters", {"subclass_id"}), AddColumns("characters", {"subclass"})>>

\* 23: drop background feature columns.
Up_a1b2c3d4e5f7 == <<DropColumns("backgrounds", {"feature_description", "feature_name"})>>
\* Back to 22.
Down_a1b2c3d4e5f7 == <<AddColumns("backgrounds", {"feature_description", "feature_name"})>>

\* 24: Allow duplicate feature names.
Up_f0a1b2c3d4e5 == <<
    IfNeeded(DropKey("features", "features_name_key")), IfNeeded(DropIx("features", {"name"})),
    IfNeeded(Ix("features", {"name"}))>>
\* Back to 23.
Down_f0a1b2c3d4e5 == <<IfNeeded(DropIx("features", {"name"})), UniqueIxOver("features", "name")>>

\* 25: Resync primary-key sequences.
Up_f1a2b3c4d5e6 == << >>
\* Back to 24.
Down_f1a2b3c4d5e6 == << >>

\* 26: Add class armor proficiencies, source-owned starting equipment, and drop character personality fields.
Up_e7f8a9b0c1d2 == <<
    Types("armor_proficiency" :> {"LIGHT", "MEDIUM", "HEAVY", "SHIELD"}),
    Table("class_armor_proficiencies", {}, {<<"armor_type", "armor_proficiency">>},
        {<<"class_id", "classes", "cascade">>}),
    Table("source_items", {"id", "quantity"}, {<<"source_type", "feature_source_type">>},
        {<<"background_id", "backgrounds", "cascade">>, <<"class_id", "classes", "cascade">>,
        <<"item_id", "items", "restrict">>}),
    Key("source_items", "check_source_item_quantity_nonnegative", {"quantity"}, "check"),
    Ix("source_items", {"background_id", "class_id", "item_id", "source_type"}),
    DropColumns("characters", {"bonds", "flaws", "ideals", "personality_traits"})>>
\* Back to 25.
Down_e7f8a9b0c1d2 == <<
    AddColumns("characters", {"bonds", "flaws", "ideals", "personality_traits"}),
    DropIx("source_items", {"background_id", "class_id", "item_id", "source_type"}),
    DropTables(<<"source_items", "class_armor_proficiencies">>), DropTypes({"armor_proficiency"})>>

\* 27: Add subraces; drop race-owned starting equipment.
Up_8a4c5d6e7f8a == <<
    Label("feature_source_type", "SUBRACE"), IfNeeded(DropIx("source_items", {"race_id"})),
    IfNeeded(DropRef("source_items", "race_id")), IfNeeded(DropColumns("source_items", {"race_id"})),
    Table("subraces", {"description", "id", "is_homebrew", "name"}, {}, {<<"created_by_id", "users", "set_null">>,
        <<"race_id", "races", "cascade">>}),
    Key("subraces", "uq_subrace_race_id_name", {"name", "race_id"}, "unique"),
    Ix("subraces", {"created_by_id", "name", "race_id"}),
    Table("subrace_ability_bonuses", {"bonus"}, {<<"ability", "ability_score">>},
        {<<"subrace_id", "subraces", "cascade">>}),
    AddColumns("features", {"subrace_id"}), Ix("features", {"subrace_id"}),
    NamedRef("features", "fk_features_subrace_id_subraces", "subrace_id", "subraces", "cascade"),
    AddColumns("characters", {"subrace_id"}), Ix("characters", {"subrace_id"}),
    NamedRef("characters", "fk_characters_subrace_id_subraces", "subrace_id", "subraces", "set_null")>>
\* Back to 26.
Down_8a4c5d6e7f8a == <<
    DropNamedRef("characters", "fk_characters_subrace_id_subraces"), DropIx("characters", {"subrace_id"}),
    DropColumns("characters", {"subrace_id"}), DropNamedRef("features", "fk_features_subrace_id_subraces"),
    DropIx("features", {"subrace_id"}), DropColumns("features", {"subrace_id"}),
    DropTables(<<"subrace_ability_bonuses", "subraces">>), IfNeeded(AddColumns("source_items", {"race_id"})),
    IfNeeded(Ref("source_items", "race_id", "races", "cascade")), IfNeeded(Ix("source_items", {"race_id"})),
    Unlabel("feature_source_type", "SUBRACE")>>

\* 28: Remove homebrew flag and minore fields.
Up_af6347715f5e == <<
    DropColumns("backgrounds", {"is_homebrew"}), DropColumns("classes", {"is_homebrew"}),
    DropColumns("feats", {"is_homebrew"}), DropColumns("features", {"is_homebrew"}),
    DropColumns("items", {"is_homebrew"}), DropColumns("races", {"is_homebrew"}),
    DropColumns("spells", {"is_homebrew"}), DropColumns("subclasses", {"is_homebrew", "unlock_level"}),
    DropColumns("subraces", {"is_homebrew"})>>
\* Back to 27.
Down_af6347715f5e == <<
    AddRequired("subraces", {"is_homebrew"}), AddRequired("subclasses", {"is_homebrew", "unlock_level"}),
    AddRequired("spells", {"is_homebrew"}), AddRequired("races", {"is_homebrew"}),
    AddRequired("items", {"is_homebrew"}), AddRequired("features", {"is_homebrew"}),
    AddRequired("feats", {"is_homebrew"}), AddRequired("classes", {"is_homebrew"}),
    AddRequired("backgrounds", {"is_homebrew"})>>

\* 29: add character personality fields.
Up_b7c2d9e4f1a8 == <<AddColumns("characters", {"bonds", "flaws", "ideals", "personality_traits"})>>
\* Back to 28.
Down_b7c2d9e4f1a8 == <<DropColumns("characters", {"bonds", "flaws", "ideals", "personality_traits"})>>

\* 30: Update character model.
Up_a48de7f0f9b3 == <<
    DropColumns("characters", {"has_jack_of_all_trades", "hit_dice", "initiative_bonus", "passive_perception_bonus",
        "proficiencies", "spell_ability", "spell_attack_misc_bonus", "spell_dc_misc_bonus", "traits"})>>
\* Back to 29.
Down_a48de7f0f9b3 == <<
    AddRequired("characters", {"has_jack_of_all_trades", "hit_dice", "initiative_bonus", "passive_perception_bonus",
        "proficiencies", "spell_attack_misc_bonus", "spell_dc_misc_bonus", "traits"}),
    AddTyped("characters", "spell_ability", "ability_score")>>

\* 31: remove imge path.
Up_6fa86eefd557 == <<DropColumns("characters", {"image_path"})>>
\* Back to 30.
Down_6fa86eefd557 == <<AddColumns("characters", {"image_path"})>>

\* 32: make character_asi_choices.class_level nullable (GM adjustments).
Up_c4d7e1a9f3b2 == << >>
\* Back to 31.
Down_c4d7e1a9f3b2 == <<NotNull("character_asi_choices", "class_level")>>

\* 33: drop character_saving_throw_proficiencies (saving throws now come from the class).
Up_b5f3d8c2e7a9 == <<DropTables(<<"character_saving_throw_proficiencies">>)>>
\* Back to 32.
Down_b5f3d8c2e7a9 == <<
    Table("character_saving_throw_proficiencies", {}, {<<"ability", "ability_score">>},
        {<<"character_id", "characters", "cascade">>})>>

\* 34: add character_max_levels (GM-set level-up cap, backfilled to current level).
Up_e2a9f4b7c6d1 == <<
    Table("character_max_levels", {"max_level"}, {}, {<<"character_id", "characters", "cascade">>}),
    Key("character_max_levels", "check_character_max_level_range", {"max_level"}, "check"),
    Copy("characters", "character_max_levels")>>
\* Back to 33.
Down_e2a9f4b7c6d1 == <<DropTables(<<"character_max_levels">>)>>

\* 35: add spell_subclasses and spell_subraces availability tables.
Up_f7c1b8d3a5e2 == <<
    Table("spell_subclasses", {}, {}, {<<"spell_id", "spells", "cascade">>,
        <<"subclass_id", "subclasses", "cascade">>}),
    Table("spell_subraces", {}, {}, {<<"spell_id", "spells", "cascade">>, <<"subrace_id", "subraces", "cascade">>})>>
\* Back to 34.
Down_f7c1b8d3a5e2 == <<DropTables(<<"spell_subraces", "spell_subclasses">>)>>

\* 36: remove feat as a feature source.
Up_a9d4f2e8b1c7 == <<
    DropIx("features", {"feat_id"}), DropNamedRef("features", "fk_features_feat_id_feats"),
    DropColumns("features", {"feat_id"})>>
\* Back to 35.
Down_a9d4f2e8b1c7 == <<
    AddColumns("features", {"feat_id"}),
    NamedRef("features", "fk_features_feat_id_feats", "feat_id", "feats", "cascade"), Ix("features", {"feat_id"})>>

\* 37: drop orphaned campaign tables.
Up_c3e7a1f9d2b4 == <<
    DropTables(<<"campaign_characters">>), DropIx("campaigns", {"gm_id"}), DropTables(<<"campaigns">>)>>
\* Back to 36.
Down_c3e7a1f9d2b4 == <<
    Table("campaigns", {"created_at", "description", "id", "is_active", "name"}, {},
        {<<"gm_id", "users", "cascade">>}),
    Ix("campaigns", {"gm_id"}),
    Table("campaign_characters", {}, {}, {<<"campaign_id", "campaigns", "cascade">>,
        <<"character_id", "characters", "cascade">>})>>

\* 38: drop created_by_id everywhere, add feats.min_level.
Up_e8b5c7d9f1a3 == <<
    DropIx("races", {"created_by_id"}), DropRef("races", "created_by_id"), DropColumns("races", {"created_by_id"}),
    DropIx("subraces", {"created_by_id"}), DropRef("subraces", "created_by_id"),
    DropColumns("subraces", {"created_by_id"}), DropIx("classes", {"created_by_id"}),
    DropRef("classes", "created_by_id"), DropColumns("classes", {"created_by_id"}),
    DropIx("subclasses", {"created_by_id"}), DropRef("subclasses", "created_by_id"),
    DropColumns("subclasses", {"created_by_id"}), DropIx("backgrounds", {"created_by_id"}),
    DropRef("backgrounds", "created_by_id"), DropColumns("backgrounds", {"created_by_id"}),
    DropIx("items", {"created_by_id"}), DropRef("items", "created_by_id"), DropColumns("items", {"created_by_id"}),
    DropIx("spells", {"created_by_id"}), DropRef("spells", "created_by_id"),
    DropColumns("spells", {"created_by_id"}), DropIx("features", {"created_by_id"}),
    DropRef("features", "created_by_id"), DropColumns("features", {"created_by_id"}),
    DropIx("feats", {"created_by_id"}), DropRef("feats", "created_by_id"), DropColumns("feats", {"created_by_id"}),
    AddColumns("feats", {"min_level"})>>
\* Back to 37.
Down_e8b5c7d9f1a3 == <<
    DropColumns("feats", {"min_level"}), AddColumns("races", {"created_by_id"}),
    Ref("races", "created_by_id", "users", "set_null"), Ix("races", {"created_by_id"}),
    AddColumns("subraces", {"created_by_id"}), Ref("subraces", "created_by_id", "users", "set_null"),
    Ix("subraces", {"created_by_id"}), AddColumns("classes", {"created_by_id"}),
    Ref("classes", "created_by_id", "users", "set_null"), Ix("classes", {"created_by_id"}),
    AddColumns("subclasses", {"created_by_id"}), Ref("subclasses", "created_by_id", "users", "set_null"),
    Ix("subclasses", {"created_by_id"}), AddColumns("backgrounds", {"created_by_id"}),
    Ref("backgrounds", "created_by_id", "users", "set_null"), Ix("backgrounds", {"created_by_id"}),
    AddColumns("items", {"created_by_id"}), Ref("items", "created_by_id", "users", "set_null"),
    Ix("items", {"created_by_id"}), AddColumns("spells", {"created_by_id"}),
    Ref("spells", "created_by_id", "users", "set_null"), Ix("spells", {"created_by_id"}),
    AddColumns("features", {"created_by_id"}), Ref("features", "created_by_id", "users", "set_null"),
    Ix("features", {"created_by_id"}), AddColumns("feats", {"created_by_id"}),
    Ref("feats", "created_by_id", "users", "set_null"), Ix("feats", {"created_by_id"})>>

\* 39: add class weapon proficiencies.
Up_f9c6d8e2b4a7 == <<
    Types("weapon_proficiency" :> {"SIMPLE", "MARTIAL"}),
    Table("class_weapon_proficiencies", {}, {<<"weapon_category", "weapon_proficiency">>},
        {<<"class_id", "classes", "cascade">>})>>
\* Back to 38.
Down_f9c6d8e2b4a7 == <<DropTables(<<"class_weapon_proficiencies">>), DropTypes({"weapon_proficiency"})>>
=============================================================================
